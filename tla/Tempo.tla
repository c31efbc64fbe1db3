-------------------------------- MODULE Tempo --------------------------------
(***************************************************************************)
(* The Tempo service: backend/src/tempo/mod.rs, and the choice of a source *)
(* of source.rs.                                                           *)
(*                                                                         *)
(* One lock guards the seasons in memory and is held across the sources'   *)
(* answers; while it is held, today's last answer is served.  A request    *)
(* takes one step between two awaits, and may be dropped at any of them;   *)
(* midnight, a quarter of an hour and a publication come between any two.  *)
(*                                                                         *)
(* A history is the set of its known days (a day has one colour).  Two     *)
(* seasons: the first ends on day LastDay.                                 *)
(***************************************************************************)
EXTENDS Naturals, FiniteSets

CONSTANTS Requests, Nil, LastDay, Days, Horizon, Faults, Events

VARIABLES
    today, published,             \* the house's date; the last day RTE has coloured
    memory, asked,                \* State: seasons, current ([day, ok, old])
    weather, weatherAsked,        \* State: the day of the weather held, and whether it was asked of late
    lastToday, lastForecast,      \* Inner: the last answers
    file,                         \* cache/tempo/: the seasons
    lock, req, faults, asks,
    shown, excused                \* history: the days answered; a save has failed, or was left by its request

SeasonOf(d) == IF d <= LastDay THEN 1 ELSE 2
Season(s) == {d \in Days : SeasonOf(d) = s}
AskedDays == {d \in Days : d + 1 \in Days}

Idle == [pc |-> "idle", kind |-> "", force |-> FALSE, since |-> 0, day |-> 0, now |-> 0, late |-> FALSE,
         season |-> 1, history |-> {}, predicted |-> {}, yesterday |-> {}]

TempoInit ==
    /\ today = LastDay /\ published = LastDay - 1
    /\ memory = [s \in {1, 2} |-> Nil] /\ asked = Nil
    /\ weather = Nil /\ weatherAsked = "due" /\ lastToday = Nil /\ lastForecast = Nil
    /\ file \in {[s \in {1, 2} |-> IF s = 1 THEN {d \in Season(1) : d <= saved} ELSE {}] : saved \in {0, LastDay - 1}}
    /\ lock = Nil /\ req = [r \in Requests |-> Idle] /\ faults = 0 /\ asks = 0 /\ shown = {} /\ excused = FALSE

-----------------------------------------------------------------------------
(* The sources.                                                            *)

Sources == {"official", "public", "fallback"}

\* What a source may answer (external): nothing at all, no day, or the days published.
SourceAnswers(s) == {Nil, {}, {d \in Season(s) : d <= published}}

\* Sources::season: the first with a day to say; Nil when none has.
FirstWithDays(answer) ==
    LET says(source) == answer[source] \notin {Nil, {}} IN
      CASE says("official") -> answer["official"]
        [] ~says("official") /\ says("public") -> answer["public"]
        [] ~says("official") /\ ~says("public") /\ says("fallback") -> answer["fallback"]
        [] OTHER -> Nil
Fetches(s) == {FirstWithDays(answer) : answer \in [Sources -> SourceAnswers(s)]}

-----------------------------------------------------------------------------
(* Steps of a request: pc is what it awaits.                               *)

To(r, pc) == req' = [req EXCEPT ![r].pc = pc]
Pc(r) == req[r].pc
Told(since, day) == [Idle EXCEPT !.pc = "answered", !.since = since, !.day = day]

\* Mutant: the last answer is served whatever its day.
ServesAny(last) == last # Nil

\* turn: the last answer, if it is today's.
Serves(last) == last # Nil /\ last.day = today

\* A request comes: try_lock, else the last answer, else the wait for the lock.
Ask(r, kind, force) ==
    LET last == IF kind = "today" THEN lastToday ELSE lastForecast
        asking == [Idle EXCEPT !.kind = kind, !.force = force, !.since = today, !.day = today]
    IN  /\ Pc(r) = "idle" /\ today \in AskedDays /\ asks + faults < Events /\ asks' = asks + 1
        /\ IF lock = Nil
             THEN lock' = r /\ req' = [req EXCEPT ![r] = [asking EXCEPT !.pc = "begin"]] /\ UNCHANGED shown
             ELSE /\ UNCHANGED lock
                  /\ IF ~force /\ Serves(last)
                       THEN /\ req' = [req EXCEPT ![r] = Told(today, last.day)]
                            /\ shown' = shown \cup last.history
                       ELSE req' = [req EXCEPT ![r] = [asking EXCEPT !.pc = "waiting"]] /\ UNCHANGED shown
        /\ UNCHANGED <<today, published, memory, asked, weather, weatherAsked, lastToday, lastForecast, file, faults, excused>>

\* calendar: its day is read before the lock; `season` is one up to the current.
AskCalendar(r, season) ==
    /\ Pc(r) = "idle" /\ today \in AskedDays /\ asks + faults < Events /\ asks' = asks + 1 /\ season <= SeasonOf(today)
    /\ req' = [req EXCEPT ![r] = [Idle EXCEPT !.pc = "waiting", !.kind = IF season = SeasonOf(today) THEN "calendar" ELSE "past",
                                              !.since = today, !.day = today, !.season = season]]
    /\ UNCHANGED <<today, published, memory, asked, weather, weatherAsked, lastToday, lastForecast, file, lock, faults, shown, excused>>

Locked(r) ==
    /\ Pc(r) = "waiting" /\ lock = Nil
    /\ lock' = r /\ To(r, IF req[r].kind = "past" THEN "past" ELSE "begin")
    /\ UNCHANGED <<today, published, memory, asked, weather, weatherAsked, lastToday, lastForecast, file, faults, asks, shown, excused>>

\* Whether current_season asks: a new day, `force`, or every quarter while it has no tomorrow or failed.
Due(day, known, force) ==
    \/ force \/ asked = Nil
    \/ asked.day # day
    \/ (~asked.ok \/ day + 1 \notin known) /\ asked.old

\* Where a request goes with its season read.
AfterSeason(kind, day) ==
    CASE kind = "today" -> IF SeasonOf(day - 1) = SeasonOf(day) THEN "answer" ELSE "past"
      [] kind \in {"forecast", "calendar"} -> "weather"
      [] kind = "calendar2" -> "answer"

\* current_season up to the sources: its file read once.  A calendar comes here twice, the second
\* time with the day it began on, and a clock of its own.
BeginSeason(r) ==
    LET q == req[r]
        day == IF q.kind = "calendar2" THEN q.since ELSE today
        s == SeasonOf(day)
        known == IF memory[s] = Nil THEN file[s] ELSE memory[s]
        due == Due(day, known, q.force /\ q.kind = "today")
    IN  /\ Pc(r) = "begin" /\ day \in AskedDays
        /\ memory' = [memory EXCEPT ![s] = known]
        /\ req' = [req EXCEPT ![r] = [q EXCEPT !.day = day, !.now = today, !.season = s, !.late = FALSE, !.history = known,
             !.pc = IF due THEN "sources" ELSE IF known = {} THEN "failed" ELSE AfterSeason(q.kind, day)]]
        /\ UNCHANGED <<today, published, asked, weather, weatherAsked, lastToday, lastForecast, file, lock, faults, asks, shown, excused>>

\* The sources answer, or fail: then the file's days, if there are any.
SeasonAnswer(r) ==
    LET q == req[r]
        s == q.season
    IN  /\ Pc(r) = "sources"
        /\ \E fetched \in Fetches(s) :
             IF fetched = Nil
               THEN /\ asked' = [day |-> q.now, ok |-> FALSE, old |-> q.late]
                    /\ To(r, IF memory[s] = {} THEN "failed" ELSE AfterSeason(q.kind, q.day))
                    /\ UNCHANGED memory
               ELSE /\ memory' = [memory EXCEPT ![s] = @ \cup fetched]
                    /\ req' = [req EXCEPT ![r].pc = "write", ![r].history = memory[s] \cup fetched]
                    /\ UNCHANGED asked
        /\ UNCHANGED <<today, published, weather, weatherAsked, lastToday, lastForecast, file, lock, faults, asks, shown, excused>>

\* Mutant: the season is not written.
WrittenNothing(s, history) == file

Written(s, history) == [file EXCEPT ![s] = history]

\* write_season: a failed save is the request's failure, and the ask is not counted.
SeasonWritten(r) ==
    LET q == req[r] IN
    /\ Pc(r) = "write"
    /\ \/ /\ file' = Written(q.season, q.history)
          /\ asked' = [day |-> q.now, ok |-> TRUE, old |-> q.late]
          /\ To(r, AfterSeason(q.kind, q.day))
          /\ UNCHANGED <<faults, excused>>
       \/ /\ faults < Faults /\ asks + faults < Events /\ faults' = faults + 1 /\ excused' = TRUE
          /\ To(r, "failed") /\ UNCHANGED <<file, asked>>
    /\ UNCHANGED <<today, published, memory, weather, weatherAsked, lastToday, lastForecast, lock, shown, asks>>

\* Which season past_season is asked for: the calendar's, or yesterday's.
PastOf(q) == IF q.kind = "past" THEN q.season ELSE SeasonOf(q.day - 1)
AfterPast(q, history) == [q EXCEPT !.pc = "answer", !.history = IF q.kind = "past" THEN history ELSE @,
                                   !.yesterday = history \cap {q.day - 1}]

\* past_season up to the sources: memory, else the file; a file with the season's last day is complete.
PastSeason(r) ==
    LET q == req[r]
        s == PastOf(q)
    IN  /\ Pc(r) = "past"
        /\ IF memory[s] # Nil THEN req' = [req EXCEPT ![r] = AfterPast(q, memory[s])] /\ UNCHANGED memory
           ELSE IF LastDay \in file[s] THEN /\ req' = [req EXCEPT ![r] = AfterPast(q, file[s])]
                                            /\ memory' = [memory EXCEPT ![s] = file[s]]
           ELSE req' = [req EXCEPT ![r].pc = "pastSources"] /\ UNCHANGED memory
        /\ UNCHANGED <<today, published, asked, weather, weatherAsked, lastToday, lastForecast, file, lock, faults, asks, shown, excused>>

\* The finished season is saved, then remembered; a failure is not, and is yesterday unknown to today_in.
PastAnswer(r) ==
    LET q == req[r]
        s == PastOf(q)
        without(history) == IF q.kind = "past" THEN [q EXCEPT !.pc = "failed"] ELSE AfterPast(q, history)
    IN  /\ Pc(r) = "pastSources"
        /\ \E fetched \in Fetches(s) :
             \/ /\ fetched = Nil
                /\ req' = [req EXCEPT ![r] = IF file[s] = {} THEN without({}) ELSE AfterPast(q, file[s])]
                /\ UNCHANGED <<memory, file, faults, excused>>
             \/ /\ fetched # Nil
                /\ file' = Written(s, file[s] \cup fetched)
                /\ memory' = [memory EXCEPT ![s] = file[s] \cup fetched]
                /\ req' = [req EXCEPT ![r] = AfterPast(q, file[s] \cup fetched)]
                /\ UNCHANGED <<faults, excused>>
             \/ /\ fetched # Nil /\ faults < Faults /\ asks + faults < Events /\ faults' = faults + 1
                /\ req' = [req EXCEPT ![r] = without({})]
                /\ UNCHANGED <<memory, file, excused>>
        /\ UNCHANGED <<today, published, asked, weather, weatherAsked, lastToday, lastForecast, lock, shown, asks>>

\* outlook: the published days from tomorrow on, then the forecast's as far as the weather reaches.
Predicted(day, history, issued) ==
    LET first == CHOOSE d \in day + 1 .. day + Horizon + 1 :
                   d \notin history /\ \A e \in day + 1 .. d - 1 : e \in history
    IN  IF issued = Nil THEN {} ELSE {d \in first .. day + Horizon : d <= issued + Horizon}

\* refresh_weather: today's every three hours, another day's at once, a failure again after a quarter.
WeatherDue(day, force) ==
    force \/ weatherAsked = "due" \/ (weatherAsked = "ok" /\ weather # day)

\* forecast_in after its weather: the answer of a forecast; a calendar then reads its own season.
ForecastIn(r, issued) ==
    LET q == req[r] IN
    req' = [req EXCEPT ![r].predicted = Predicted(q.day, q.history, issued),
                       ![r].pc = IF q.kind = "calendar" THEN "begin" ELSE "answer",
                       ![r].kind = IF @ = "calendar" THEN "calendar2" ELSE @]

RefreshWeather(r) ==
    LET q == req[r]
    IN  /\ Pc(r) = "weather"
        /\ IF WeatherDue(q.day, q.force)
             THEN \/ /\ weather' = q.day /\ weatherAsked' = "ok"
                     /\ ForecastIn(r, q.day)
                  \/ /\ UNCHANGED weather /\ weatherAsked' = "failed"
                     /\ ForecastIn(r, weather)
             ELSE UNCHANGED <<weather, weatherAsked>> /\ ForecastIn(r, weather)
        /\ UNCHANGED <<today, published, memory, asked, lastToday, lastForecast, file, lock, faults, asks, shown, excused>>

\* The answer, remembered for its day; the lock is free.
Answer(r) ==
    LET q == req[r]
        kept == [day |-> q.day, history |-> q.history \cup q.yesterday, predicted |-> q.predicted]
    IN  /\ Pc(r) \in {"answer", "failed"} /\ lock = r
        /\ lock' = Nil
        /\ lastToday' = IF Pc(r) = "answer" /\ q.kind = "today" THEN kept ELSE lastToday
        /\ lastForecast' = IF Pc(r) = "answer" /\ q.kind = "forecast" THEN kept ELSE lastForecast
        /\ shown' = IF Pc(r) = "answer" THEN shown \cup kept.history ELSE shown
        /\ req' = [req EXCEPT ![r] = IF q.pc = "answer" THEN Told(q.since, q.day) ELSE Idle]
        /\ UNCHANGED <<today, published, memory, asked, weather, weatherAsked, file, faults, excused, asks>>

\* The client has its answer, or gives up: the handler's future is dropped, the lock with it.
\* A save under way goes on without it (here it lands at once or never; SavedState has late ones).
Leave(r) ==
    LET q == req[r]
        past == {PastOf(q)} \X (Fetches(PastOf(q)) \ {Nil})
    IN  /\ Pc(r) \notin {"idle", "begin", "failed"}
        /\ req' = [req EXCEPT ![r] = Idle]
        /\ lock' = IF lock = r THEN Nil ELSE lock
        /\ file' \in CASE Pc(r) = "write" -> {file, Written(q.season, q.history)}
                       [] Pc(r) = "pastSources" -> {file} \cup {Written(save[1], file[save[1]] \cup save[2]) : save \in past}
                       [] OTHER -> {file}
        /\ excused' = (excused \/ Pc(r) = "write")
        /\ UNCHANGED <<today, published, memory, asked, weather, weatherAsked, lastToday, lastForecast, faults, asks, shown>>

-----------------------------------------------------------------------------
(* Around the requests.                                                    *)

Midnight ==
    /\ today + 1 \in AskedDays /\ today' = today + 1
    /\ UNCHANGED <<published, memory, asked, weather, weatherAsked, lastToday, lastForecast, file, lock, req, faults, asks, shown, excused>>

\* RTE colours tomorrow, or catches up.
Publish ==
    /\ published <= today /\ published' = published + 1
    /\ UNCHANGED <<today, memory, asked, weather, weatherAsked, lastToday, lastForecast, file, lock, req, faults, asks, shown, excused>>

\* A quarter of an hour, or three hours, pass.
Quarter ==
    /\ asked # Nil /\ ~asked.old
    /\ asked' = [asked EXCEPT !.old = TRUE]
    /\ weatherAsked' \in IF weatherAsked = "ok" THEN {"ok", "due"} ELSE {"due"}
    /\ req' = [r \in Requests |-> IF Pc(r) \in {"sources", "write"} THEN [req[r] EXCEPT !.late = TRUE] ELSE req[r]]
    /\ UNCHANGED <<today, published, memory, weather, lastToday, lastForecast, file, lock, faults, asks, shown, excused>>

\* The program restarts: the files are left, of the weather the last one that could be saved.
Restart ==
    /\ faults < Faults /\ asks + faults < Events /\ faults' = faults + 1
    /\ memory' = [s \in {1, 2} |-> Nil] /\ asked' = Nil /\ weatherAsked' = "due"
    /\ weather' \in {Nil} \cup {d \in Days : weather # Nil /\ d <= weather}
    /\ lastToday' = Nil /\ lastForecast' = Nil /\ lock' = Nil /\ req' = [r \in Requests |-> Idle]
    /\ excused' = (excused \/ \E r \in Requests : Pc(r) = "write")
    /\ UNCHANGED <<today, published, file, shown, asks>>

Step(r) ==
    \/ Locked(r) \/ BeginSeason(r) \/ SeasonAnswer(r) \/ SeasonWritten(r) \/ PastSeason(r) \/ PastAnswer(r)
    \/ RefreshWeather(r) \/ Answer(r)

TempoNext ==
    \/ \E r \in Requests : \/ Step(r) \/ Leave(r)
                           \/ \E kind \in {"today", "forecast"}, force \in BOOLEAN : Ask(r, kind, force)
                           \/ \E season \in {1, 2} : AskCalendar(r, season)
    \/ Midnight \/ Publish \/ Quarter \/ Restart

-----------------------------------------------------------------------------
(* Properties.                                                             *)

\* An answer is never for a day before the one it was asked on, though the last answer is served
\* while another request refreshes, across midnight (mod.rs: turn, remember).
AnsweredForToday == \A r \in Requests : Pc(r) = "answered" => req[r].day >= req[r].since

\* A colour that was shown is in its season's file: a restart with every source down still shows
\* it, unless its save failed or its request was dropped while it was being saved (mod.rs:
\* current_season writes before it answers).
ShownIsKept == excused \/ \A d \in shown : d \in file[SeasonOf(d)]

=============================================================================
