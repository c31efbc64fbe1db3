---------------------------- MODULE TempoProofs ----------------------------
(***************************************************************************)
(* Tempo.  The service, for any number of requests and of days: the lock's *)
(* holder is the only one past `waiting`; what memory holds of a season is *)
(* its file, except while the holder writes it, so what a request read is  *)
(* in the files when it answers (KeptInv).  And the rule, for any seasons: *)
(* what is left to place always fits the days left (SeasonInv).            *)
(***************************************************************************)
EXTENDS MCTempo, FiniteSetTheorems, TLAPS

Kinds == {"today", "forecast", "calendar", "calendar2"}
Holding == {"begin", "sources", "write", "past", "pastSources", "weather", "answer", "failed"}

\* A request: what it awaits, and since when.
RequestFits(q, now) ==
    /\ DOMAIN q = DOMAIN T!Idle
    /\ q.pc \in Holding \cup {"idle", "waiting", "answered"} /\ q.season \in {1, 2}
    /\ q.since \in Nat /\ q.day \in Nat /\ q.since <= now /\ q.since <= q.day
    /\ q.pc = "waiting" => q.kind \in Kinds \cup {"past"}
    /\ q.pc \in {"begin", "sources", "write", "weather"} => q.kind \in Kinds

\* Only the lock's holder goes on.
RequestsInv ==
    /\ today \in Nat /\ DOMAIN req = Requests
    /\ \A r \in Requests : RequestFits(req[r], today) /\ (req[r].pc \in Holding => lock = r)

-----------------------------------------------------------------------------
(* A request and its lock.                                                 *)

\* One request takes a step: it keeps, takes or frees the lock.
LEMMA OneStep ==
  ASSUME RequestsInv, NEW r \in Requests, NEW q, req' = [req EXCEPT ![r] = q], RequestFits(q, today), today' = today,
         lock' = lock \/ lock \in {Nil, r}, q.pc \in Holding => lock' = r
  PROVE  RequestsInv'
  <1>1. DOMAIN req' = Requests /\ req'[r] = q /\ \A e \in Requests : e # r => req'[e] = req[e]
        BY DEF RequestsInv
  <1>2. ASSUME NEW e \in Requests PROVE RequestFits(req'[e], today) /\ (req'[e].pc \in Holding => lock' = e)
    <2>1. CASE e = r
          BY <1>1, <2>1
    <2>2. CASE e # r
      <3>1. RequestFits(req[e], today) /\ req'[e] = req[e] /\ (req[e].pc \in Holding => lock = e)
            BY <1>1, <2>2 DEF RequestsInv
      <3>2. req[e].pc \in Holding => lock' = lock
            BY <2>2, <3>1, TempoAssumption
      <3> QED BY <3>1, <3>2
    <2> QED BY <2>1, <2>2
  <1> QED BY <1>1, <1>2 DEF RequestsInv

\* The fields of a request.
LEMMA RequestFields ==
  DOMAIN T!Idle = {"pc", "kind", "force", "since", "day", "now", "late", "season", "history", "predicted", "yesterday"}
  BY DEF T!Idle

\* An answer given, or none.
LEMMA Rests ==
  ASSUME NEW since \in Nat, NEW on \in Nat, since <= on, NEW now \in Nat, since <= now
  PROVE  /\ RequestFits(T!Idle, now) /\ T!Idle.pc = "idle" /\ T!Idle.history = {} /\ T!Idle.yesterday = {}
         /\ RequestFits(T!Told(since, on), now) /\ T!Told(since, on).pc = "answered"
         /\ T!Told(since, on).history = {} /\ T!Told(since, on).yesterday = {}
  <1>1. RequestFits(T!Idle, now) /\ T!Idle.pc = "idle" /\ T!Idle.history = {} /\ T!Idle.yesterday = {}
        BY DEF RequestFits, T!Idle, Holding
  <1>2. RequestFits(T!Told(since, on), now) /\ T!Told(since, on).pc = "answered"
        /\ T!Told(since, on).history = {} /\ T!Told(since, on).yesterday = {}
        BY DEF RequestFits, T!Told, T!Idle, Holding
  <1> QED BY <1>1, <1>2

\* The seasons are two.
LEMMA TwoSeasons ==
  ASSUME NEW d
  PROVE  T!SeasonOf(d) \in {1, 2}
  BY DEF T!SeasonOf

\* A request that goes on, with its day and season, where its kind leads.
LEMMA GoesOn ==
  ASSUME NEW q, NEW now, RequestFits(q, now), q.kind \in Kinds, NEW on
  PROVE  /\ T!AfterSeason(q.kind, on) \in {"answer", "past", "weather"}
  BY DEF T!AfterSeason, Kinds

\* Another step to await.
LEMMA ToFits ==
  ASSUME NEW q, NEW now, RequestFits(q, now), NEW pc \in Holding, pc \in {"begin", "sources", "write", "weather"} => q.kind \in Kinds
  PROVE  RequestFits([q EXCEPT !.pc = pc], now) /\ [q EXCEPT !.pc = pc].pc = pc
  <1> DEFINE p == [q EXCEPT !.pc = pc]
  <1>1. DOMAIN p = DOMAIN q /\ DOMAIN q = DOMAIN T!Idle
        BY DEF RequestFits
  <1>2. p.pc = pc /\ p.season = q.season /\ p.since = q.since /\ p.day = q.day /\ p.kind = q.kind
        BY <1>1, RequestFields
  <1> HIDE DEF p
  <1>3. pc # "waiting"
        BY DEF Holding
  <1> QED BY <1>1, <1>2, <1>3 DEF RequestFits, p

\* A request comes.
LEMMA AskSteps ==
  ASSUME RequestsInv, NEW r \in Requests,
         \/ \E kind \in {"today", "forecast"}, force \in BOOLEAN : T!Ask(r, kind, force)
         \/ \E season \in {1, 2} : T!AskCalendar(r, season)
  PROVE  RequestsInv'
  <1>1. ASSUME NEW kind \in {"today", "forecast"}, NEW force \in BOOLEAN, T!Ask(r, kind, force) PROVE RequestsInv'
    <2> DEFINE last == IF kind = "today" THEN lastToday ELSE lastForecast
               asking == [T!Idle EXCEPT !.kind = kind, !.force = force, !.since = today, !.day = today]
               begun == [asking EXCEPT !.pc = "begin"]
               waiting == [asking EXCEPT !.pc = "waiting"]
    <2>1. today \in Nat /\ today' = today
          BY <1>1 DEF RequestsInv, T!Ask
    <2>2. RequestFits(begun, today) /\ begun.pc = "begin" /\ RequestFits(waiting, today) /\ waiting.pc = "waiting"
          BY <2>1 DEF RequestFits, T!Idle, Holding, Kinds
    <2>3. \/ lock = Nil /\ lock' = r /\ req' = [req EXCEPT ![r] = begun]
          \/ lock' = lock /\ last.day = today /\ req' = [req EXCEPT ![r] = T!Told(today, last.day)]
          \/ lock' = lock /\ req' = [req EXCEPT ![r] = waiting]
          BY <1>1 DEF T!Ask, T!Serves
    <2> HIDE DEF begun, waiting, last
    <2>4. RequestFits(T!Told(today, today), today) /\ T!Told(today, today).pc = "answered"
          BY <2>1, Rests
    <2>5. "answered" \notin Holding /\ "waiting" \notin Holding
          BY DEF Holding
    <2> QED BY <2>1, <2>2, <2>3, <2>4, <2>5, OneStep
  <1>2. ASSUME NEW season \in {1, 2}, T!AskCalendar(r, season) PROVE RequestsInv'
    <2> DEFINE kind == IF season = T!SeasonOf(today) THEN "calendar" ELSE "past"
               q == [T!Idle EXCEPT !.pc = "waiting", !.kind = kind, !.since = today, !.day = today, !.season = season]
    <2>1. today \in Nat /\ today' = today /\ lock' = lock /\ req' = [req EXCEPT ![r] = q]
          BY <1>2 DEF RequestsInv, T!AskCalendar
    <2>2. kind \in Kinds \cup {"past"}
          BY DEF Kinds
    <2> HIDE DEF kind
    <2>3. RequestFits(q, today) /\ q.pc = "waiting" /\ "waiting" \notin Holding
          BY <2>1, <2>2 DEF RequestFits, T!Idle, Holding
    <2> HIDE DEF q
    <2> QED BY <2>1, <2>3, OneStep
  <1> QED BY <1>1, <1>2

\* A step that leaves a request's day and season alone.
LEMMA SameDay ==
  ASSUME NEW q, NEW now, RequestFits(q, now), NEW p, DOMAIN p = DOMAIN q,
         p.season = q.season, p.since = q.since, p.day = q.day,
         p.pc \in Holding, p.pc \in {"begin", "sources", "write", "weather"} => p.kind \in Kinds
  PROVE  RequestFits(p, now)
  <1>1. p.pc # "waiting"
        BY DEF Holding
  <1> QED BY <1>1 DEF RequestFits

\* The steps of a request under way keep, take or free the lock.
LEMMA StepsKeep ==
  ASSUME RequestsInv, NEW r \in Requests, T!Step(r) \/ T!Leave(r)
  PROVE  RequestsInv'
  <1> DEFINE q == req[r]
  <1>1. today \in Nat /\ DOMAIN req = Requests /\ RequestFits(q, today) /\ (q.pc \in Holding => lock = r)
        BY DEF RequestsInv
  <1>2. q.kind \in Kinds => \A on : T!AfterSeason(q.kind, on) \in {"answer", "past", "weather"}
        BY <1>1, GoesOn
  <1>3. {"answer", "past", "weather"} \subseteq Holding /\ {"begin", "sources", "write", "failed", "pastSources"} \subseteq Holding
        BY DEF Holding
  <1>4. ASSUME NEW pc, T!To(r, pc) PROVE req' = [req EXCEPT ![r] = [q EXCEPT !.pc = pc]]
        BY <1>4 DEF T!To
  <1>5. ASSUME NEW p, req' = [req EXCEPT ![r] = p], today' = today, RequestFits(p, today),
               (lock' = lock /\ q.pc \in Holding) \/ (lock' = r /\ lock = Nil)
        PROVE  RequestsInv'
        BY <1>1, <1>5, OneStep
  <1>6. CASE T!Locked(r)
    <2>1. /\ q.pc = "waiting" /\ lock = Nil /\ lock' = r /\ today' = today
          /\ T!To(r, IF q.kind = "past" THEN "past" ELSE "begin")
          BY <1>6 DEF T!Locked, T!Pc
    <2>2. q.kind # "past" => q.kind \in Kinds
          BY <1>1, <2>1 DEF RequestFits
    <2> DEFINE pc == IF q.kind = "past" THEN "past" ELSE "begin"
    <2>3. RequestFits([q EXCEPT !.pc = pc], today)
          BY <1>1, <1>3, <2>2, ToFits
    <2>4. req' = [req EXCEPT ![r] = [q EXCEPT !.pc = pc]]
          BY <1>4, <2>1
    <2> HIDE DEF pc, q
    <2> QED BY <1>5, <2>1, <2>3, <2>4
  <1>7. CASE T!BeginSeason(r)
    <2> DEFINE on == IF q.kind = "calendar2" THEN q.since ELSE today
               s == T!SeasonOf(on)
               known == IF memory[s] = Nil THEN file[s] ELSE memory[s]
               due == T!Due(on, known, q.force /\ q.kind = "today")
               pc == IF due THEN "sources" ELSE IF known = {} THEN "failed" ELSE T!AfterSeason(q.kind, on)
               p == [q EXCEPT !.day = on, !.now = today, !.season = s, !.late = FALSE, !.history = known, !.pc = pc]
    <2>1. q.pc = "begin" /\ lock' = lock /\ today' = today /\ req' = [req EXCEPT ![r] = p]
          BY <1>7 DEF T!BeginSeason, T!Pc
    <2>2. q.kind \in Kinds /\ q.since \in Nat /\ q.since <= today /\ DOMAIN q = DOMAIN T!Idle
          BY <1>1, <2>1 DEF RequestFits
    <2>3. on \in Nat /\ q.since <= on /\ s \in {1, 2}
          BY <1>1, <2>2, TwoSeasons
    <2>4. pc \in Holding
          BY <1>2, <1>3, <2>2
    <2> HIDE DEF on, s, known, due, pc
    <2>5. DOMAIN p = DOMAIN T!Idle /\ p.pc = pc /\ p.season = s /\ p.day = on /\ p.since = q.since /\ p.kind = q.kind
          BY <2>2, RequestFields
    <2> HIDE DEF p
    <2>6. pc # "waiting"
          BY <2>4 DEF Holding
    <2>7. RequestFits(p, today)
          BY <2>2, <2>3, <2>4, <2>5, <2>6 DEF RequestFits
    <2> QED BY <1>3, <1>5, <2>1, <2>7
  <1>8. CASE T!SeasonAnswer(r)
    <2>1. q.pc = "sources" /\ lock' = lock /\ today' = today
          BY <1>8 DEF T!SeasonAnswer, T!Pc
    <2>2. q.kind \in Kinds /\ DOMAIN q = DOMAIN T!Idle
          BY <1>1, <2>1 DEF RequestFits
    <2>3. ASSUME NEW pc \in {"failed", T!AfterSeason(q.kind, q.day)}, T!To(r, pc) PROVE RequestsInv'
      <3>1. pc \in Holding
            BY <1>2, <1>3, <2>2
      <3>2. RequestFits([q EXCEPT !.pc = pc], today)
            BY <1>1, <2>2, <3>1, ToFits
      <3>3. req' = [req EXCEPT ![r] = [q EXCEPT !.pc = pc]]
            BY <1>4, <2>3
      <3> HIDE DEF q
      <3> QED BY <1>3, <1>5, <2>1, <3>2, <3>3
    <2>4. ASSUME NEW history, req' = [req EXCEPT ![r].pc = "write", ![r].history = history] PROVE RequestsInv'
      <3> DEFINE p == [q EXCEPT !.pc = "write", !.history = history]
      <3>1. req' = [req EXCEPT ![r] = p]
            BY <1>1, <2>4
      <3>2. DOMAIN p = DOMAIN q /\ p.pc = "write" /\ p.season = q.season /\ p.day = q.day /\ p.since = q.since /\ p.kind = q.kind
            BY <2>2, RequestFields
      <3> HIDE DEF p
      <3>3. RequestFits(p, today)
            BY <1>1, <1>3, <2>2, <3>2, SameDay
      <3> QED BY <1>3, <1>5, <2>1, <3>1, <3>3
    <2>5. \/ \E pc \in {"failed", T!AfterSeason(q.kind, q.day)} : T!To(r, pc)
          \/ \E history : req' = [req EXCEPT ![r].pc = "write", ![r].history = history]
          BY <1>8 DEF T!SeasonAnswer
    <2> QED BY <2>3, <2>4, <2>5
  <1>9. CASE T!SeasonWritten(r)
    <2>1. q.pc = "write" /\ lock' = lock /\ today' = today /\ \E pc \in {"failed", T!AfterSeason(q.kind, q.day)} : T!To(r, pc)
          BY <1>9 DEF T!SeasonWritten, T!Pc
    <2>2. q.kind \in Kinds
          BY <1>1, <2>1 DEF RequestFits
    <2>3. PICK pc \in {"failed", T!AfterSeason(q.kind, q.day)} : T!To(r, pc)
          BY <2>1
    <2>4. pc \in Holding
          BY <1>2, <1>3, <2>2
    <2>5. RequestFits([q EXCEPT !.pc = pc], today)
          BY <1>1, <2>2, <2>4, ToFits
    <2>6. req' = [req EXCEPT ![r] = [q EXCEPT !.pc = pc]]
          BY <1>4, <2>3
    <2> HIDE DEF q
    <2> QED BY <1>3, <1>5, <2>1, <2>5, <2>6
  <1>10. ASSUME NEW history, NEW p, p \in {T!AfterPast(q, history), [q EXCEPT !.pc = "failed"], [q EXCEPT !.pc = "pastSources"]},
                req' = [req EXCEPT ![r] = p], today' = today, lock' = lock, q.pc \in Holding
         PROVE  RequestsInv'
    <2>1. DOMAIN q = DOMAIN T!Idle
          BY <1>1 DEF RequestFits
    <2>2. DOMAIN p = DOMAIN q /\ p.pc \in {"answer", "failed", "pastSources"} /\ p.season = q.season /\ p.day = q.day /\ p.since = q.since
          BY <1>10, <2>1, RequestFields DEF T!AfterPast
    <2> HIDE DEF q
    <2>3. RequestFits(p, today)
          BY <1>1, <1>3, <2>2, SameDay
    <2> QED BY <1>5, <1>10, <2>3
  <1>11. CASE T!PastSeason(r)
    <2>1. /\ q.pc = "past" /\ today' = today /\ lock' = lock
          /\ \E history : \E p \in {T!AfterPast(q, history), [q EXCEPT !.pc = "pastSources"]} : req' = [req EXCEPT ![r] = p]
          BY <1>11 DEF T!PastSeason, T!Pc
    <2> HIDE DEF q
    <2> QED BY <1>3, <1>10, <2>1
  <1>12. CASE T!PastAnswer(r)
    <2>1. /\ q.pc = "pastSources" /\ today' = today /\ lock' = lock
          /\ \E history : \E p \in {T!AfterPast(q, history), [q EXCEPT !.pc = "failed"]} : req' = [req EXCEPT ![r] = p]
          BY <1>12 DEF T!PastAnswer, T!Pc
    <2> HIDE DEF q
    <2> QED BY <1>3, <1>10, <2>1
  <1>13. CASE T!RefreshWeather(r)
    <2>1. q.pc = "weather" /\ today' = today /\ lock' = lock /\ \E issued : T!ForecastIn(r, issued)
          BY <1>13 DEF T!RefreshWeather, T!Pc
    <2>2. PICK issued : T!ForecastIn(r, issued)
          BY <2>1
    <2> DEFINE predicted == T!Predicted(q.day, q.history, issued)
               pc == IF q.kind = "calendar" THEN "begin" ELSE "answer"
               kind == IF q.kind = "calendar" THEN "calendar2" ELSE q.kind
               p == [q EXCEPT !.predicted = predicted, !.pc = pc, !.kind = kind]
    <2>3. req' = [req EXCEPT ![r] = p]
          BY <1>1, <2>2 DEF T!ForecastIn
    <2>4. pc \in Holding /\ kind \in Kinds
      <3>1. q.kind \in Kinds
            BY <1>1, <2>1 DEF RequestFits
      <3> QED BY <1>3, <3>1 DEF Kinds
    <2>5. DOMAIN q = DOMAIN T!Idle
          BY <1>1 DEF RequestFits
    <2> HIDE DEF predicted, pc, kind
    <2>6. DOMAIN p = DOMAIN q /\ p.pc = pc /\ p.season = q.season /\ p.day = q.day /\ p.since = q.since /\ p.kind = kind
          BY <2>5, RequestFields
    <2> HIDE DEF p
    <2>7. RequestFits(p, today)
          BY <1>1, <2>4, <2>6, SameDay
    <2> QED BY <1>3, <1>5, <2>1, <2>3, <2>7
  <1>14. \A since, on \in Nat : since <= on /\ since <= today =>
           /\ RequestFits(T!Idle, today) /\ T!Idle.pc \notin Holding
           /\ RequestFits(T!Told(since, on), today) /\ T!Told(since, on).pc \notin Holding
    <2>1. "idle" \notin Holding /\ "answered" \notin Holding
          BY DEF Holding
    <2> QED BY <1>1, <2>1, Rests
  <1>15. q.since \in Nat /\ q.day \in Nat /\ q.since <= q.day /\ q.since <= today
         BY <1>1 DEF RequestFits
  <1>16. CASE T!Answer(r)
    <2>1. /\ lock = r /\ lock' = Nil /\ today' = today
          /\ req' = [req EXCEPT ![r] = IF q.pc = "answer" THEN T!Told(q.since, q.day) ELSE T!Idle]
          BY <1>16 DEF T!Answer
    <2> DEFINE p == IF q.pc = "answer" THEN T!Told(q.since, q.day) ELSE T!Idle
    <2>2. RequestFits(p, today) /\ p.pc \notin Holding
          BY <1>14, <1>15
    <2>3. req' = [req EXCEPT ![r] = p]
          BY <2>1
    <2> HIDE DEF p
    <2> QED BY <2>1, <2>2, <2>3, OneStep
  <1>17. CASE T!Leave(r)
    <2>1. lock' = (IF lock = r THEN Nil ELSE lock) /\ today' = today /\ req' = [req EXCEPT ![r] = T!Idle]
          BY <1>17 DEF T!Leave
    <2>2. RequestFits(T!Idle, today) /\ T!Idle.pc \notin Holding
          BY <1>14, <1>15
    <2>3. lock' = lock \/ lock \in {Nil, r}
          BY <2>1
    <2> QED BY <2>1, <2>2, <2>3, OneStep
  <1> QED BY <1>6, <1>7, <1>8, <1>9, <1>11, <1>12, <1>13, <1>16, <1>17 DEF T!Step

\* What happens around the requests.
LEMMA AroundKeeps ==
  ASSUME RequestsInv, T!Midnight \/ T!Publish \/ T!Quarter \/ T!Restart
  PROVE  RequestsInv'
  <1>1. today \in Nat /\ DOMAIN req = Requests
        BY DEF RequestsInv
  <1>2. CASE T!Midnight
    <2>1. today' = today + 1 /\ req' = req /\ lock' = lock
          BY <1>2 DEF T!Midnight
    <2>2. \A r \in Requests : RequestFits(req[r], today + 1)
      <3>1. \A r \in Requests : RequestFits(req[r], today)
            BY DEF RequestsInv
      <3>2. \A since \in Nat : since <= today => since <= today + 1
            BY <1>1
      <3> QED BY <3>1, <3>2 DEF RequestFits
    <2> QED BY <1>1, <2>1, <2>2 DEF RequestsInv
  <1>3. CASE T!Publish
        BY <1>3 DEF T!Publish, RequestsInv
  <1>4. CASE T!Quarter
    <2>1. /\ today' = today /\ lock' = lock
          /\ req' = [r \in Requests |-> IF req[r].pc \in {"sources", "write"} THEN [req[r] EXCEPT !.late = TRUE] ELSE req[r]]
          BY <1>4 DEF T!Quarter, T!Pc
    <2>2. ASSUME NEW r \in Requests PROVE RequestFits(req'[r], today) /\ req'[r].pc = req[r].pc
      <3> DEFINE q == req[r]
                 p == [q EXCEPT !.late = TRUE]
      <3>1. RequestFits(q, today)
            BY DEF RequestsInv
      <3>2. DOMAIN q = DOMAIN T!Idle
            BY <3>1 DEF RequestFits
      <3>3. /\ DOMAIN p = DOMAIN q /\ p.pc = q.pc /\ p.season = q.season /\ p.day = q.day /\ p.since = q.since
            /\ p.kind = q.kind
            BY <3>2, RequestFields
      <3>4. req'[r] \in {p, q}
            BY <2>1
      <3> HIDE DEF p, q
      <3>5. RequestFits(p, today)
            BY <3>1, <3>3 DEF RequestFits
      <3> QED BY <3>1, <3>3, <3>4, <3>5 DEF q
    <2> QED BY <1>1, <2>1, <2>2 DEF RequestsInv
  <1>5. CASE T!Restart
    <2>1. today' = today /\ req' = [r \in Requests |-> T!Idle]
          BY <1>5 DEF T!Restart
    <2>2. RequestFits(T!Idle, today) /\ T!Idle.pc \notin Holding
      <3>1. RequestFits(T!Idle, today) /\ T!Idle.pc = "idle"
            BY <1>1, Rests
      <3> QED BY <3>1 DEF Holding
    <2> HIDE DEF T!Idle
    <2> QED BY <1>1, <2>1, <2>2 DEF RequestsInv
  <1> QED BY <1>2, <1>3, <1>4, <1>5

\* The start.
LEMMA RequestsStart ==
  ASSUME T!TempoInit
  PROVE  RequestsInv
  <1>1. today = LastDay /\ req = [r \in Requests |-> T!Idle] /\ today \in Nat
        BY TempoAssumption DEF T!TempoInit
  <1>2. RequestFits(T!Idle, today) /\ T!Idle.pc \notin Holding
    <2>1. RequestFits(T!Idle, today) /\ T!Idle.pc = "idle"
          BY <1>1, Rests
    <2> QED BY <2>1 DEF Holding
  <1> QED BY <1>1, <1>2 DEF RequestsInv

\* Every step of the service.
LEMMA RequestsStep ==
  ASSUME RequestsInv, [T!TempoNext]_serviceVars
  PROVE  RequestsInv'
  <1>1. CASE UNCHANGED serviceVars
        BY <1>1 DEF serviceVars, RequestsInv
  <1> QED BY <1>1, AskSteps, StepsKeep, AroundKeeps DEF T!TempoNext

-----------------------------------------------------------------------------
(* The service starts as its module says, and moves only as it says.       *)

\* In every part.
LEMMA ServiceStart ==
  Init => T!TempoInit
  BY DEF Init, NoService

\* So do the others leave it.
LEMMA ServiceMoves ==
  [Next]_vars => [T!TempoNext]_serviceVars
  <1>1. DecideDay => UNCHANGED serviceVars
        BY DEF DecideDay
  <1>2. UNCHANGED vars => UNCHANGED serviceVars
        BY DEF vars
  <1> QED BY <1>1, <1>2 DEF Next

\* An answer is never for a day before the one it was asked on (tempo/mod.rs).
THEOREM ThAnsweredForToday == Spec => []AnsweredForToday
  <1>1. Init => RequestsInv
        BY ServiceStart, RequestsStart
  <1>2. RequestsInv /\ [Next]_vars => RequestsInv'
        BY ServiceMoves, RequestsStep
  <1>3. RequestsInv => AnsweredForToday
        BY DEF RequestsInv, RequestFits, AnsweredForToday, T!AnsweredForToday
  <1> QED BY <1>1, <1>2, <1>3, PTL DEF Spec

-----------------------------------------------------------------------------
(* What was shown is kept.                                                 *)

Kept(f, X) == \A d \in X : d \in f[T!SeasonOf(d)]

\* What a request read is in the files f; while it writes, memory m is ahead of them.
HistoryFits(q, f, m) ==
    /\ Kept(f, q.yesterday)
    /\ q.pc # "write" => Kept(f, q.history)
    /\ q.pc = "write" => m[q.season] = q.history /\ f[q.season] \subseteq q.history /\ q.history \subseteq T!Season(q.season)
    /\ q.pc = "sources" => m[q.season] = f[q.season]
    /\ q.pc = "pastSources" => m[T!PastOf(q)] = Nil

FilesFit(f) == DOMAIN f = {1, 2} /\ \A s \in {1, 2} : f[s] \subseteq T!Season(s)
LastsFit(f, last) == last # Nil => Kept(f, last.history)

KeptInv ==
    /\ FilesFit(file) /\ DOMAIN memory = {1, 2}
    /\ Kept(file, shown) /\ LastsFit(file, lastToday) /\ LastsFit(file, lastForecast)
    /\ \A s \in {1, 2} : memory[s] \in {Nil, file[s]} \/ \E r \in Requests : req[r].pc = "write" /\ req[r].season = s
    /\ \A r \in Requests : HistoryFits(req[r], file, memory)

\* A season's days are of that season, in its file.
LEMMA KeptFile ==
  ASSUME NEW f, FilesFit(f), NEW s \in {1, 2}
  PROVE  Kept(f, f[s])
  BY DEF FilesFit, Kept, T!Season

\* Files only grow: what was kept is.
LEMMA KeptGrows ==
  ASSUME NEW f, NEW g, \A s \in {1, 2} : f[s] \subseteq g[s], NEW X, Kept(f, X)
  PROVE  Kept(g, X)
  BY TwoSeasons DEF Kept

\* What the sources say is of the season asked for.
LEMMA FetchedFits ==
  ASSUME NEW s, NEW fetched \in T!Fetches(s), fetched # Nil
  PROVE  fetched \subseteq T!Season(s)
  <1>1. PICK answer \in [T!Sources -> T!SourceAnswers(s)] : fetched = T!FirstWithDays(answer)
        BY DEF T!Fetches
  <1>2. \A source \in T!Sources : answer[source] = Nil \/ answer[source] \subseteq T!Season(s)
        BY DEF T!SourceAnswers
  <1>3. \/ fetched = Nil \/ fetched = answer["official"] \/ fetched = answer["public"] \/ fetched = answer["fallback"]
        BY <1>1 DEF T!FirstWithDays
  <1> QED BY <1>2, <1>3 DEF T!Sources

\* A request's step: one that holds the lock may change what is kept, another leaves it alone.
LEMMA KeptChange ==
  ASSUME KeptInv, RequestsInv, NEW r \in Requests, NEW p, req' = [req EXCEPT ![r] = p],
         FilesFit(file'), DOMAIN memory' = {1, 2}, \A s \in {1, 2} : file[s] \subseteq file'[s],
         \/ UNCHANGED <<file, memory>> /\ req[r].pc # "write"
         \/ /\ lock = r
            /\ \A s \in {1, 2} : memory'[s] \in {Nil, file'[s]} \/ (p.pc = "write" /\ p.season = s),
         HistoryFits(p, file', memory'),
         Kept(file', shown'), LastsFit(file', lastToday'), LastsFit(file', lastForecast')
  PROVE  KeptInv'
  <1>1. DOMAIN req = Requests /\ req'[r] = p /\ \A e \in Requests : e # r => req'[e] = req[e]
        BY DEF RequestsInv
  <1>2. CASE UNCHANGED <<file, memory>> /\ req[r].pc # "write"
    <2>1. \A e \in Requests : HistoryFits(req'[e], file', memory')
          BY <1>1, <1>2 DEF KeptInv
    <2>2. \A s \in {1, 2} : memory'[s] \in {Nil, file'[s]} \/ \E e \in Requests : req'[e].pc = "write" /\ req'[e].season = s
          BY <1>1, <1>2 DEF KeptInv
    <2> QED BY <2>1, <2>2 DEF KeptInv
  <1>3. CASE /\ lock = r
             /\ \A s \in {1, 2} : memory'[s] \in {Nil, file'[s]} \/ (p.pc = "write" /\ p.season = s)
    <2>1. ASSUME NEW e \in Requests, e # r PROVE HistoryFits(req'[e], file', memory')
      <3>1. req[e].pc \notin {"write", "sources", "pastSources"}
            BY <1>3, <2>1 DEF RequestsInv, Holding
      <3>2. Kept(file, req[e].yesterday) /\ Kept(file, req[e].history)
            BY <3>1 DEF KeptInv, HistoryFits
      <3>3. Kept(file', req[e].yesterday) /\ Kept(file', req[e].history)
            BY <3>2, KeptGrows
      <3> QED BY <1>1, <2>1, <3>1, <3>3 DEF HistoryFits
    <2>2. \A e \in Requests : HistoryFits(req'[e], file', memory')
          BY <1>1, <2>1
    <2>3. \A s \in {1, 2} : memory'[s] \in {Nil, file'[s]} \/ \E e \in Requests : req'[e].pc = "write" /\ req'[e].season = s
          BY <1>1, <1>3
    <2> QED BY <2>2, <2>3 DEF KeptInv
  <1> QED BY <1>2, <1>3

\* The holder of the lock, not writing, finds each season in memory as its file has it.
LEMMA MemoryIsFile ==
  ASSUME KeptInv, RequestsInv, NEW r \in Requests, lock = r, req[r].pc # "write"
  PROVE  \A s \in {1, 2} : memory[s] \in {Nil, file[s]}
  BY DEF KeptInv, RequestsInv, Holding

\* A request that comes reads nothing but the last answer.
LEMMA AskKept ==
  ASSUME KeptInv, RequestsInv, NEW r \in Requests,
         \/ \E kind \in {"today", "forecast"}, force \in BOOLEAN : T!Ask(r, kind, force)
         \/ \E season \in {1, 2} : T!AskCalendar(r, season)
  PROVE  KeptInv'
  <1>1. FilesFit(file) /\ DOMAIN memory = {1, 2} /\ Kept(file, shown) /\ LastsFit(file, lastToday) /\ LastsFit(file, lastForecast)
        BY DEF KeptInv
  <1>2. Kept(file, {})
        BY DEF Kept
  <1>3. ASSUME NEW p, req' = [req EXCEPT ![r] = p], p.history = {}, p.yesterday = {}, p.pc \notin {"write", "sources", "pastSources"},
               req[r].pc = "idle", UNCHANGED <<file, memory, lastToday, lastForecast>>, Kept(file, shown')
        PROVE  KeptInv'
    <2>1. HistoryFits(p, file', memory')
          BY <1>2, <1>3 DEF HistoryFits
    <2> QED BY <1>1, <1>3, <2>1, KeptChange
  <1>4. ASSUME NEW kind \in {"today", "forecast"}, NEW force \in BOOLEAN, T!Ask(r, kind, force) PROVE KeptInv'
    <2> DEFINE last == IF kind = "today" THEN lastToday ELSE lastForecast
               asking == [T!Idle EXCEPT !.kind = kind, !.force = force, !.since = today, !.day = today]
               begun == [asking EXCEPT !.pc = "begin"]
               waiting == [asking EXCEPT !.pc = "waiting"]
               told == T!Told(today, last.day)
    <2>1. req[r].pc = "idle" /\ UNCHANGED <<file, memory, lastToday, lastForecast>>
          BY <1>4 DEF T!Ask, T!Pc
    <2>2. /\ begun.history = {} /\ begun.yesterday = {} /\ begun.pc = "begin"
          /\ waiting.history = {} /\ waiting.yesterday = {} /\ waiting.pc = "waiting"
          /\ told.history = {} /\ told.yesterday = {} /\ told.pc = "answered"
          BY DEF T!Idle, T!Told
    <2>3. \/ req' = [req EXCEPT ![r] = begun] /\ shown' = shown
          \/ req' = [req EXCEPT ![r] = told] /\ shown' = shown \cup last.history /\ last # Nil
          \/ req' = [req EXCEPT ![r] = waiting] /\ shown' = shown
          BY <1>4 DEF T!Ask, T!Serves
    <2>4. last # Nil => Kept(file, last.history)
          BY <1>1 DEF LastsFit
    <2> HIDE DEF begun, waiting, told, last
    <2>5. Kept(file, shown')
          BY <1>1, <2>3, <2>4 DEF Kept
    <2> QED BY <1>3, <2>1, <2>2, <2>3, <2>5
  <1>5. ASSUME NEW season \in {1, 2}, T!AskCalendar(r, season) PROVE KeptInv'
    <2> DEFINE p == [T!Idle EXCEPT !.pc = "waiting", !.kind = IF season = T!SeasonOf(today) THEN "calendar" ELSE "past",
                                   !.since = today, !.day = today, !.season = season]
    <2>1. req' = [req EXCEPT ![r] = p] /\ req[r].pc = "idle" /\ UNCHANGED <<file, memory, lastToday, lastForecast, shown>>
          BY <1>5 DEF T!AskCalendar, T!Pc
    <2>2. p.history = {} /\ p.yesterday = {} /\ p.pc = "waiting"
          BY DEF T!Idle
    <2> HIDE DEF p
    <2> QED BY <1>1, <1>3, <2>1, <2>2
  <1> QED BY <1>4, <1>5

\* A request's step that leaves the files and the answers alone.
LEMMA KeptStill ==
  ASSUME KeptInv, RequestsInv, NEW r \in Requests, NEW p, req' = [req EXCEPT ![r] = p],
         UNCHANGED <<file, shown, lastToday, lastForecast>>, DOMAIN memory' = {1, 2},
         \/ memory' = memory /\ req[r].pc # "write"
         \/ /\ lock = r
            /\ \A s \in {1, 2} : memory'[s] \in {Nil, file[s]} \/ (p.pc = "write" /\ p.season = s),
         HistoryFits(p, file, memory')
  PROVE  KeptInv'
  <1>1. FilesFit(file) /\ Kept(file, shown) /\ LastsFit(file, lastToday) /\ LastsFit(file, lastForecast)
        BY DEF KeptInv
  <1>2. \A s \in {1, 2} : file[s] \subseteq file'[s]
        OBVIOUS
  <1> QED BY <1>1, <1>2, KeptChange

\* A request that goes on with what it read.
LEMMA ReadsOn ==
  ASSUME NEW q, NEW now, RequestFits(q, now), NEW f, NEW m, Kept(f, q.history), Kept(f, q.yesterday),
         NEW pc, pc \notin {"write", "sources", "pastSources"}
  PROVE  HistoryFits([q EXCEPT !.pc = pc], f, m)
  <1> DEFINE p == [q EXCEPT !.pc = pc]
  <1>1. DOMAIN q = DOMAIN T!Idle
        BY DEF RequestFits
  <1>2. p.pc = pc /\ p.history = q.history /\ p.yesterday = q.yesterday
        BY <1>1, RequestFields
  <1> HIDE DEF p
  <1> QED BY <1>2 DEF HistoryFits, p

\* A request that has the past season's days, of which yesterday.
LEMMA PastFits ==
  ASSUME NEW q, NEW now, RequestFits(q, now), NEW f, NEW m, Kept(f, q.history), NEW X, Kept(f, X)
  PROVE  HistoryFits(T!AfterPast(q, X), f, m)
  <1> DEFINE p == T!AfterPast(q, X)
  <1>1. DOMAIN q = DOMAIN T!Idle
        BY DEF RequestFits
  <1>2. p.pc = "answer" /\ p.history \in {X, q.history} /\ p.yesterday = X \cap {q.day - 1}
        BY <1>1, RequestFields DEF T!AfterPast
  <1>3. Kept(f, X \cap {q.day - 1})
        BY DEF Kept
  <1> HIDE DEF p
  <1> QED BY <1>2, <1>3 DEF HistoryFits, p

\* What a request that is not writing has read is in the files.
LEMMA HasRead ==
  ASSUME KeptInv, NEW r \in Requests
  PROVE  Kept(file, req[r].yesterday) /\ (req[r].pc # "write" => Kept(file, req[r].history))
  BY DEF KeptInv, HistoryFits

\* Up to the sources.
LEMMA BeginKept ==
  ASSUME KeptInv, RequestsInv, NEW r \in Requests, T!Locked(r) \/ T!BeginSeason(r) \/ T!RefreshWeather(r)
  PROVE  KeptInv'
  <1> DEFINE q == req[r]
  <1>1. RequestFits(q, today) /\ (q.pc \in Holding => lock = r) /\ DOMAIN req = Requests /\ DOMAIN q = DOMAIN T!Idle
        BY DEF RequestsInv, RequestFits
  <1>2. DOMAIN memory = {1, 2} /\ FilesFit(file)
        BY DEF KeptInv
  <1>3. CASE T!Locked(r)
    <2> DEFINE pc == IF q.kind = "past" THEN "past" ELSE "begin"
               p == [q EXCEPT !.pc = pc]
    <2>1. /\ q.pc = "waiting" /\ req' = [req EXCEPT ![r] = p]
          /\ UNCHANGED <<file, memory, shown, lastToday, lastForecast>>
          BY <1>3 DEF T!Locked, T!Pc, T!To
    <2>2. Kept(file, q.yesterday) /\ Kept(file, q.history)
          BY <2>1, HasRead
    <2>3. pc \notin {"write", "sources", "pastSources"}
          OBVIOUS
    <2> HIDE DEF pc
    <2>4. HistoryFits(p, file, memory)
          BY <1>1, <2>2, <2>3, ReadsOn
    <2> HIDE DEF p
    <2> QED BY <1>2, <2>1, <2>4, KeptStill
  <1>4. CASE T!BeginSeason(r)
    <2> DEFINE on == IF q.kind = "calendar2" THEN q.since ELSE today
               s == T!SeasonOf(on)
               known == IF memory[s] = Nil THEN file[s] ELSE memory[s]
               due == T!Due(on, known, q.force /\ q.kind = "today")
               pc == IF due THEN "sources" ELSE IF known = {} THEN "failed" ELSE T!AfterSeason(q.kind, on)
               p == [q EXCEPT !.day = on, !.now = today, !.season = s, !.late = FALSE, !.history = known, !.pc = pc]
    <2>1. /\ q.pc = "begin" /\ req' = [req EXCEPT ![r] = p] /\ memory' = [memory EXCEPT ![s] = known]
          /\ UNCHANGED <<file, shown, lastToday, lastForecast>>
          BY <1>4 DEF T!BeginSeason, T!Pc
    <2>2. lock = r /\ q.kind \in Kinds
          BY <1>1, <2>1 DEF RequestFits, Holding
    <2>3. s \in {1, 2} /\ \A t \in {1, 2} : memory[t] \in {Nil, file[t]}
          BY <2>1, <2>2, MemoryIsFile, TwoSeasons
    <2>4. known = file[s]
          BY <2>3
    <2>5. pc \notin {"write", "pastSources"}
          BY <1>1, <2>2, GoesOn
    <2> HIDE DEF on, s, known, due, pc
    <2>6. p.pc = pc /\ p.season = s /\ p.history = known /\ p.yesterday = q.yesterday
          BY <1>1, RequestFields
    <2> HIDE DEF p
    <2>7. DOMAIN memory' = {1, 2} /\ memory'[s] = file[s] /\ \A t \in {1, 2} : memory'[t] \in {Nil, file[t]}
          BY <1>2, <2>1, <2>3, <2>4
    <2>8. Kept(file, known) /\ Kept(file, q.yesterday)
          BY <1>2, <2>3, <2>4, KeptFile, HasRead
    <2>9. HistoryFits(p, file, memory')
          BY <2>5, <2>6, <2>7, <2>8 DEF HistoryFits
    <2> QED BY <2>1, <2>2, <2>7, <2>9, KeptStill
  <1>5. CASE T!RefreshWeather(r)
    <2>1. q.pc = "weather" /\ UNCHANGED <<file, memory, shown, lastToday, lastForecast>> /\ \E issued : T!ForecastIn(r, issued)
          BY <1>5 DEF T!RefreshWeather, T!Pc
    <2>2. PICK issued : T!ForecastIn(r, issued)
          BY <2>1
    <2> DEFINE predicted == T!Predicted(q.day, q.history, issued)
               pc == IF q.kind = "calendar" THEN "begin" ELSE "answer"
               kind == IF q.kind = "calendar" THEN "calendar2" ELSE q.kind
               p == [q EXCEPT !.predicted = predicted, !.pc = pc, !.kind = kind]
    <2>3. req' = [req EXCEPT ![r] = p]
          BY <1>1, <2>2 DEF T!ForecastIn
    <2>4. pc \notin {"write", "sources", "pastSources"}
          OBVIOUS
    <2> HIDE DEF predicted, pc, kind
    <2>5. p.pc = pc /\ p.history = q.history /\ p.yesterday = q.yesterday
          BY <1>1, RequestFields
    <2> HIDE DEF p
    <2>6. HistoryFits(p, file, memory)
          BY <2>1, <2>4, <2>5, HasRead DEF HistoryFits
    <2> QED BY <1>2, <2>1, <2>3, <2>6, KeptStill
  <1> QED BY <1>3, <1>4, <1>5

\* A season is asked for, and written.
LEMMA SeasonKept ==
  ASSUME KeptInv, RequestsInv, NEW r \in Requests, T!SeasonAnswer(r) \/ T!SeasonWritten(r), ~excused'
  PROVE  KeptInv'
  <1> DEFINE q == req[r]
             s == q.season
  <1>1. RequestFits(q, today) /\ (q.pc \in Holding => lock = r) /\ DOMAIN req = Requests /\ DOMAIN q = DOMAIN T!Idle /\ s \in {1, 2}
        BY DEF RequestsInv, RequestFits
  <1>2. DOMAIN memory = {1, 2} /\ DOMAIN file = {1, 2} /\ FilesFit(file) /\ file[s] \subseteq T!Season(s)
        BY <1>1 DEF KeptInv, FilesFit
  <1>3. HistoryFits(q, file, memory)
        BY DEF KeptInv
  <1>4. q.pc \in {"sources", "write"} => lock = r /\ q.kind \in Kinds
        BY <1>1 DEF RequestFits, Holding
  <1>5. \A on : q.pc \in {"sources", "write"} => T!AfterSeason(q.kind, on) \in {"answer", "past", "weather"}
        BY <1>1, <1>4, GoesOn
  <1>6. CASE T!SeasonAnswer(r)
    <2>1. q.pc = "sources" /\ UNCHANGED <<file, shown, lastToday, lastForecast>>
          BY <1>6 DEF T!SeasonAnswer, T!Pc
    <2>2. memory[s] = file[s] /\ lock = r /\ (\A t \in {1, 2} : memory[t] \in {Nil, file[t]})
          BY <1>3, <1>4, <2>1, MemoryIsFile DEF HistoryFits
    <2>3. Kept(file, q.history) /\ Kept(file, q.yesterday)
          BY <2>1, HasRead
    <2>4. ASSUME NEW pc \in {"failed", T!AfterSeason(q.kind, q.day)}, T!To(r, pc), memory' = memory PROVE KeptInv'
      <3>1. HistoryFits([q EXCEPT !.pc = pc], file, memory')
            BY <1>1, <1>5, <2>1, <2>3, ReadsOn
      <3>2. req' = [req EXCEPT ![r] = [q EXCEPT !.pc = pc]]
            BY <2>4 DEF T!To
      <3> HIDE DEF q
      <3>3. q.pc # "write"
            BY <2>1
      <3> QED BY <1>2, <2>1, <2>4, <3>1, <3>2, <3>3, KeptStill DEF q
    <2>5. ASSUME NEW fetched \in T!Fetches(s), fetched # Nil, memory' = [memory EXCEPT ![s] = @ \cup fetched],
                 req' = [req EXCEPT ![r].pc = "write", ![r].history = memory[s] \cup fetched]
          PROVE  KeptInv'
      <3> DEFINE history == memory[s] \cup fetched
                 p == [q EXCEPT !.pc = "write", !.history = history]
      <3>1. req' = [req EXCEPT ![r] = p]
            BY <1>1, <2>5
      <3>2. fetched \subseteq T!Season(s)
            BY <2>5, FetchedFits
      <3>3. file[s] \subseteq history /\ history \subseteq T!Season(s)
            BY <1>2, <2>2, <3>2
      <3>4. DOMAIN memory' = {1, 2} /\ memory'[s] = history /\ \A t \in {1, 2} : t # s => memory'[t] = memory[t]
            BY <1>1, <1>2, <2>5
      <3> HIDE DEF history
      <3>5. p.pc = "write" /\ p.season = s /\ p.history = history /\ p.yesterday = q.yesterday
            BY <1>1, RequestFields
      <3> HIDE DEF p, q, s
      <3>6. HistoryFits(p, file, memory')
            BY <2>3, <3>3, <3>4, <3>5 DEF HistoryFits
      <3>7. \A t \in {1, 2} : memory'[t] \in {Nil, file[t]} \/ (p.pc = "write" /\ p.season = t)
            BY <2>2, <3>4, <3>5
      <3> QED BY <2>1, <2>2, <3>1, <3>4, <3>6, <3>7, KeptStill
    <2> QED BY <1>6, <2>4, <2>5 DEF T!SeasonAnswer
  <1>7. CASE T!SeasonWritten(r)
    <2> DEFINE pc == T!AfterSeason(q.kind, q.day)
               p == [q EXCEPT !.pc = pc]
    <2>1. /\ q.pc = "write" /\ UNCHANGED <<memory, shown, lastToday, lastForecast>>
          /\ file' = [file EXCEPT ![s] = q.history] /\ req' = [req EXCEPT ![r] = p]
          BY <1>7 DEF T!SeasonWritten, T!Pc, T!To, T!Written
    <2>2. lock = r /\ memory[s] = q.history /\ file[s] \subseteq q.history /\ q.history \subseteq T!Season(s)
          BY <1>3, <1>4, <2>1 DEF HistoryFits
    <2>3. DOMAIN file' = {1, 2} /\ file'[s] = q.history /\ \A t \in {1, 2} : t # s => file'[t] = file[t]
          BY <1>1, <1>2, <2>1
    <2>4. FilesFit(file') /\ \A t \in {1, 2} : file[t] \subseteq file'[t]
          BY <1>2, <2>2, <2>3 DEF FilesFit
    <2>5. \A t \in {1, 2} : memory[t] \in {Nil, file'[t]}
      <3>1. \A t \in {1, 2} : t # s => memory[t] \in {Nil, file[t]}
            BY <2>1, <2>2 DEF KeptInv, RequestsInv, Holding
      <3> QED BY <2>2, <2>3, <3>1
    <2>6. Kept(file', q.history) /\ Kept(file', q.yesterday)
      <3>1. Kept(file', q.history)
            BY <1>1, <2>3, <2>4, KeptFile
      <3>2. Kept(file, q.yesterday)
            BY HasRead
      <3> QED BY <2>4, <3>1, <3>2, KeptGrows
    <2>7. Kept(file', shown') /\ LastsFit(file', lastToday') /\ LastsFit(file', lastForecast')
      <3>1. Kept(file, shown) /\ LastsFit(file, lastToday) /\ LastsFit(file, lastForecast)
            BY DEF KeptInv
      <3> QED BY <2>1, <2>4, <3>1, KeptGrows DEF LastsFit
    <2>8. pc \notin {"write", "sources", "pastSources"}
          BY <1>5, <2>1
    <2> HIDE DEF pc, q
    <2>9. HistoryFits(p, file', memory')
          BY <1>1, <2>6, <2>8, ReadsOn
    <2> HIDE DEF p
    <2>10. DOMAIN memory' = {1, 2} /\ \A t \in {1, 2} : memory'[t] \in {Nil, file'[t]}
          BY <1>2, <2>1, <2>5
    <2> QED BY <2>1, <2>2, <2>4, <2>7, <2>9, <2>10, KeptChange
  <1> QED BY <1>6, <1>7

\* The past season, from memory, its file or the sources.
LEMMA PastKept ==
  ASSUME KeptInv, RequestsInv, NEW r \in Requests, T!PastSeason(r) \/ T!PastAnswer(r)
  PROVE  KeptInv'
  <1> DEFINE q == req[r]
             s == T!PastOf(q)
  <1>1. RequestFits(q, today) /\ (q.pc \in Holding => lock = r) /\ DOMAIN req = Requests /\ DOMAIN q = DOMAIN T!Idle /\ s \in {1, 2}
        BY TwoSeasons DEF RequestsInv, RequestFits, T!PastOf
  <1>2. DOMAIN memory = {1, 2} /\ DOMAIN file = {1, 2} /\ FilesFit(file) /\ file[s] \subseteq T!Season(s)
        BY <1>1 DEF KeptInv, FilesFit
  <1>3. HistoryFits(q, file, memory)
        BY DEF KeptInv
  <1>4. q.pc \in {"past", "pastSources"}
        BY DEF T!PastSeason, T!PastAnswer, T!Pc
  <1>5. lock = r /\ (\A t \in {1, 2} : memory[t] \in {Nil, file[t]}) /\ Kept(file, q.history) /\ Kept(file, q.yesterday)
        BY <1>1, <1>4, MemoryIsFile, HasRead DEF Holding
  <1>6. Kept(file, file[s]) /\ Kept(file, {})
        BY <1>1, <1>2, KeptFile DEF Kept
  <1>7. ASSUME NEW X \in {{}, file[s]}, req' = [req EXCEPT ![r] = T!AfterPast(q, X)],
               DOMAIN memory' = {1, 2}, \A t \in {1, 2} : memory'[t] \in {Nil, file[t]},
               UNCHANGED <<file, shown, lastToday, lastForecast>>
        PROVE  KeptInv'
    <2>1. HistoryFits(T!AfterPast(q, X), file, memory')
          BY <1>1, <1>5, <1>6, PastFits
    <2> HIDE DEF q, s
    <2> QED BY <1>5, <1>7, <2>1, KeptStill
  <1>8. CASE T!PastSeason(r)
    <2>1. UNCHANGED <<file, shown, lastToday, lastForecast>> /\ q.pc = "past"
          BY <1>8 DEF T!PastSeason, T!Pc
    <2>2. CASE memory[s] # Nil
      <3>1. req' = [req EXCEPT ![r] = T!AfterPast(q, memory[s])] /\ memory' = memory
            BY <1>8, <2>2 DEF T!PastSeason
      <3>2. memory[s] = file[s]
            BY <1>1, <1>5, <2>2
      <3> HIDE DEF q, s
      <3> QED BY <1>2, <1>5, <1>7, <2>1, <3>1, <3>2
    <2>3. CASE memory[s] = Nil /\ LastDay \in file[s]
      <3>1. req' = [req EXCEPT ![r] = T!AfterPast(q, file[s])] /\ memory' = [memory EXCEPT ![s] = file[s]]
            BY <1>8, <2>3 DEF T!PastSeason
      <3> HIDE DEF q, s
      <3>2. DOMAIN memory' = {1, 2} /\ \A t \in {1, 2} : memory'[t] \in {Nil, file[t]}
            BY <1>1, <1>2, <1>5, <3>1
      <3> QED BY <1>7, <2>1, <3>1, <3>2
    <2>4. CASE memory[s] = Nil /\ LastDay \notin file[s]
      <3> DEFINE p == [q EXCEPT !.pc = "pastSources"]
      <3>1. req' = [req EXCEPT ![r] = p] /\ memory' = memory
            BY <1>8, <2>4 DEF T!PastSeason
      <3>2. /\ p.pc = "pastSources" /\ p.history = q.history /\ p.yesterday = q.yesterday
            /\ p.kind = q.kind /\ p.season = q.season /\ p.day = q.day
            BY <1>1, RequestFields
      <3> HIDE DEF p
      <3>3. T!PastOf(p) = s
            BY <3>2 DEF T!PastOf
      <3> HIDE DEF q, s
      <3>4. HistoryFits(p, file, memory')
            BY <1>5, <2>4, <3>1, <3>2, <3>3 DEF HistoryFits
      <3> QED BY <1>2, <1>5, <2>1, <3>1, <3>4, KeptStill
    <2> QED BY <2>2, <2>3, <2>4
  <1>9. CASE T!PastAnswer(r)
    <2>1. UNCHANGED <<shown, lastToday, lastForecast>> /\ q.pc = "pastSources"
          BY <1>9 DEF T!PastAnswer, T!Pc
    <2>2. ASSUME req' = [req EXCEPT ![r] = [q EXCEPT !.pc = "failed"]], UNCHANGED <<memory, file>> PROVE KeptInv'
      <3>1. HistoryFits([q EXCEPT !.pc = "failed"], file, memory')
            BY <1>1, <1>5, ReadsOn
      <3> HIDE DEF q
      <3> QED BY <1>2, <1>5, <2>1, <2>2, <3>1, KeptStill
    <2>3. ASSUME NEW fetched \in T!Fetches(s), fetched # Nil,
                 file' = [file EXCEPT ![s] = file[s] \cup fetched], memory' = [memory EXCEPT ![s] = file[s] \cup fetched],
                 req' = [req EXCEPT ![r] = T!AfterPast(q, file[s] \cup fetched)]
          PROVE  KeptInv'
      <3>1. fetched \subseteq T!Season(s)
            BY <2>3, FetchedFits
      <3> HIDE DEF s
      <3> DEFINE history == file[s] \cup fetched
      <3>2. DOMAIN file' = {1, 2} /\ file'[s] = history /\ \A t \in {1, 2} : t # s => file'[t] = file[t]
            BY <1>1, <1>2, <2>3
      <3>3. DOMAIN memory' = {1, 2} /\ memory'[s] = history /\ \A t \in {1, 2} : t # s => memory'[t] = memory[t]
            BY <1>1, <1>2, <2>3
      <3>4. history \subseteq T!Season(s) /\ file[s] \subseteq history
            BY <1>2, <3>1
      <3>5. req' = [req EXCEPT ![r] = T!AfterPast(q, history)]
            BY <2>3
      <3> HIDE DEF history
      <3>6. FilesFit(file') /\ \A t \in {1, 2} : file[t] \subseteq file'[t]
            BY <1>2, <3>2, <3>4 DEF FilesFit
      <3>7. \A t \in {1, 2} : memory'[t] \in {Nil, file'[t]}
            BY <1>5, <3>2, <3>3
      <3>8. Kept(file', history) /\ Kept(file', q.history)
            BY <1>1, <1>5, <3>2, <3>6, KeptFile, KeptGrows
      <3>9. HistoryFits(T!AfterPast(q, history), file', memory')
            BY <1>1, <3>8, PastFits
      <3>10. Kept(file', shown') /\ LastsFit(file', lastToday') /\ LastsFit(file', lastForecast')
        <4>1. Kept(file, shown) /\ LastsFit(file, lastToday) /\ LastsFit(file, lastForecast)
              BY DEF KeptInv
        <4> QED BY <2>1, <3>6, <4>1, KeptGrows DEF LastsFit
      <3> HIDE DEF q
      <3> QED BY <1>5, <3>3, <3>5, <3>6, <3>7, <3>9, <3>10, KeptChange
    <2>4. \/ \E X \in {{}, file[s]} : req' = [req EXCEPT ![r] = T!AfterPast(q, X)] /\ UNCHANGED <<memory, file>>
          \/ req' = [req EXCEPT ![r] = [q EXCEPT !.pc = "failed"]] /\ UNCHANGED <<memory, file>>
          \/ \E fetched \in T!Fetches(s) :
               /\ fetched # Nil /\ file' = [file EXCEPT ![s] = file[s] \cup fetched]
               /\ memory' = [memory EXCEPT ![s] = file[s] \cup fetched]
               /\ req' = [req EXCEPT ![r] = T!AfterPast(q, file[s] \cup fetched)]
          BY <1>9 DEF T!PastAnswer, T!Written
    <2> HIDE DEF q, s
    <2> QED BY <1>2, <1>5, <1>7, <2>1, <2>2, <2>3, <2>4
  <1> QED BY <1>8, <1>9

\* The answer is made of what is kept, and so is what is remembered of it.
LEMMA AnswerKept ==
  ASSUME KeptInv, RequestsInv, NEW r \in Requests, T!Answer(r)
  PROVE  KeptInv'
  <1> DEFINE q == req[r]
             kept == [day |-> q.day, history |-> q.history \cup q.yesterday, predicted |-> q.predicted]
             p == IF q.pc = "answer" THEN T!Told(q.since, q.day) ELSE T!Idle
  <1>1. q.pc \in {"answer", "failed"} /\ lock = r /\ UNCHANGED <<memory, file>> /\ req' = [req EXCEPT ![r] = p]
        BY DEF T!Answer, T!Pc
  <1>2. FilesFit(file) /\ DOMAIN memory = {1, 2} /\ Kept(file, shown) /\ LastsFit(file, lastToday) /\ LastsFit(file, lastForecast)
        BY DEF KeptInv
  <1>3. Kept(file, kept.history)
    <2>1. Kept(file, q.history) /\ Kept(file, q.yesterday)
          BY <1>1, HasRead
    <2> QED BY <2>1 DEF Kept
  <1>4. lastToday' \in {kept, lastToday} /\ lastForecast' \in {kept, lastForecast} /\ shown' \in {shown, shown \cup kept.history}
        BY DEF T!Answer
  <1> HIDE DEF kept
  <1>5. Kept(file, shown') /\ LastsFit(file, lastToday') /\ LastsFit(file, lastForecast')
        BY <1>2, <1>3, <1>4 DEF Kept, LastsFit
  <1>6. p.history = {} /\ p.yesterday = {} /\ p.pc \in {"idle", "answered"}
        BY DEF T!Told, T!Idle
  <1> HIDE DEF p
  <1>7. HistoryFits(p, file, memory)
        BY <1>6 DEF HistoryFits, Kept
  <1> QED BY <1>1, <1>2, <1>5, <1>7, KeptChange

\* A request that is dropped leaves at most the past season's save, which memory does not hold.
LEMMA LeaveKept ==
  ASSUME KeptInv, RequestsInv, NEW r \in Requests, T!Leave(r), ~excused'
  PROVE  KeptInv'
  <1> DEFINE q == req[r]
             s == T!PastOf(q)
  <1>1. /\ q.pc # "write" /\ req' = [req EXCEPT ![r] = T!Idle]
        /\ UNCHANGED <<memory, shown, lastToday, lastForecast>>
        /\ file' = file \/ (q.pc = "pastSources"
             /\ \E fetched \in T!Fetches(s) : fetched # Nil /\ file' = [file EXCEPT ![s] = file[s] \cup fetched])
        BY DEF T!Leave, T!Pc, T!Written
  <1>2. DOMAIN memory = {1, 2} /\ DOMAIN file = {1, 2} /\ FilesFit(file)
        BY DEF KeptInv, FilesFit
  <1>3. T!Idle.pc = "idle" /\ T!Idle.history = {} /\ T!Idle.yesterday = {}
        BY DEF T!Idle
  <1>4. \A f, m : HistoryFits(T!Idle, f, m)
        BY <1>3 DEF HistoryFits, Kept
  <1>5. CASE file' = file
    <2> HIDE DEF q, T!Idle
    <2> QED BY <1>1, <1>2, <1>4, <1>5, KeptStill DEF q
  <1>6. CASE file' # file
    <2>1. PICK fetched \in T!Fetches(s) : fetched # Nil /\ file' = [file EXCEPT ![s] = file[s] \cup fetched]
          BY <1>1, <1>6
    <2>2. q.pc = "pastSources" /\ s \in {1, 2} /\ lock = r
          BY <1>1, <1>6, TwoSeasons DEF RequestsInv, RequestFits, T!PastOf, Holding
    <2>3. memory[s] = Nil /\ (\A t \in {1, 2} : memory[t] \in {Nil, file[t]})
          BY <2>2, MemoryIsFile DEF KeptInv, HistoryFits
    <2>4. fetched \subseteq T!Season(s)
          BY <2>1, FetchedFits
    <2> HIDE DEF q, s, T!Idle
    <2>5. DOMAIN file' = {1, 2} /\ file'[s] = file[s] \cup fetched /\ \A t \in {1, 2} : t # s => file'[t] = file[t]
          BY <1>2, <2>1, <2>2
    <2>6. FilesFit(file') /\ \A t \in {1, 2} : file[t] \subseteq file'[t]
          BY <1>2, <2>4, <2>5 DEF FilesFit
    <2>7. \A t \in {1, 2} : memory'[t] \in {Nil, file'[t]}
          BY <1>1, <2>3, <2>5
    <2>8. Kept(file', shown') /\ LastsFit(file', lastToday') /\ LastsFit(file', lastForecast')
      <3>1. Kept(file, shown) /\ LastsFit(file, lastToday) /\ LastsFit(file, lastForecast)
            BY DEF KeptInv
      <3> QED BY <1>1, <2>6, <3>1, KeptGrows DEF LastsFit
    <2> QED BY <1>1, <1>2, <1>4, <2>2, <2>6, <2>7, <2>8, KeptChange
  <1> QED BY <1>5, <1>6

\* What happens around the requests touches no file; a restart reads them again.
LEMMA AroundKept ==
  ASSUME KeptInv, RequestsInv, T!Midnight \/ T!Publish \/ T!Quarter \/ T!Restart
  PROVE  KeptInv'
  <1>1. CASE T!Midnight \/ T!Publish
    <2>1. UNCHANGED <<file, memory, shown, lastToday, lastForecast, req>>
          BY <1>1 DEF T!Midnight, T!Publish
    <2> QED BY <2>1 DEF KeptInv
  <1>2. CASE T!Quarter
    <2>1. /\ UNCHANGED <<file, memory, shown, lastToday, lastForecast>>
          /\ req' = [r \in Requests |-> IF req[r].pc \in {"sources", "write"} THEN [req[r] EXCEPT !.late = TRUE] ELSE req[r]]
          BY <1>2 DEF T!Quarter, T!Pc
    <2>2. ASSUME NEW r \in Requests
          PROVE  /\ req'[r].pc = req[r].pc /\ req'[r].season = req[r].season /\ req'[r].history = req[r].history
                 /\ req'[r].yesterday = req[r].yesterday /\ req'[r].kind = req[r].kind /\ req'[r].day = req[r].day
      <3> DEFINE q == req[r]
                 p == [q EXCEPT !.late = TRUE]
      <3>1. DOMAIN q = DOMAIN T!Idle
            BY DEF RequestsInv, RequestFits
      <3>2. /\ p.pc = q.pc /\ p.season = q.season /\ p.history = q.history /\ p.yesterday = q.yesterday
            /\ p.kind = q.kind /\ p.day = q.day
            BY <3>1, RequestFields
      <3>3. req'[r] \in {p, q}
            BY <2>1
      <3> HIDE DEF p, q
      <3> QED BY <3>2, <3>3 DEF q
    <2>3. \A r \in Requests : HistoryFits(req'[r], file, memory)
      <3>1. \A r \in Requests : HistoryFits(req[r], file, memory)
            BY DEF KeptInv
      <3> QED BY <2>2, <3>1 DEF HistoryFits, T!PastOf
    <2> QED BY <2>1, <2>2, <2>3 DEF KeptInv
  <1>3. CASE T!Restart
    <2>1. /\ UNCHANGED <<file, shown>> /\ lastToday' = Nil /\ lastForecast' = Nil
          /\ memory' = [s \in {1, 2} |-> Nil] /\ req' = [r \in Requests |-> T!Idle]
          BY <1>3 DEF T!Restart
    <2>2. T!Idle.pc = "idle" /\ T!Idle.history = {} /\ T!Idle.yesterday = {}
          BY DEF T!Idle
    <2>3. HistoryFits(T!Idle, file', memory')
          BY <2>2 DEF HistoryFits, Kept
    <2> HIDE DEF T!Idle
    <2> QED BY <2>1, <2>3 DEF KeptInv, LastsFit
  <1> QED BY <1>1, <1>2, <1>3

\* A program that starts has shown nothing, and read nothing.
LEMMA KeptStart ==
  ASSUME T!TempoInit
  PROVE  KeptInv
  <1>1. /\ memory = [s \in {1, 2} |-> Nil] /\ lastToday = Nil /\ lastForecast = Nil /\ shown = {}
        /\ req = [r \in Requests |-> T!Idle]
        BY DEF T!TempoInit
  <1>2. PICK saved : file = [s \in {1, 2} |-> IF s = 1 THEN {d \in T!Season(1) : d <= saved} ELSE {}]
        BY DEF T!TempoInit
  <1>3. FilesFit(file)
        BY <1>2 DEF FilesFit
  <1>4. T!Idle.pc = "idle" /\ T!Idle.history = {} /\ T!Idle.yesterday = {}
        BY DEF T!Idle
  <1>5. HistoryFits(T!Idle, file, memory)
        BY <1>4 DEF HistoryFits, Kept
  <1>6. Kept(file, shown)
        BY <1>1 DEF Kept
  <1> HIDE DEF T!Idle
  <1> QED BY <1>1, <1>3, <1>5, <1>6 DEF KeptInv, LastsFit

\* Every step of the service; one that excuses itself never takes it back.
LEMMA KeptStep ==
  ASSUME ~excused => KeptInv, RequestsInv, [T!TempoNext]_serviceVars
  PROVE  ~excused' => KeptInv'
  <1>1. excused => excused'
        BY DEF T!TempoNext, T!Step, T!Locked, T!BeginSeason, T!SeasonAnswer, T!SeasonWritten, T!PastSeason, T!PastAnswer,
               T!RefreshWeather, T!Answer, T!Leave, T!Ask, T!AskCalendar, T!Midnight, T!Publish, T!Quarter, T!Restart, serviceVars
  <1> SUFFICES ASSUME ~excused' PROVE KeptInv'
        OBVIOUS
  <1>2. KeptInv
        BY <1>1
  <1>3. CASE UNCHANGED serviceVars
        BY <1>2, <1>3 DEF serviceVars, KeptInv
  <1>4. ASSUME NEW r \in Requests, T!Step(r) PROVE KeptInv'
        BY <1>2, <1>4, BeginKept, SeasonKept, PastKept, AnswerKept DEF T!Step
  <1> QED BY <1>2, <1>3, <1>4, AskKept, LeaveKept, AroundKept DEF T!TempoNext

\* A colour that was shown is in its season's file, unless its save failed or was left
\* (tempo/mod.rs: current_season, write_season, past_season).
THEOREM ThShownIsKept == Spec => []ShownIsKept
  <1> DEFINE Inv == RequestsInv /\ (~excused => KeptInv)
  <1>1. Init => Inv
        BY ServiceStart, RequestsStart, KeptStart
  <1>2. Inv /\ [Next]_vars => Inv'
        BY ServiceMoves, RequestsStep, KeptStep
  <1>3. Inv => ShownIsKept
        BY DEF KeptInv, Kept, ShownIsKept, T!ShownIsKept
  <1> QED BY <1>1, <1>2, <1>3, PTL DEF Spec

-----------------------------------------------------------------------------
(* The calendar.                                                           *)

\* The days before a year's end are a number.
LEMMA YearsNat == \A y \in Nat : Rules!YearEnds(y) \in Nat
  BY SMT DEF Rules!YearEnds

\* A year has 365 days or 366, and ends no later than any after it.
LEMMA YearsEnd ==
  ASSUME NEW y \in Nat
  PROVE  /\ Rules!YearEnds(y) \in Nat /\ Rules!YearEnds(y + 1) \in Nat
         /\ Rules!YearEnds(y + 1) >= Rules!YearEnds(y) + 365
         /\ Rules!YearEnds(y + 1) <= Rules!YearEnds(y) + 366
         /\ \A z \in Nat : y < z => Rules!YearEnds(y) <= Rules!YearEnds(z - 1)
  BY SMT DEF Rules!YearEnds

\* A day is in a year.
InYear(n, y) == n \in Nat /\ y \in Nat /\ y > 0 /\ y <= 3001 /\ Rules!YearEnds(y - 1) < n /\ n <= Rules!YearEnds(y)

\* A day is in the year it comes before the end of.
LEMMA YearIs ==
  ASSUME NEW y, NEW n, InYear(n, y)
  PROVE  Rules!Year(n) = y
  <1> DEFINE guess == n \div 366
             Is(z) == Rules!YearEnds(z - 1) < n /\ n <= Rules!YearEnds(z)
  <1> USE DEF InYear
  <1>1. guess \in Nat /\ guess <= y
        BY SMT DEF Rules!YearEnds
  <1>2. y <= guess + 10
        BY SMT DEF Rules!YearEnds
  <1>3. y \in guess .. guess + 10 /\ Is(y)
        BY <1>1, <1>2
  <1>4. ASSUME NEW z \in guess .. guess + 10, Is(z) PROVE z = y
    <2>1. z \in Nat
          BY <1>1
    <2>2. CASE z < y
      <3>1. Rules!YearEnds(z) <= Rules!YearEnds(y - 1)
            BY <2>1, <2>2, YearsEnd
      <3>2. Rules!YearEnds(z) \in Nat /\ Rules!YearEnds(y - 1) \in Nat
            BY <2>1, YearsEnd
      <3> QED BY <1>4, <3>1, <3>2
    <2>3. CASE y < z
      <3>1. Rules!YearEnds(y) <= Rules!YearEnds(z - 1)
            BY <2>1, <2>3, YearsEnd
      <3>2. z - 1 \in Nat
            BY <2>1, <2>3
      <3>3. Rules!YearEnds(y) \in Nat /\ Rules!YearEnds(z - 1) \in Nat
            BY <3>2, YearsNat
      <3> QED BY <1>4, <3>1, <3>3
    <2> QED BY <2>1, <2>2, <2>3
  <1>5. Rules!Year(n) = CHOOSE z \in guess .. guess + 10 : Is(z)
        BY DEF Rules!Year
  <1> HIDE DEF guess, Is
  <1> QED BY <1>3, <1>4, <1>5

\* The first day of a month.
FirstOf(y, m) == Rules!Ymd(y, m, 1)

\* The first days of a year's months.
LEMMA MonthsStart ==
  ASSUME NEW y \in Nat, y > 0
  PROVE  /\ \A a \in 1 .. 12 : FirstOf(y, a) \in Nat
         /\ \A a, b \in 1 .. 12 : a < b => FirstOf(y, a) < FirstOf(y, b)
         /\ FirstOf(y, 1) = Rules!YearEnds(y - 1) + 1
         /\ FirstOf(y, 9) <= Rules!YearEnds(y - 1) + 245 /\ FirstOf(y, 9) <= Rules!YearEnds(y)
         /\ Rules!Ymd(y, 8, 31) = FirstOf(y, 9) - 1 /\ Rules!Ymd(y, 3, 31) = FirstOf(y, 4) - 1
  <1> DEFINE x == IF Rules!Leap(y) THEN 1 ELSE 0
             b == Rules!YearEnds(y - 1)
             Start(m) == CASE m = 1 -> 0 [] m = 2 -> 31 [] m = 3 -> 59 [] m = 4 -> 90 [] m = 5 -> 120 [] m = 6 -> 151
                           [] m = 7 -> 181 [] m = 8 -> 212 [] m = 9 -> 243 [] m = 10 -> 273 [] m = 11 -> 304 [] m = 12 -> 334
  <1>1. \A m \in 1 .. 12 : Rules!MonthStarts[m] = Start(m)
        BY SMT DEF Rules!MonthStarts
  <1>2. b \in Nat /\ Rules!YearEnds(y) >= b + 365 /\ Rules!YearEnds(y) \in Nat
    <2>1. y - 1 \in Nat /\ (y - 1) + 1 = y
          OBVIOUS
    <2> QED BY <2>1, YearsEnd
  <1>3. x \in {0, 1}
        OBVIOUS
  <1>4. \A m \in 1 .. 12, d \in 1 .. 31 : Rules!Ymd(y, m, d) = b + Start(m) + (IF m > 2 THEN x ELSE 0) + d
        BY <1>1, SMT DEF Rules!Ymd
  <1>5. \A m \in 1 .. 12 : FirstOf(y, m) = b + Start(m) + (IF m > 2 THEN x ELSE 0) + 1
        BY <1>4, SMT DEF FirstOf
  <1>6. Rules!Ymd(y, 8, 31) = b + 212 + x + 31 /\ Rules!Ymd(y, 3, 31) = b + 59 + x + 31
        BY <1>4, SMT
  <1> HIDE DEF x, b
  <1> QED BY <1>2, <1>3, <1>5, <1>6, SMT DEF b

\* A day is in the month it comes before the end of.
LEMMA MonthIs ==
  ASSUME NEW y, NEW n, InYear(n, y)
  PROVE  /\ Rules!Month(n) \in 1 .. 12
         /\ \A m \in 1 .. 12 : Rules!Month(n) >= m <=> n >= FirstOf(y, m)
  <1> DEFINE Is(m) == FirstOf(y, m) <= n /\ (m = 12 \/ n < FirstOf(y, m + 1))
  <1>1. Rules!Month(n) = CHOOSE m \in 1 .. 12 : Is(m)
    <2>1. Rules!Year(n) = y
          BY YearIs
    <2> QED BY <2>1 DEF Rules!Month, FirstOf
  <1>2. /\ \A a \in 1 .. 12 : FirstOf(y, a) \in Nat
        /\ \A a, b \in 1 .. 12 : a < b => FirstOf(y, a) < FirstOf(y, b)
        /\ FirstOf(y, 1) <= n
    <2>1. y - 1 \in Nat /\ y \in Nat /\ y > 0
          BY DEF InYear
    <2>2. Rules!YearEnds(y - 1) \in Nat
          BY <2>1, YearsNat
    <2>3. FirstOf(y, 1) = Rules!YearEnds(y - 1) + 1
          BY <2>1, MonthsStart
    <2>4. /\ \A a \in 1 .. 12 : FirstOf(y, a) \in Nat
          /\ \A a, b \in 1 .. 12 : a < b => FirstOf(y, a) < FirstOf(y, b)
          BY <2>1, MonthsStart
    <2> QED BY <2>2, <2>3, <2>4 DEF InYear
  <1>3. \E m \in 1 .. 12 : Is(m)
    <2> SUFFICES ASSUME \A m \in 1 .. 12 : ~Is(m) PROVE FALSE
        OBVIOUS
    <2>1. ~Is(1) /\ ~Is(2) /\ ~Is(3) /\ ~Is(4) /\ ~Is(5) /\ ~Is(6) /\ ~Is(7) /\ ~Is(8) /\ ~Is(9) /\ ~Is(10) /\ ~Is(11) /\ ~Is(12)
          OBVIOUS
    <2> QED BY <1>2, <2>1, SMT DEF InYear
  <1> DEFINE month == CHOOSE m \in 1 .. 12 : Is(m)
  <1>4. month \in 1 .. 12 /\ Is(month)
        BY <1>3
  <1> HIDE DEF month
  <1>5. ASSUME NEW m \in 1 .. 12 PROVE month >= m <=> n >= FirstOf(y, m)
    <2>1. CASE month >= m
          BY <1>2, <1>4, <2>1 DEF InYear
    <2>2. CASE month < m
      <3>1. month + 1 \in 1 .. 12 /\ month + 1 <= m /\ n < FirstOf(y, month + 1)
            BY <1>4, <2>2
      <3> QED BY <1>2, <1>4, <2>2, <3>1 DEF InYear
    <2> QED BY <1>4, <2>1, <2>2
  <1> QED BY <1>1, <1>4, <1>5 DEF month

\* A day is in a season.
InSeason(n, y) == y \in SeasonYears /\ n \in Rules!SeasonBounds(y).first .. Rules!SeasonBounds(y).last

\* The bounds of a season: from 1 September to 31 August, with the end of March between them.
LEMMA Bounds ==
  ASSUME NEW y \in SeasonYears
  PROVE  /\ y \in Nat /\ y > 0 /\ y + 1 \in Nat /\ y + 1 <= 3001
         /\ Rules!SeasonBounds(y).first = FirstOf(y, 9) /\ Rules!SeasonBounds(y).last = FirstOf(y + 1, 9) - 1
         /\ FirstOf(y, 9) \in Nat /\ FirstOf(y + 1, 9) \in Nat /\ FirstOf(y + 1, 4) \in Nat
         /\ Rules!Ymd(y + 1, 3, 31) = FirstOf(y + 1, 4) - 1 /\ Rules!Ymd(y + 1, 4, 1) = FirstOf(y + 1, 4)
         /\ FirstOf(y, 9) <= Rules!YearEnds(y) /\ Rules!YearEnds(y - 1) < FirstOf(y, 9)
         /\ Rules!YearEnds(y) < FirstOf(y + 1, 4) /\ FirstOf(y + 1, 4) < FirstOf(y + 1, 9)
         /\ FirstOf(y + 1, 9) <= Rules!YearEnds(y + 1)
         /\ Rules!YearEnds(y) \in Nat
  <1>1. y \in Nat /\ y > 0 /\ y + 1 \in Nat /\ y + 1 > 0 /\ y + 1 <= 3001 /\ y - 1 \in Nat /\ (y + 1) - 1 = y
        BY SeasonAssumption, SMT
  <1>2. Rules!SeasonBounds(y).first = FirstOf(y, 9) /\ Rules!SeasonBounds(y).last = Rules!Ymd(y + 1, 8, 31)
        BY DEF Rules!SeasonBounds, FirstOf
  <1>3. Rules!Ymd(y + 1, 4, 1) = FirstOf(y + 1, 4)
        BY DEF FirstOf
  <1>4. /\ \A a \in 1 .. 12 : FirstOf(y, a) \in Nat
        /\ \A a, b \in 1 .. 12 : a < b => FirstOf(y, a) < FirstOf(y, b)
        /\ FirstOf(y, 1) = Rules!YearEnds(y - 1) + 1 /\ FirstOf(y, 9) <= Rules!YearEnds(y)
        BY <1>1, MonthsStart
  <1>5. /\ \A a \in 1 .. 12 : FirstOf(y + 1, a) \in Nat
        /\ \A a, b \in 1 .. 12 : a < b => FirstOf(y + 1, a) < FirstOf(y + 1, b)
        /\ FirstOf(y + 1, 1) = Rules!YearEnds((y + 1) - 1) + 1 /\ FirstOf(y + 1, 9) <= Rules!YearEnds(y + 1)
        /\ Rules!Ymd(y + 1, 8, 31) = FirstOf(y + 1, 9) - 1 /\ Rules!Ymd(y + 1, 3, 31) = FirstOf(y + 1, 4) - 1
    <2> DEFINE z == y + 1
    <2>1. z \in Nat /\ z > 0
          BY <1>1
    <2> HIDE DEF z
    <2>2. /\ \A a \in 1 .. 12 : FirstOf(z, a) \in Nat
          /\ \A a, b \in 1 .. 12 : a < b => FirstOf(z, a) < FirstOf(z, b)
          /\ FirstOf(z, 1) = Rules!YearEnds(z - 1) + 1 /\ FirstOf(z, 9) <= Rules!YearEnds(z)
          /\ Rules!Ymd(z, 8, 31) = FirstOf(z, 9) - 1 /\ Rules!Ymd(z, 3, 31) = FirstOf(z, 4) - 1
          BY <2>1, MonthsStart
    <2> QED BY <2>2, Zenon DEF z
  <1>6. Rules!YearEnds(y - 1) \in Nat /\ Rules!YearEnds(y) \in Nat
        BY <1>1, YearsNat
  <1>7. /\ Rules!YearEnds(y - 1) < FirstOf(y, 9)
    <2>1. FirstOf(y, 1) < FirstOf(y, 9)
          BY <1>4
    <2> QED BY <1>4, <1>6, <2>1
  <1>8. Rules!YearEnds(y) < FirstOf(y + 1, 4) /\ FirstOf(y + 1, 4) < FirstOf(y + 1, 9)
    <2>1. FirstOf(y + 1, 1) < FirstOf(y + 1, 4) /\ FirstOf(y + 1, 4) < FirstOf(y + 1, 9) /\ FirstOf(y + 1, 1) = Rules!YearEnds(y) + 1
          BY <1>1, <1>5
    <2>2. FirstOf(y + 1, 4) \in Nat
          BY <1>5
    <2> QED BY <1>6, <2>1, <2>2
  <1>9. FirstOf(y, 9) \in Nat /\ FirstOf(y + 1, 9) \in Nat /\ FirstOf(y + 1, 4) \in Nat
        BY <1>4, <1>5
  <1> QED BY <1>1, <1>2, <1>3, <1>4, <1>5, <1>6, <1>7, <1>8, <1>9

\* A day of a season is of that season, and none is red after March, on a Saturday or on a Sunday.
LEMMA SeasonDays ==
  ASSUME NEW y, NEW n, InSeason(n, y)
  PROVE  /\ n \in Nat /\ Rules!SeasonStartYear(n) = y
         /\ Rules!RedAllowed(n) => n < FirstOf(y + 1, 4) /\ Rules!Weekday(n) \notin {5, 6}
  <1>1. y \in SeasonYears
        BY DEF InSeason
  <1>2. n \in Nat /\ FirstOf(y, 9) <= n /\ n < FirstOf(y + 1, 9)
        BY <1>1, Bounds DEF InSeason
  <1>3. CASE n <= Rules!YearEnds(y)
    <2>1. InYear(n, y)
      <3>1. y \in Nat /\ y > 0 /\ y <= 3001 /\ Rules!YearEnds(y - 1) < FirstOf(y, 9) /\ FirstOf(y, 9) \in Nat
            BY <1>1, Bounds
      <3>2. y - 1 \in Nat
            BY <3>1
      <3>3. Rules!YearEnds(y - 1) \in Nat
            BY <3>2, YearsNat
      <3>4. Rules!YearEnds(y - 1) < n
            BY <1>2, <3>1, <3>3
      <3> QED BY <1>2, <1>3, <3>1, <3>4 DEF InYear
    <2>2. Rules!Year(n) = y /\ Rules!Month(n) >= 9
          BY <1>2, <2>1, YearIs, MonthIs
    <2>3. n < FirstOf(y + 1, 4)
          BY <1>1, <1>2, <1>3, Bounds
    <2> QED BY <1>2, <2>2, <2>3 DEF Rules!SeasonStartYear, Rules!RedAllowed, Rules!Saturday, Rules!Sunday
  <1>4. CASE Rules!YearEnds(y) < n
    <2>1. InYear(n, y + 1)
      <3> DEFINE z == y + 1
      <3>1. z \in Nat /\ z > 0 /\ z <= 3001 /\ z - 1 = y
            BY <1>1, Bounds
      <3>2. FirstOf(z, 9) \in Nat /\ FirstOf(z, 9) <= Rules!YearEnds(z) /\ n < FirstOf(z, 9)
            BY <1>1, <1>2, Bounds
      <3> HIDE DEF z
      <3>3. Rules!YearEnds(z) \in Nat
            BY <3>1, YearsNat
      <3>4. n <= Rules!YearEnds(z)
            BY <1>2, <3>2, <3>3
      <3>5. Rules!YearEnds(z - 1) < n
            BY <1>4, <3>1
      <3>6. InYear(n, z)
            BY <1>2, <3>1, <3>4, <3>5 DEF InYear
      <3> QED BY <3>6 DEF z
    <2>2. Rules!Year(n) = y + 1 /\ Rules!Month(n) \in 1 .. 12 /\ ~(Rules!Month(n) >= 9)
      <3>1. Rules!Year(n) = y + 1 /\ Rules!Month(n) \in 1 .. 12
            BY <2>1, YearIs, MonthIs
      <3>2. Rules!Month(n) >= 9 <=> n >= FirstOf(y + 1, 9)
            BY <2>1, MonthIs
      <3>3. FirstOf(y + 1, 9) \in Nat
            BY <1>1, Bounds
      <3> QED BY <1>2, <3>1, <3>2, <3>3
    <2>3. n >= FirstOf(y + 1, 4) => Rules!Month(n) >= 4
          BY <2>1, MonthIs
    <2>4. Rules!SeasonStartYear(n) = y
          BY <1>1, <2>2, Bounds DEF Rules!SeasonStartYear
    <2>5. Rules!IsWinter(n) => n < FirstOf(y + 1, 4)
          BY <1>1, <1>2, <2>2, <2>3, Bounds DEF Rules!IsWinter
    <2> QED BY <1>2, <2>4, <2>5 DEF Rules!RedAllowed, Rules!Saturday, Rules!Sunday
  <1> QED BY <1>1, <1>2, <1>3, <1>4, Bounds

-----------------------------------------------------------------------------
(* A season decided day by day.                                            *)

Stock == [red : Nat, white : Nat, run : Nat]

\* What is left fits the days left, from the first day to the day after the last.
SeasonInv ==
    part = "season" =>
      /\ given \in SeasonYears /\ day \in Rules!SeasonBounds(given).first .. Rules!SeasonBounds(given).last + 1
      /\ stock \in Stock /\ HasRoom(given, day, stock)

\* A colour is placed only where it may be, and where it may be when only its days are left.
LEMMA Decides ==
  ASSUME NEW rules, NEW x, NEW s \in Stock, rules.redOk \in BOOLEAN, rules.whiteOk \in BOOLEAN
  PROVE  LET color == Rules!Decide(rules, x, s) IN
           /\ color = "red" => rules.redOk /\ s.red > 0
           /\ rules.redOk /\ s.red > 0 /\ s.run < 5 /\ s.red >= rules.redLeft => color = "red"
           /\ ~rules.redOk /\ rules.whiteOk /\ s.white > 0 /\ s.white >= rules.whiteLeft => color = "white"
  <1> DEFINE color == Rules!Decide(rules, x, s)
             CanRed == rules.redOk /\ s.red > 0 /\ s.run < 5
             CanWhite == rules.whiteOk /\ s.white > 0
             Later == IF CanRed /\ x > Rules!RedThreshold(rules, s) THEN "red"
                      ELSE IF CanWhite /\ x > Rules!WhiteThreshold(rules, s) THEN "white" ELSE "blue"
  <1>1. color = CASE CanRed /\ s.red >= rules.redLeft -> "red"
                  [] ~(CanRed /\ s.red >= rules.redLeft) /\ CanWhite /\ ~rules.redOk /\ s.white >= rules.whiteLeft -> "white"
                  [] OTHER -> Later
        BY DEF Rules!Decide, Rules!MaxRedRun
  <1>2. Later = "red" => CanRed
        OBVIOUS
  <1> HIDE DEF color, Later
  <1>3. color = "red" => CanRed
        BY <1>1, <1>2
  <1>4. CanRed /\ s.red >= rules.redLeft => color = "red"
        BY <1>1
  <1>5. ~rules.redOk /\ rules.whiteOk /\ s.white > 0 /\ s.white >= rules.whiteLeft => color = "white"
        BY <1>1
  <1> QED BY <1>3, <1>4, <1>5 DEF color

\* What a day takes from the stock.
LEMMA Takes ==
  ASSUME NEW s \in Stock, NEW color
  PROVE  LET t == Rules!Take(s, color) IN
           /\ t \in Stock /\ t.red <= s.red /\ t.white <= s.white
           /\ color = "red" => t.run = s.run + 1 /\ (s.red > 0 => t.red = s.red - 1)
           /\ color # "red" => t.run = 0 /\ t.red = s.red
           /\ color = "white" /\ s.white > 0 => t.white = s.white - 1
  <1> DEFINE less(n) == IF n = 0 THEN 0 ELSE n - 1
             t == Rules!Take(s, color)
  <1>1. s.red \in Nat /\ s.white \in Nat /\ s.run \in Nat
        BY DEF Stock
  <1>2. CASE color = "red"
    <2>1. t = [s EXCEPT !.red = less(@), !.run = @ + 1]
          BY <1>2 DEF Rules!Take
    <2>2. t = [red |-> less(s.red), white |-> s.white, run |-> s.run + 1]
          BY <2>1 DEF Stock
    <2> QED BY <1>1, <1>2, <2>2 DEF Stock
  <1>3. CASE color = "white"
    <2>1. t = [s EXCEPT !.white = less(@), !.run = 0]
          BY <1>3 DEF Rules!Take
    <2>2. t = [red |-> s.red, white |-> less(s.white), run |-> 0]
          BY <2>1 DEF Stock
    <2> QED BY <1>1, <1>3, <2>2 DEF Stock
  <1>4. CASE color \notin {"red", "white"}
    <2>1. t = [s EXCEPT !.run = 0]
          BY <1>4 DEF Rules!Take
    <2>2. t = [red |-> s.red, white |-> s.white, run |-> 0]
          BY <2>1 DEF Stock
    <2> QED BY <1>1, <1>4, <2>2 DEF Stock
  <1> QED BY <1>2, <1>3, <1>4

\* The days of a set from one on.
DaysFrom(S, d, last) == {n \in d .. last : n \in S}

\* A day takes itself from the days left, if it counts, and nothing else.
LEMMA DaysLeft ==
  ASSUME NEW d \in Nat, NEW last \in Nat, NEW S
  PROVE  /\ Cardinality(DaysFrom(S, d, last)) \in Nat /\ Cardinality(DaysFrom(S, d + 1, last)) \in Nat
         /\ d <= last /\ d \in S => Cardinality(DaysFrom(S, d, last)) = Cardinality(DaysFrom(S, d + 1, last)) + 1
         /\ ~(d <= last /\ d \in S) => DaysFrom(S, d, last) = DaysFrom(S, d + 1, last)
         /\ d > last => Cardinality(DaysFrom(S, d, last)) = 0
  <1>1. IsFiniteSet(DaysFrom(S, d + 1, last)) /\ IsFiniteSet(DaysFrom(S, d, last))
    <2>1. IsFiniteSet(d .. last) /\ IsFiniteSet(d + 1 .. last)
          BY FS_Interval
    <2>2. DaysFrom(S, d, last) \subseteq d .. last /\ DaysFrom(S, d + 1, last) \subseteq d + 1 .. last
          BY DEF DaysFrom
    <2> QED BY <2>1, <2>2, FS_Subset
  <1>2. d \notin DaysFrom(S, d + 1, last)
        BY DEF DaysFrom
  <1>3. Cardinality(DaysFrom(S, d, last)) \in Nat /\ Cardinality(DaysFrom(S, d + 1, last)) \in Nat
        BY <1>1, FS_CardinalityType
  <1>4. ASSUME d <= last, d \in S PROVE Cardinality(DaysFrom(S, d, last)) = Cardinality(DaysFrom(S, d + 1, last)) + 1
    <2>1. DaysFrom(S, d, last) = DaysFrom(S, d + 1, last) \cup {d}
          BY <1>4 DEF DaysFrom
    <2> QED BY <1>1, <1>2, <2>1, FS_AddElement
  <1>5. ~(d <= last /\ d \in S) => DaysFrom(S, d, last) = DaysFrom(S, d + 1, last)
        BY DEF DaysFrom
  <1>6. ASSUME d > last PROVE Cardinality(DaysFrom(S, d, last)) = 0
    <2>1. DaysFrom(S, d, last) = {}
          BY <1>6 DEF DaysFrom
    <2> QED BY <2>1, FS_EmptySet
  <1> QED BY <1>3, <1>4, <1>5, <1>6

\* The days that may be red, and white after March.
Reds == {n \in Nat : Rules!RedAllowed(n)}
Whites(y) == {n \in Nat : FirstOf(y + 1, 4) <= n /\ Rules!WhiteAllowed(n)}

\* There is room on the days of a set that are left.
LEMMA Rooms ==
  ASSUME NEW y \in SeasonYears, NEW d \in Nat
  PROVE  /\ RedRoom(y, d) = DaysFrom(Reds, d, FirstOf(y + 1, 4) - 1)
         /\ WhiteRoom(y, d) = DaysFrom(Whites(y), d, FirstOf(y + 1, 9) - 1)
  <1>1. FirstOf(y + 1, 4) \in Nat /\ FirstOf(y + 1, 9) \in Nat
        BY Bounds
  <1>2. RedRoom(y, d) = DaysFrom(Reds, d, FirstOf(y + 1, 4) - 1)
    <2>1. RedRoom(y, d) = {e \in d .. FirstOf(y + 1, 4) - 1 : Rules!RedAllowed(e)}
          BY Bounds DEF RedRoom
    <2> QED BY <1>1, <2>1 DEF DaysFrom, Reds
  <1>3. WhiteRoom(y, d) = DaysFrom(Whites(y), d, FirstOf(y + 1, 9) - 1)
    <2>1. WhiteRoom(y, d) = {e \in FirstOf(y + 1, 4) .. FirstOf(y + 1, 9) - 1 : d <= e /\ Rules!WhiteAllowed(e)}
          BY Bounds DEF WhiteRoom
    <2> QED BY <1>1, <2>1 DEF DaysFrom, Whites
  <1> QED BY <1>2, <1>3

\* What the rules of a day say is left is the room there is.
LEMMA RulesOf ==
  ASSUME NEW y, NEW d, InSeason(d, y)
  PROVE  LET rules == Rules!DayRules(d) IN
           /\ rules.redOk = Rules!RedAllowed(d) /\ rules.whiteOk = Rules!WhiteAllowed(d)
           /\ Rules!RedAllowed(d) => rules.redLeft = Cardinality(RedRoom(y, d))
           /\ FirstOf(y + 1, 4) <= d => rules.whiteLeft = Cardinality(WhiteRoom(y, d))
  <1>1. y \in SeasonYears /\ d \in Nat /\ Rules!SeasonStartYear(d) = y
        BY SeasonDays DEF InSeason
  <1>2. Rules!RedLeft(d) = Cardinality(RedRoom(y, d))
        BY <1>1 DEF Rules!RedLeft, RedRoom, Rules!Cardinality, Cardinality
  <1>3. ASSUME FirstOf(y + 1, 4) <= d
        PROVE  {e \in d .. Rules!SeasonBounds(y).last : Rules!WhiteAllowed(e)} = WhiteRoom(y, d)
    <2>1. FirstOf(y + 1, 4) \in Nat /\ FirstOf(y + 1, 9) \in Nat
          /\ Rules!SeasonBounds(y).last = FirstOf(y + 1, 9) - 1 /\ Rules!Ymd(y + 1, 4, 1) = FirstOf(y + 1, 4)
          BY <1>1, Bounds
    <2> QED BY <1>1, <1>3, <2>1 DEF WhiteRoom
  <1>4. Rules!DayRules(d).whiteLeft = Cardinality({e \in d .. Rules!SeasonBounds(y).last : Rules!WhiteAllowed(e)})
        BY <1>1 DEF Rules!DayRules, Rules!Cardinality, Cardinality
  <1> QED BY <1>2, <1>3, <1>4 DEF Rules!DayRules

\* Seasons start with room.
LEMMA SeasonStart == Init => SeasonInv
  <1> SUFFICES ASSUME Init, part = "season" PROVE SeasonInv
      BY DEF SeasonInv
  <1>1. given \in SeasonYears /\ \E start \in Starts(given) : day = start.day /\ stock = start.stock
        BY DEF Init
  <1>2. /\ day \in Rules!SeasonBounds(given).first .. Rules!SeasonBounds(given).last
        /\ stock \in Stock /\ HasRoom(given, day, stock)
        BY <1>1, SeasonAssumption DEF Stock
  <1>3. Rules!SeasonBounds(given).first \in Nat /\ Rules!SeasonBounds(given).last + 1 \in Nat
        BY <1>1, Bounds
  <1> QED BY <1>1, <1>2, <1>3, Bounds DEF SeasonInv

\* A day decided leaves room for the rest.
LEMMA DayKeepsRoom ==
  ASSUME SeasonInv, DecideDay
  PROVE  SeasonInv'
  <1> DEFINE y == given
             rules == SeasonRules[SeasonYear][day]
             reds == RedRoom(y, day)
             whites == WhiteRoom(y, day)
  <1>1. /\ y \in SeasonYears /\ day \in Nat /\ stock \in Stock /\ HasRoom(y, day, stock)
        /\ InSeason(day, y) /\ y' = y /\ day' = day + 1 /\ part = "season"
        /\ day' \in Rules!SeasonBounds(y).first .. Rules!SeasonBounds(y).last + 1
    <2>1. /\ y \in SeasonYears /\ day \in Rules!SeasonBounds(y).first .. Rules!SeasonBounds(y).last + 1
          /\ stock \in Stock /\ HasRoom(y, day, stock) /\ part = "season" /\ day <= Rules!SeasonBounds(y).last
          BY DEF SeasonInv, DecideDay, SeasonYear
    <2>2. Rules!SeasonBounds(y).first \in Nat /\ Rules!SeasonBounds(y).last \in Int
          BY <2>1, Bounds
    <2>3. y' = y /\ day' = day + 1
          BY DEF DecideDay, valuesVars
    <2> QED BY <2>1, <2>2, <2>3 DEF InSeason
  <1>2. rules = Rules!DayRules(day)
        BY <1>1 DEF SeasonRules, SeasonYear, InSeason
  <1>3. PICK x : stock' = Rules!Take(stock, Rules!Decide(rules, x, stock))
        BY DEF DecideDay
  <1> DEFINE color == Rules!Decide(rules, x, stock)
  <1>4. /\ rules.redOk = Rules!RedAllowed(day) /\ rules.whiteOk = Rules!WhiteAllowed(day)
        /\ Rules!RedAllowed(day) => rules.redLeft = Cardinality(reds)
        /\ FirstOf(y + 1, 4) <= day => rules.whiteLeft = Cardinality(whites)
        BY <1>1, <1>2, RulesOf
  <1>5. Rules!RedAllowed(day) \in BOOLEAN /\ Rules!WhiteAllowed(day) \in BOOLEAN
        BY DEF Rules!RedAllowed, Rules!WhiteAllowed
  <1> HIDE DEF rules
  <1>6. /\ color = "red" => Rules!RedAllowed(day) /\ stock.red > 0
        /\ Rules!RedAllowed(day) /\ stock.red > 0 /\ stock.run < 5 /\ stock.red >= rules.redLeft => color = "red"
        /\ ~Rules!RedAllowed(day) /\ Rules!WhiteAllowed(day) /\ stock.white > 0 /\ stock.white >= rules.whiteLeft => color = "white"
        BY <1>1, <1>4, <1>5, Decides
  <1> HIDE DEF color
  <1>7. /\ stock' \in Stock /\ stock'.red <= stock.red /\ stock'.white <= stock.white
        /\ color = "red" => stock'.run = stock.run + 1 /\ (stock.red > 0 => stock'.red = stock.red - 1)
        /\ color # "red" => stock'.run = 0 /\ stock'.red = stock.red
        /\ color = "white" /\ stock.white > 0 => stock'.white = stock.white - 1
        BY <1>1, <1>3, Takes DEF color
  <1>8. /\ stock.red \in Nat /\ stock.white \in Nat /\ stock.run \in Nat
        /\ stock'.red \in Nat /\ stock'.white \in Nat /\ stock'.run \in Nat
        BY <1>1, <1>7 DEF Stock
  <1>9. stock.red <= Cardinality(reds) /\ stock.white <= Cardinality(whites) /\ stock.run <= Rules!Weekday(day)
        BY <1>1 DEF HasRoom
  <1>10. FirstOf(y + 1, 4) \in Nat /\ FirstOf(y + 1, 9) \in Nat /\ day < FirstOf(y + 1, 9)
         BY <1>1, Bounds DEF InSeason
  <1>11. Rules!RedAllowed(day) => day < FirstOf(y + 1, 4) /\ Rules!Weekday(day) \notin {5, 6}
         BY <1>1, SeasonDays
  <1>12. /\ Rules!Weekday(day) \in 0 .. 6 /\ Rules!Weekday(day + 1) \in 0 .. 6
         /\ Rules!Weekday(day) # 6 => Rules!Weekday(day + 1) = Rules!Weekday(day) + 1
         BY <1>1, <1>10, SMT DEF Rules!Weekday
  <1>13. stock'.red <= Cardinality(RedRoom(y, day + 1))
    <2> DEFINE last == FirstOf(y + 1, 4) - 1
    <2>1. reds = DaysFrom(Reds, day, last) /\ RedRoom(y, day + 1) = DaysFrom(Reds, day + 1, last)
          BY <1>1, Rooms
    <2>2. last \in Nat
          BY <1>1, Bounds
    <2> HIDE DEF last
    <2>3. /\ Cardinality(reds) \in Nat /\ Cardinality(RedRoom(y, day + 1)) \in Nat
          /\ day <= last /\ day \in Reds => Cardinality(reds) = Cardinality(RedRoom(y, day + 1)) + 1
          /\ ~(day <= last /\ day \in Reds) => reds = RedRoom(y, day + 1)
      <3>1. /\ Cardinality(DaysFrom(Reds, day, last)) \in Nat /\ Cardinality(DaysFrom(Reds, day + 1, last)) \in Nat
            /\ day <= last /\ day \in Reds => Cardinality(DaysFrom(Reds, day, last)) = Cardinality(DaysFrom(Reds, day + 1, last)) + 1
            /\ ~(day <= last /\ day \in Reds) => DaysFrom(Reds, day, last) = DaysFrom(Reds, day + 1, last)
            BY <1>1, <2>2, DaysLeft
      <3> HIDE DEF reds
      <3> QED BY <2>1, <3>1, Zenon
    <2> HIDE DEF reds
    <2>4. CASE Rules!RedAllowed(day)
      <3>1. Cardinality(reds) = Cardinality(RedRoom(y, day + 1)) + 1
            BY <1>1, <1>10, <1>11, <2>3, <2>4 DEF last, Reds
      <3>2. stock.run < 5
            BY <1>8, <1>9, <1>11, <1>12, <2>4
      <3>3. CASE color = "red"
            BY <1>6, <1>7, <1>8, <1>9, <2>3, <3>1, <3>3
      <3>4. CASE color # "red"
        <4>1. stock.red = 0 \/ stock.red < Cardinality(reds)
              BY <1>4, <1>6, <1>8, <2>3, <2>4, <3>2, <3>4
        <4> QED BY <1>7, <1>8, <2>3, <3>1, <3>4, <4>1
      <3> QED BY <3>3, <3>4
    <2>5. CASE ~Rules!RedAllowed(day)
      <3>1. reds = RedRoom(y, day + 1)
            BY <2>3, <2>5 DEF Reds
      <3> QED BY <1>7, <1>8, <1>9, <2>3, <3>1
    <2> QED BY <2>4, <2>5
  <1>14. stock'.white <= Cardinality(WhiteRoom(y, day + 1))
    <2> DEFINE last == FirstOf(y + 1, 9) - 1
    <2>1. whites = DaysFrom(Whites(y), day, last) /\ WhiteRoom(y, day + 1) = DaysFrom(Whites(y), day + 1, last)
          BY <1>1, Rooms
    <2>2. last \in Nat
          BY <1>1, Bounds
    <2> HIDE DEF last
    <2>3. /\ Cardinality(whites) \in Nat /\ Cardinality(WhiteRoom(y, day + 1)) \in Nat
          /\ day <= last /\ day \in Whites(y) => Cardinality(whites) = Cardinality(WhiteRoom(y, day + 1)) + 1
          /\ ~(day <= last /\ day \in Whites(y)) => whites = WhiteRoom(y, day + 1)
      <3>1. /\ Cardinality(DaysFrom(Whites(y), day, last)) \in Nat /\ Cardinality(DaysFrom(Whites(y), day + 1, last)) \in Nat
            /\ day <= last /\ day \in Whites(y) => Cardinality(DaysFrom(Whites(y), day, last)) = Cardinality(DaysFrom(Whites(y), day + 1, last)) + 1
            /\ ~(day <= last /\ day \in Whites(y)) => DaysFrom(Whites(y), day, last) = DaysFrom(Whites(y), day + 1, last)
            BY <1>1, <2>2, DaysLeft
      <3> HIDE DEF whites
      <3> QED BY <2>1, <3>1, Zenon
    <2> HIDE DEF whites
    <2>4. CASE day \in Whites(y)
      <3>1. Cardinality(whites) = Cardinality(WhiteRoom(y, day + 1)) + 1
            BY <1>1, <1>10, <2>3, <2>4 DEF last
      <3>2. Rules!WhiteAllowed(day) /\ FirstOf(y + 1, 4) <= day /\ ~Rules!RedAllowed(day)
            BY <1>1, <1>10, <1>11, <2>4 DEF Whites
      <3>3. stock.white > 0 /\ stock.white >= Cardinality(whites) => color = "white"
            BY <1>4, <1>6, <3>2
      <3> QED BY <1>7, <1>8, <1>9, <2>3, <3>1, <3>3
    <2>5. CASE day \notin Whites(y)
      <3>1. whites = WhiteRoom(y, day + 1)
            BY <2>3, <2>5
      <3> QED BY <1>7, <1>8, <1>9, <2>3, <3>1
    <2> QED BY <2>4, <2>5
  <1>15. stock'.run <= Rules!Weekday(day + 1)
    <2>1. CASE color = "red"
          BY <1>6, <1>7, <1>8, <1>9, <1>11, <1>12, <2>1
    <2>2. CASE color # "red"
          BY <1>7, <1>12, <2>2
    <2> QED BY <2>1, <2>2
  <1>16. HasRoom(y, day', stock')
         BY <1>1, <1>13, <1>14, <1>15 DEF HasRoom
  <1> QED BY <1>1, <1>7, <1>16 DEF SeasonInv

\* Whatever the weather, every red day of the quota is placed by 31 March and every white one by
\* 31 August (rules.rs: decide).
THEOREM ThQuotasPlaced == Spec => []QuotasPlaced
  <1>1. Init => SeasonInv
        BY SeasonStart
  <1>2. SeasonInv /\ [Next]_vars => SeasonInv'
    <2> SUFFICES ASSUME SeasonInv, [Next]_vars PROVE SeasonInv'
        OBVIOUS
    <2>1. CASE DecideDay
          BY <2>1, DayKeepsRoom
    <2>2. CASE part # "season" /\ part' = part
          BY <2>2 DEF SeasonInv
    <2>3. CASE UNCHANGED vars
          BY <2>3 DEF vars, valuesVars, SeasonInv
    <2> QED BY <2>1, <2>2, <2>3 DEF Next
  <1>3. SeasonInv => QuotasPlaced
    <2> SUFFICES ASSUME SeasonInv, part = "season"
                 PROVE  /\ day > Rules!Ymd(given + 1, 3, 31) => stock.red = 0
                        /\ day > Rules!SeasonBounds(given).last => stock.white = 0
        BY DEF QuotasPlaced, SeasonYear
    <2>1. /\ given \in SeasonYears /\ day \in Rules!SeasonBounds(given).first .. Rules!SeasonBounds(given).last + 1
          /\ stock \in Stock /\ HasRoom(given, day, stock)
          BY DEF SeasonInv
    <2>2. /\ FirstOf(given + 1, 4) - 1 \in Nat /\ FirstOf(given + 1, 9) - 1 \in Nat /\ day \in Nat
          /\ Rules!Ymd(given + 1, 3, 31) = FirstOf(given + 1, 4) - 1
          /\ Rules!SeasonBounds(given).last = FirstOf(given + 1, 9) - 1
          BY <2>1, Bounds
    <2>3. /\ stock.red \in Nat /\ stock.white \in Nat
          /\ stock.red <= Cardinality(RedRoom(given, day)) /\ stock.white <= Cardinality(WhiteRoom(given, day))
          BY <2>1 DEF HasRoom, Stock
    <2>4. /\ day > FirstOf(given + 1, 4) - 1 => Cardinality(RedRoom(given, day)) = 0
          /\ day > FirstOf(given + 1, 9) - 1 => Cardinality(WhiteRoom(given, day)) = 0
      <3>1. /\ RedRoom(given, day) = DaysFrom(Reds, day, FirstOf(given + 1, 4) - 1)
            /\ WhiteRoom(given, day) = DaysFrom(Whites(given), day, FirstOf(given + 1, 9) - 1)
            BY <2>1, <2>2, Rooms
      <3>2. day > FirstOf(given + 1, 4) - 1 => Cardinality(DaysFrom(Reds, day, FirstOf(given + 1, 4) - 1)) = 0
            BY <2>2, DaysLeft
      <3>3. day > FirstOf(given + 1, 9) - 1 => Cardinality(DaysFrom(Whites(given), day, FirstOf(given + 1, 9) - 1)) = 0
            BY <2>2, DaysLeft
      <3> QED BY <3>1, <3>2, <3>3
    <2> QED BY <2>2, <2>3, <2>4
  <1> QED BY <1>1, <1>2, <1>3, PTL DEF Spec
=============================================================================
