--------------------------- MODULE TelevisionProofs --------------------------
(***************************************************************************)
(* The television and what stands around it, for any number of callers,    *)
(* boxes, keys and calls, and whatever the bounds: the power button never  *)
(* switches on a set that is on, nobody is told of a plug what it was not, *)
(* keys are carried out in order, and a change of address is followed.     *)
(***************************************************************************)
EXTENDS MCTelevision, Integers, TLAPS

-----------------------------------------------------------------------------
(* The Philips television.                                                 *)

AskRec == [at : {"idle", "probe", "gate", "gap", "hit", "send", "await", "route"},
           for : Tv!PowerCall \cup Tv!PlainCall \cup {Nil},
           phase : {"resolve", "plain", "settle", "final", Nil},
           order : {"on", "off", Nil}, left : Int, was : BOOLEAN, excuse : BOOLEAN]

\* The code a caller is about to send was chosen from a reading of the set, or asked for.
Justified(a) == a.for = "toggle" /\ a.at = "send" /\ a.order = "on" => ~a.was \/ a.excuse

TvInv ==
    /\ panel \in BOOLEAN /\ shown \in BOOLEAN /\ net \in {"down", "refused", "answers"}
    /\ ask \in [Caller -> AskRec]
    /\ \A c \in Caller : Justified(ask[c])

\* Where a caller goes is a record's change.
LEMMA AskMoves ==
    ASSUME TvInv, NEW c \in Caller, NEW r \in AskRec, Justified(r), ask' = [ask EXCEPT ![c] = r]
    PROVE  ask' \in [Caller -> AskRec] /\ \A d \in Caller : Justified(ask'[d])
  BY DEF TvInv

\* A caller at rest is justified.
LEMMA QuietFits == Tv!Quiet \in AskRec /\ Justified(Tv!Quiet)
  BY DEF Tv!Quiet, AskRec, Justified

\* What a reading leads to is justified when a set that reads as off is off, or the reading could
\* not know better.
LEMMA ReadsFits ==
    ASSUME TvInv, NEW c \in Caller, NEW on \in BOOLEAN, NEW excuse \in BOOLEAN, ~on => ~panel \/ excuse,
           Tv!Reads(c, on, excuse)
    PROVE  ask' \in [Caller -> AskRec] /\ \A d \in Caller : Justified(ask'[d])
  <1> DEFINE a == IF ask[c].for = "toggle" THEN [ask[c] EXCEPT !.was = panel, !.excuse = excuse] ELSE ask[c]
             r == CASE a.phase = "resolve" /\ a.for = "toggle" -> [a EXCEPT !.at = "send", !.order = IF on THEN "off" ELSE "on"]
                    [] a.phase = "resolve" /\ a.for = "ensure" -> IF on THEN Tv!Quiet ELSE [a EXCEPT !.at = "send", !.order = "on"]
                    [] a.phase = "resolve" /\ a.for \notin {"toggle", "ensure"} ->
                         IF on THEN [a EXCEPT !.at = "gate", !.phase = "plain", !.left = Requests["status"]] ELSE Tv!Quiet
                    [] a.phase = "settle" ->
                         IF on \/ a.left = 0 THEN [a EXCEPT !.at = "probe", !.phase = "final"] ELSE [a EXCEPT !.at = "probe", !.left = @ - 1]
                    [] OTHER -> [a EXCEPT !.at = "route"]
  <1>1. ask' = [ask EXCEPT ![c] = r]
        BY DEF Tv!Reads
  <1>2. /\ a \in AskRec /\ a.for = ask[c].for
        /\ a.for = "toggle" => a.was = panel /\ a.excuse = excuse
        BY DEF TvInv, AskRec
  <1>3. Requests["status"] \in Int
        BY TelevisionAssumption
  <1> HIDE DEF a
  <1>4. r \in AskRec /\ Justified(r)
    <2>1. CASE a.phase = "resolve" /\ a.for = "toggle"
      <3>1. r = [a EXCEPT !.at = "send", !.order = IF on THEN "off" ELSE "on"]
            BY <2>1
      <3> HIDE DEF r
      <3>2. /\ r \in AskRec /\ r.order = (IF on THEN "off" ELSE "on")
            /\ r.was = a.was /\ r.excuse = a.excuse
            BY <1>2, <3>1 DEF AskRec
      <3>3. r.was = panel /\ r.excuse = excuse
            BY <1>2, <2>1, <3>2
      <3>4. r.order = "on" => ~r.was \/ r.excuse
            BY <3>2, <3>3
      <3> QED BY <3>2, <3>4 DEF Justified
    <2>2. CASE a.phase = "resolve" /\ a.for # "toggle" /\ a.for = "ensure"
      <3>1. r = IF on THEN Tv!Quiet ELSE [a EXCEPT !.at = "send", !.order = "on"]
            BY <2>2
      <3> HIDE DEF r
      <3>2. CASE on BY <3>1, <3>2, QuietFits
      <3>3. CASE ~on BY <1>2, <2>2, <3>1, <3>3 DEF AskRec, Justified
      <3> QED BY <3>2, <3>3
    <2>3. CASE a.phase = "resolve" /\ a.for # "toggle" /\ a.for # "ensure"
      <3>1. r = IF on THEN [a EXCEPT !.at = "gate", !.phase = "plain", !.left = Requests["status"]] ELSE Tv!Quiet
            BY <2>3
      <3> HIDE DEF r
      <3>2. CASE ~on BY <3>1, <3>2, QuietFits
      <3>3. CASE on BY <1>2, <1>3, <2>3, <3>1, <3>3 DEF AskRec, Justified
      <3> QED BY <3>2, <3>3
    <2>4. CASE a.phase # "resolve" /\ a.phase = "settle" /\ (on \/ a.left = 0)
      <3>1. r = [a EXCEPT !.at = "probe", !.phase = "final"]
            BY <2>4
      <3> HIDE DEF r
      <3> QED BY <1>2, <3>1 DEF AskRec, Justified
    <2>5. CASE a.phase # "resolve" /\ a.phase = "settle" /\ ~(on \/ a.left = 0)
      <3>1. r = [a EXCEPT !.at = "probe", !.left = a.left - 1]
            BY <1>2, <2>5 DEF AskRec
      <3>2. a.left - 1 \in Int BY <1>2 DEF AskRec
      <3> HIDE DEF r
      <3>3. r \in AskRec BY <1>2, <3>1, <3>2 DEF AskRec
      <3>4. r.at = "probe" BY <1>2, <3>1 DEF AskRec
      <3> QED BY <3>3, <3>4 DEF Justified
    <2>6. CASE a.phase # "resolve" /\ a.phase # "settle"
      <3>1. r = [a EXCEPT !.at = "route"]
            BY <2>6
      <3> HIDE DEF r
      <3>2. r \in AskRec BY <1>2, <3>1 DEF AskRec
      <3>3. r.at = "route" BY <1>2, <3>1 DEF AskRec
      <3> QED BY <3>2, <3>3 DEF Justified
    <2> QED BY <2>1, <2>2, <2>3, <2>4, <2>5, <2>6
  <1> HIDE DEF r
  <1> QED BY <1>1, <1>4, AskMoves

\* The first state of the set.
LEMMA TvInit == Tv!Init => TvInv
  BY DEF Tv!Init, TvInv, Tv!Quiet, AskRec, Justified

\* A step that leaves every caller where it was, or sends one elsewhere than to the blaster.
LEMMA AtFits ==
    ASSUME TvInv, NEW c \in Caller, NEW place \in {"probe", "gate", "gap", "hit", "route"}, Tv!At(c, place)
    PROVE  ask' \in [Caller -> AskRec] /\ \A d \in Caller : Justified(ask'[d])
  <1> DEFINE r == [ask[c] EXCEPT !.at = place]
  <1>1. ask' = [ask EXCEPT ![c] = r]
        BY DEF Tv!At, TvInv
  <1>2. r \in AskRec /\ r.at = place
        BY DEF TvInv, AskRec
  <1>3. Justified(r)
        BY <1>2 DEF Justified
  <1> HIDE DEF r
  <1> QED BY <1>1, <1>2, <1>3, AskMoves

\* A caller that ends is at rest.
LEMMA EndsFits ==
    ASSUME TvInv, NEW c \in Caller, Tv!Ends(c)
    PROVE  ask' \in [Caller -> AskRec] /\ \A d \in Caller : Justified(ask'[d])
  BY QuietFits, AskMoves DEF Tv!Ends

\* Every step keeps it, hands, crashes and lost probes included.
LEMMA TvNext == TvInv /\ Tv!Next => TvInv'
  <1> SUFFICES ASSUME TvInv, Tv!Next PROVE TvInv'
      OBVIOUS
  <1> DEFINE Set == panel' \in BOOLEAN /\ shown' \in BOOLEAN /\ net' \in {"down", "refused", "answers"}
             Fits == ask' \in [Caller -> AskRec] /\ \A d \in Caller : Justified(ask'[d])
  <1>0. /\ panel \in BOOLEAN /\ shown \in BOOLEAN /\ net \in {"down", "refused", "answers"}
        /\ ask \in [Caller -> AskRec] /\ \A d \in Caller : Justified(ask[d])
        BY DEF TvInv
  <1>a. UNCHANGED <<panel, shown, net>> => Set
        BY <1>0
  <1>b. UNCHANGED ask => Fits
        BY <1>0
  <1> SUFFICES Set /\ Fits
      BY DEF TvInv
  <1>1. ASSUME NEW c \in Caller, NEW does \in Tv!PowerCall \cup Tv!PlainCall, Tv!Asks(c, does) PROVE Set /\ Fits
    <2> DEFINE r == CASE does \in {"on", "off"} -> [Tv!Quiet EXCEPT !.at = "send", !.for = does, !.order = does]
                      [] does \in {"toggle", "ensure", "status"} -> [Tv!Quiet EXCEPT !.at = "probe", !.for = does, !.phase = "resolve"]
                      [] OTHER -> [Tv!Quiet EXCEPT !.at = "gate", !.for = does, !.phase = "plain", !.left = Requests[does]]
    <2>1. ask' = [ask EXCEPT ![c] = r]
          BY <1>1 DEF Tv!Asks
    <2>2. r \in AskRec /\ Justified(r)
      <3>1. CASE does \in {"on", "off"}
        <4>1. r = [at |-> "send", for |-> does, phase |-> Nil, order |-> does, left |-> 0, was |-> FALSE, excuse |-> FALSE]
              BY <3>1 DEF Tv!Quiet
        <4> HIDE DEF r
        <4>2. r \in AskRec BY <3>1, <4>1 DEF AskRec
        <4>3. r.for # "toggle" BY <3>1, <4>1
        <4> QED BY <4>2, <4>3 DEF Justified
      <3>2. CASE does \in {"toggle", "ensure", "status"}
        <4>1. r = [at |-> "probe", for |-> does, phase |-> "resolve", order |-> Nil, left |-> 0, was |-> FALSE, excuse |-> FALSE]
              BY <3>2 DEF Tv!Quiet
        <4> HIDE DEF r
        <4>2. r \in AskRec BY <1>1, <4>1 DEF AskRec
        <4>3. r.at # "send" BY <4>1
        <4> QED BY <4>2, <4>3 DEF Justified
      <3>3. CASE does \notin {"on", "off", "toggle", "ensure", "status"}
        <4>1. r = [at |-> "gate", for |-> does, phase |-> "plain", order |-> Nil, left |-> Requests[does], was |-> FALSE, excuse |-> FALSE]
              BY <3>3 DEF Tv!Quiet
        <4>2. Requests[does] \in Int
              BY <3>3, TelevisionAssumption DEF Tv!PowerCall, Tv!PlainCall
        <4> HIDE DEF r
        <4>3. r \in AskRec BY <1>1, <4>1, <4>2 DEF AskRec
        <4>4. r.at # "send" BY <4>1
        <4> QED BY <4>3, <4>4 DEF Justified
      <3> QED BY <3>1, <3>2, <3>3
    <2> HIDE DEF r
    <2> QED BY <1>0, <1>1, <1>a, <2>1, <2>2, AskMoves DEF Tv!Asks, Tv!tvset
  <1>2. ASSUME NEW c \in Caller, Tv!Probe(c) PROVE Set /\ Fits
    <2>1. CASE net = "answers"
          BY <1>2, <1>a, <2>1, AtFits DEF Tv!Probe, Tv!tvset
    <2>2. CASE net # "answers"
      <3>1. Tv!Reads(c, net = "refused", net = "down")
            BY <1>2, <2>2 DEF Tv!Probe
      <3>2. (net = "refused") \in BOOLEAN /\ (net = "down") \in BOOLEAN
            OBVIOUS
      <3>3. ~(net = "refused") => ~panel \/ (net = "down")
            BY <1>0, <2>2
      <3>4. Fits BY <3>1, <3>2, <3>3, ReadsFits
      <3> QED BY <1>2, <1>a, <3>4 DEF Tv!Probe, Tv!tvset
    <2> QED BY <2>1, <2>2
  <1>3. ASSUME NEW c \in Caller, Tv!ProbeLost(c) PROVE Set /\ Fits
        BY <1>3, <1>a, ReadsFits DEF Tv!ProbeLost, Tv!tvset
  <1>4. ASSUME NEW c \in Caller, Tv!Locks(c) \/ Tv!Hits(c) PROVE Set /\ Fits
        BY <1>4, <1>a, AtFits DEF Tv!Locks, Tv!Hits, Tv!tvset
  <1>5. ASSUME NEW c \in Caller, Tv!HitEnds(c) PROVE Set /\ Fits
    <2>1. Set BY <1>5, <1>a DEF Tv!HitEnds, Tv!tvset
    <2>2. CASE Tv!Ends(c)
          BY <2>1, <2>2, EndsFits
    <2>3. CASE ask' = [ask EXCEPT ![c].at = "gate", ![c].left = @ - 1]
      <3> DEFINE r == [ask[c] EXCEPT !.at = "gate", !.left = ask[c].left - 1]
      <3>1. ask' = [ask EXCEPT ![c] = r]
            BY <1>0, <2>3 DEF AskRec
      <3>2. r \in AskRec
        <4>1. ask[c].left - 1 \in Int BY <1>0 DEF AskRec
        <4> QED BY <1>0, <4>1 DEF AskRec
      <3>3. r.at = "gate"
            BY <1>0 DEF AskRec
      <3>4. Justified(r)
            BY <3>3 DEF Justified
      <3> HIDE DEF r
      <3> QED BY <2>1, <3>1, <3>2, <3>4, AskMoves
    <2>4. CASE Tv!Reads(c, shown, shown # panel)
      <3>1. (shown # panel) \in BOOLEAN /\ (~shown => ~panel \/ (shown # panel))
            BY <1>0
      <3> QED BY <1>0, <2>1, <2>4, <3>1, ReadsFits
    <2>5. CASE Tv!Reads(c, TRUE, FALSE)
          BY <2>1, <2>5, ReadsFits
    <2>6. CASE Tv!Reads(c, FALSE, TRUE)
          BY <2>1, <2>6, ReadsFits
    <2> QED BY <1>5, <2>2, <2>3, <2>4, <2>5, <2>6 DEF Tv!HitEnds
  <1>6. ASSUME NEW c \in Caller, Tv!Sends(c) PROVE Set /\ Fits
    <2>1. Set BY <1>0, <1>6 DEF Tv!Sends
    <2>2. CASE Tv!Ends(c)
          BY <2>1, <2>2, EndsFits
    <2>3. CASE ask' = [ask EXCEPT ![c] = [Tv!Quiet EXCEPT !.at = "await", !.left = Polls]]
      <3>1. [Tv!Quiet EXCEPT !.at = "await", !.left = Polls] \in AskRec
        <4>1. Polls \in Int BY TelevisionAssumption
        <4>2. Tv!Quiet \in AskRec BY QuietFits
        <4> QED BY <4>1, <4>2 DEF AskRec
      <3>2. Justified([Tv!Quiet EXCEPT !.at = "await", !.left = Polls])
            BY DEF Tv!Quiet, Justified
      <3> QED BY <2>1, <2>3, <3>1, <3>2, AskMoves
    <2> QED BY <1>6, <2>2, <2>3 DEF Tv!Sends
  <1>7. ASSUME NEW c \in Caller, Tv!Awaits(c) PROVE Set /\ Fits
    <2>1. ask[c] \in AskRec /\ ask[c].at = "await" /\ Polls \in Int
          BY <1>0, <1>7, TelevisionAssumption DEF Tv!Awaits
    <2>2. PICK r \in AskRec : ask' = [ask EXCEPT ![c] = r] /\ r.at # "send"
      <3>1. CASE net = "answers"
        <4> DEFINE r == [ask[c] EXCEPT !.at = "probe", !.phase = "settle", !.left = Polls]
        <4>1. ask' = [ask EXCEPT ![c] = r] BY <1>0, <1>7, <3>1 DEF Tv!Awaits
        <4>2. r \in AskRec BY <2>1 DEF AskRec
        <4>3. r.at = "probe" BY <2>1 DEF AskRec
        <4> HIDE DEF r
        <4> QED BY <4>1, <4>2, <4>3
      <3>2. CASE net # "answers" /\ ask[c].left = 0
        <4> DEFINE r == [ask[c] EXCEPT !.at = "route"]
        <4>1. ask' = [ask EXCEPT ![c] = r] BY <1>0, <1>7, <3>2 DEF Tv!Awaits
        <4>2. r \in AskRec BY <2>1 DEF AskRec
        <4>3. r.at = "route" BY <2>1 DEF AskRec
        <4> HIDE DEF r
        <4> QED BY <4>1, <4>2, <4>3
      <3>3. CASE net # "answers" /\ ask[c].left # 0
        <4> DEFINE r == [ask[c] EXCEPT !.left = ask[c].left - 1]
        <4>1. ask' = [ask EXCEPT ![c] = r] BY <1>0, <1>7, <2>1, <3>3 DEF Tv!Awaits, AskRec
        <4>2. r \in AskRec
          <5>1. ask[c].left - 1 \in Int BY <2>1 DEF AskRec
          <5> QED BY <2>1, <5>1 DEF AskRec
        <4>3. r.at = "await" BY <2>1 DEF AskRec
        <4> HIDE DEF r
        <4> QED BY <4>1, <4>2, <4>3
      <3> QED BY <3>1, <3>2, <3>3
    <2>3. Justified(r)
          BY <2>2 DEF Justified
    <2> QED BY <1>7, <1>a, <2>2, <2>3, AskMoves DEF Tv!Awaits, Tv!tvset
  <1>8. ASSUME NEW c \in Caller, Tv!Routes(c) \/ Tv!Dropped(c) PROVE Set /\ Fits
    <2>1. Set BY <1>0, <1>8 DEF Tv!Routes, Tv!Dropped, Tv!tvset
    <2> QED BY <1>8, <2>1, EndsFits DEF Tv!Routes, Tv!Dropped
  <1>9. CASE Tv!Wakes \/ Tv!Shows \/ Tv!Crashes \/ Tv!Hands \/ Tv!Tick
    <2>1. Set BY <1>0, <1>9 DEF Tv!Wakes, Tv!Shows, Tv!Crashes, Tv!Hands, Tv!Tick, Tv!tvset
    <2> QED BY <1>9, <1>b, <2>1 DEF Tv!Wakes, Tv!Shows, Tv!Crashes, Tv!Hands, Tv!Tick
  <1> QED BY <1>1, <1>2, <1>3, <1>4, <1>5, <1>6, <1>7, <1>8, <1>9 DEF Tv!Next

-----------------------------------------------------------------------------
(* The Meross plug.                                                        *)

CallRec == [at : {"idle", "asked", "failed", "seen", "snapshot"},
            for : Plug!Call \cup {Nil},
            ask : {"All", "ToggleX", "Toggle", "Electricity", "Runtime", "Other", Nil},
            want : BOOLEAN, saw : BOOLEAN, fresh : BOOLEAN, was : SUBSET BOOLEAN]

\* What a call asks for follows from what it is for, and how far it came.
AsksFit(a) ==
    /\ a.for \in Plug!Call
    /\ a.for \in {"is_on", "list"} => a.ask = "All"
    /\ a.for = "status" => a.ask \in {"All", "Electricity", "Runtime"}
    /\ a.for = "other" => a.ask = "Other"
    /\ a.for = "flip" => a.ask \in {"All", "ToggleX", "Toggle"}
    /\ a.for \in Plug!Order => a.ask \in {"ToggleX", "Toggle"}
    /\ a.ask \in {"ToggleX", "Toggle"} => a.saw = a.want
    /\ a.at = "snapshot" => a.for = "list"

\* What a call will tell was so: what it read, what its order made of the plug.
SawFits(a) ==
    /\ a.at = "seen" /\ a.for # "other" => a.saw \in a.was
    /\ a.for = "status" /\ a.ask # "All" => a.saw \in a.was
    /\ a.for = "list" /\ a.at \in {"asked", "failed"} => ~a.fresh

CallFits(a) == a.at # "idle" => AsksFit(a) /\ SawFits(a)

\* Calls in flight at the same time met the same states of the plug, the present one among them.
AllMet(met) == relay \in met /\ \A c \in Plug!InFlight : call[c].was = met

PlugInv ==
    /\ relay \in BOOLEAN /\ cached.on \in BOOLEAN
    /\ call \in [Caller -> CallRec]
    /\ \A c \in Caller : CallFits(call[c])
    /\ \E met \in SUBSET BOOLEAN : AllMet(met)
    \* Since a list read the plug, the cached state is one it met.
    /\ \A c \in Caller : call[c].at = "snapshot" /\ call[c].fresh => cached.on \in call[c].was
    /\ Plug!ToldAsItWas

\* The first state of the plug: nobody calls.
LEMMA PlugInit == Plug!PlugInit => PlugInv
  <1> SUFFICES ASSUME Plug!PlugInit PROVE PlugInv
      OBVIOUS
  <1>1. \A c \in Caller : call[c].at = "idle" /\ call[c] = Plug!Quiet
        BY DEF Plug!PlugInit, Plug!Quiet
  <1>2. Plug!Quiet \in CallRec
        BY DEF Plug!Quiet, CallRec
  <1>3. relay \in BOOLEAN /\ cached.on \in BOOLEAN /\ call \in [Caller -> CallRec] /\ told = Nil
        BY <1>2 DEF Plug!PlugInit
  <1>4. AllMet({relay}) /\ {relay} \in SUBSET BOOLEAN
        BY <1>1, <1>3 DEF AllMet, Plug!InFlight
  <1> QED BY <1>1, <1>3, <1>4 DEF PlugInv, CallFits, Plug!ToldAsItWas

Alike(a, b) ==
    /\ b.at = a.at /\ b.for = a.for /\ b.ask = a.ask
    /\ b.want = a.want /\ b.saw = a.saw /\ b.fresh = a.fresh

\* A call that met more of the plug still fits.
LEMMA FitsMore ==
    ASSUME NEW a \in CallRec, NEW b \in CallRec, Alike(a, b), a.at # "idle" => a.was \subseteq b.was, CallFits(a)
    PROVE  CallFits(b)
  BY DEF Alike, CallFits, AsksFit, SawFits

\* Where a call comes to: it fits, and it met what all in flight met.
Comes(b, now, on) ==
    /\ CallFits(b)
    /\ b.at # "idle" => b.was = now
    /\ b.at = "snapshot" /\ b.fresh => on \in now

\* A step after which every call goes on as it was, meeting a state of the plug at most, or comes
\* to another place.
LEMMA PlugStep ==
    ASSUME PlugInv, NEW met \in SUBSET BOOLEAN, AllMet(met), NEW now \in SUBSET BOOLEAN, met \subseteq now,
           call' \in [Caller -> CallRec],
           \A d \in Caller : \/ Alike(call[d], call'[d]) /\ (call[d].at # "idle" => call'[d].was = now)
                             \/ Comes(call'[d], now, cached'.on),
           relay' \in now, cached'.on \in BOOLEAN, cached'.on = cached.on \/ cached'.on \in now,
           Plug!ToldAsItWas'
    PROVE  PlugInv'
  <1>1. relay' \in BOOLEAN
        OBVIOUS
  <1>2. \A d \in Caller : call[d] \in CallRec /\ call'[d] \in CallRec /\ CallFits(call[d])
        BY DEF PlugInv
  <1>3. \A d \in Caller : call[d].at # "idle" => call[d].was = met
        BY DEF AllMet, Plug!InFlight
  <1>4. \A d \in Caller : CallFits(call'[d])
    <2> TAKE d \in Caller
    <2>1. CASE Comes(call'[d], now, cached'.on) BY <2>1 DEF Comes
    <2>2. CASE Alike(call[d], call'[d]) /\ (call[d].at # "idle" => call'[d].was = now)
      <3>1. call[d].at # "idle" => call[d].was \subseteq call'[d].was
            BY <1>3, <2>2
      <3> QED BY <1>2, <2>2, <3>1, FitsMore
    <2> QED BY <2>1, <2>2
  <1>5. \A d \in Caller : call'[d].at # "idle" => call'[d].was = now
        BY DEF Alike, Comes
  <1>6. AllMet(now)'
        BY <1>5 DEF AllMet, Plug!InFlight
  <1>7. \A d \in Caller : call'[d].at = "snapshot" /\ call'[d].fresh => cached'.on \in call'[d].was
    <2> SUFFICES ASSUME NEW d \in Caller, call'[d].at = "snapshot", call'[d].fresh PROVE cached'.on \in call'[d].was
        OBVIOUS
    <2>1. call'[d].was = now
          BY <1>5
    <2>2. CASE Comes(call'[d], now, cached'.on) BY <2>1, <2>2 DEF Comes
    <2>3. CASE Alike(call[d], call'[d]) /\ (call[d].at # "idle" => call'[d].was = now)
      <3>1. call[d].at = "snapshot" /\ call[d].fresh
            BY <2>3 DEF Alike
      <3>2. cached.on \in met
            BY <1>3, <3>1 DEF PlugInv
      <3> QED BY <2>1, <3>2
    <2> QED BY <2>2, <2>3
  <1>8. \E some \in SUBSET BOOLEAN : AllMet(some)'
        BY <1>6
  <1> QED BY <1>1, <1>4, <1>7, <1>8 DEF PlugInv

\* A change of the plug is met by every call under way, alike.
LEMMA MeetsAll ==
    ASSUME PlugInv, NEW met \in SUBSET BOOLEAN, AllMet(met), NEW on \in BOOLEAN
    PROVE  /\ Plug!Meets(on) \in [Caller -> CallRec]
           /\ \A d \in Caller : /\ Alike(call[d], Plug!Meets(on)[d])
                                /\ call[d].at # "idle" => Plug!Meets(on)[d].was = met \cup {on}
  <1>1. ASSUME NEW d \in Caller
        PROVE  /\ Plug!Meets(on)[d] \in CallRec /\ Alike(call[d], Plug!Meets(on)[d])
               /\ call[d].at # "idle" => Plug!Meets(on)[d].was = met \cup {on}
    <2>1. call[d] \in CallRec
          BY DEF PlugInv
    <2>2. CASE call[d].at = "idle"
      <3>1. Plug!Meets(on)[d] = call[d]
            BY <2>2 DEF Plug!Meets, Plug!InFlight
      <3> QED BY <2>1, <2>2, <3>1 DEF Alike
    <2>3. CASE call[d].at # "idle"
      <3> DEFINE m == [call[d] EXCEPT !.was = @ \cup {on}]
      <3>1. Plug!Meets(on)[d] = m
            BY <2>3 DEF Plug!Meets, Plug!InFlight
      <3>2. m \in CallRec /\ Alike(call[d], m) /\ m.was = call[d].was \cup {on}
            BY <2>1 DEF CallRec, Alike
      <3>3. call[d].was = met
            BY <2>3 DEF AllMet, Plug!InFlight
      <3> HIDE DEF m
      <3> QED BY <3>1, <3>2, <3>3
    <2> QED BY <2>2, <2>3
  <1>2. Plug!Meets(on) = [d \in Caller |-> Plug!Meets(on)[d]]
        BY DEF Plug!Meets
  <1> QED BY <1>1, <1>2

\* A step of one call that leaves the plug as it was.
LEMMA CallStep ==
    ASSUME PlugInv, NEW met \in SUBSET BOOLEAN, AllMet(met),
           NEW c \in Caller, NEW r \in CallRec, CallFits(r), r.at # "idle" => r.was = met,
           call' = [call EXCEPT ![c] = r],
           relay' = relay, cached'.on \in BOOLEAN, cached'.on = cached.on \/ cached'.on \in met,
           r.at = "snapshot" /\ r.fresh => cached'.on \in met,
           Plug!ToldAsItWas'
    PROVE  PlugInv'
  <1>1. call \in [Caller -> CallRec]
        BY DEF PlugInv
  <1>2. call' \in [Caller -> CallRec] /\ call'[c] = r /\ \A d \in Caller \ {c} : call'[d] = call[d]
        BY <1>1
  <1>3. \A d \in Caller \ {c} : Alike(call[d], call'[d]) /\ (call[d].at # "idle" => call'[d].was = met)
        BY <1>2 DEF Alike, AllMet, Plug!InFlight
  <1>4. relay' \in met
        BY DEF AllMet
  <1>5. Comes(call'[c], met, cached'.on)
        BY <1>2 DEF Comes
  <1> QED BY <1>2, <1>3, <1>4, <1>5, PlugStep

\* A step of one call that makes of the plug what all in flight meet.
LEMMA PlugCallStep ==
    ASSUME PlugInv, NEW met \in SUBSET BOOLEAN, AllMet(met), NEW on \in BOOLEAN,
           NEW c \in Caller, NEW r \in CallRec, CallFits(r), r.at # "idle" => r.was = met \cup {on},
           call' = [Plug!Meets(on) EXCEPT ![c] = r],
           relay' = on, UNCHANGED <<cached, told>>,
           ~(r.at = "snapshot")
    PROVE  PlugInv'
  <1>1. /\ call' \in [Caller -> CallRec] /\ call'[c] = r
        /\ \A d \in Caller \ {c} : Alike(call[d], call'[d]) /\ (call[d].at # "idle" => call'[d].was = met \cup {on})
        BY MeetsAll
  <1>2. cached.on \in BOOLEAN /\ Plug!ToldAsItWas'
        BY DEF PlugInv, Plug!ToldAsItWas
  <1> DEFINE now == met \cup {on}
  <1>3. now \in SUBSET BOOLEAN /\ met \subseteq now /\ relay' \in now
        OBVIOUS
  <1> HIDE DEF now
  <1>4. \A d \in Caller \ {c} : Alike(call[d], call'[d]) /\ (call[d].at # "idle" => call'[d].was = now)
        BY <1>1 DEF now
  <1>5. Comes(call'[c], now, cached'.on)
        BY <1>1 DEF Comes, now
  <1> QED BY <1>1, <1>2, <1>3, <1>4, <1>5, PlugStep

\* A call at rest fits.
LEMMA QuietCall == Plug!Quiet \in CallRec /\ CallFits(Plug!Quiet) /\ Plug!Quiet.at = "idle"
  BY DEF Plug!Quiet, CallRec, CallFits

\* What comes next of a call that asked and knows what it will tell.
LEMMA GoesFits ==
    ASSUME NEW a \in CallRec, a.at = "asked", AsksFit(a), a.for # "other" => a.saw \in a.was
    PROVE  LET g == Plug!Goes(a) IN g \in CallRec /\ CallFits(g) /\ g.was = a.was /\ g.at \in {"asked", "seen"}
  <1> DEFINE g == Plug!Goes(a)
  <1>1. CASE a.for = "status" /\ a.ask = "All"
    <2>1. g = [a EXCEPT !.ask = "Electricity"]
          BY <1>1 DEF Plug!Goes
    <2> HIDE DEF g
    <2>2. g \in CallRec /\ g.was = a.was /\ g.at = "asked" /\ g.ask = "Electricity" /\ g.for = "status" /\ g.saw = a.saw
          BY <1>1, <2>1 DEF CallRec
    <2>3. CallFits(g) BY <1>1, <2>2 DEF CallFits, AsksFit, SawFits, Plug!Order
    <2> QED BY <2>2, <2>3 DEF g
  <1>2. CASE a.for = "status" /\ a.ask = "Electricity"
    <2>1. g = [a EXCEPT !.ask = "Runtime"]
          BY <1>2 DEF Plug!Goes
    <2> HIDE DEF g
    <2>2. g \in CallRec /\ g.was = a.was /\ g.at = "asked" /\ g.ask = "Runtime" /\ g.for = "status" /\ g.saw = a.saw
          BY <1>2, <2>1 DEF CallRec
    <2>3. CallFits(g) BY <1>2, <2>2 DEF CallFits, AsksFit, SawFits, Plug!Order
    <2> QED BY <2>2, <2>3 DEF g
  <1>3. CASE ~(a.for = "status" /\ a.ask = "All") /\ ~(a.for = "status" /\ a.ask = "Electricity")
    <2>1. g = [a EXCEPT !.at = "seen"]
          BY <1>3 DEF Plug!Goes
    <2> HIDE DEF g
    <2>2. /\ g \in CallRec /\ g.was = a.was /\ g.at = "seen" /\ g.ask = a.ask /\ g.for = a.for
          /\ g.saw = a.saw /\ g.want = a.want
          BY <2>1 DEF CallRec
    <2>3. CallFits(g) BY <2>2 DEF CallFits, AsksFit, SawFits
    <2> QED BY <2>2, <2>3 DEF g
  <1> QED BY <1>1, <1>2, <1>3

\* A call with no answer it can use: over, but for a list or the rest of a status.
LEMMA WithoutFits ==
    ASSUME NEW a \in CallRec, a.at = "asked", CallFits(a)
    PROVE  LET w == Plug!Without(a) IN
           /\ w \in CallRec /\ CallFits(w) /\ (w.at # "idle" => w.was = a.was)
           /\ ~(w.at = "snapshot" /\ w.fresh)
  <1> DEFINE w == Plug!Without(a)
  <1>0. AsksFit(a) /\ SawFits(a)
        BY DEF CallFits
  <1>1. CASE a.for = "list"
    <2>1. w = [a EXCEPT !.at = "snapshot"]
          BY <1>1 DEF Plug!Without
    <2> HIDE DEF w
    <2>2. /\ w \in CallRec /\ w.was = a.was /\ w.at = "snapshot" /\ w.ask = a.ask /\ w.for = a.for
          /\ w.fresh = a.fresh
          BY <2>1 DEF CallRec
    <2>3. a.fresh = FALSE
          BY <1>0, <1>1 DEF SawFits, CallRec
    <2>4. CallFits(w) BY <1>0, <1>1, <2>2 DEF CallFits, AsksFit, SawFits, Plug!Order
    <2> QED BY <2>2, <2>3, <2>4 DEF w
  <1>2. CASE a.for = "status" /\ a.ask # "All"
    <2>1. w = Plug!Goes(a)
          BY <1>2 DEF Plug!Without
    <2>2. a.saw \in a.was
          BY <1>0, <1>2 DEF SawFits
    <2> HIDE DEF w
    <2>3. w \in CallRec /\ CallFits(w) /\ w.was = a.was /\ w.at \in {"asked", "seen"}
          BY <1>0, <2>1, <2>2, GoesFits
    <2> QED BY <2>3 DEF w
  <1>3. CASE a.for # "list" /\ ~(a.for = "status" /\ a.ask # "All")
        BY <1>3, QuietCall DEF Plug!Without
  <1> QED BY <1>1, <1>2, <1>3

\* It may meet a state of the plug as it goes.
LEMMA GoesMeets ==
    ASSUME NEW a \in CallRec, NEW now \in SUBSET BOOLEAN
    PROVE  [Plug!Goes(a) EXCEPT !.was = now] = Plug!Goes([a EXCEPT !.was = now])
  <1> DEFINE b == [a EXCEPT !.was = now]
  <1>1. b \in CallRec /\ b.for = a.for /\ b.ask = a.ask
        BY DEF CallRec
  <1>2. CASE a.for = "status" /\ a.ask = "All"
        BY <1>2 DEF Plug!Goes, CallRec
  <1>3. CASE a.for = "status" /\ a.ask = "Electricity"
        BY <1>3 DEF Plug!Goes, CallRec
  <1>4. CASE ~(a.for = "status" /\ a.ask = "All") /\ ~(a.for = "status" /\ a.ask = "Electricity")
        BY <1>4 DEF Plug!Goes, CallRec
  <1> QED BY <1>2, <1>3, <1>4

\* Every step keeps it, faults, dropped requests and hands included.
LEMMA PlugNext == PlugInv /\ Plug!PlugNext => PlugInv'
  <1> SUFFICES ASSUME PlugInv, Plug!PlugNext PROVE PlugInv'
      OBVIOUS
  <1>0. PICK met \in SUBSET BOOLEAN : AllMet(met)
        BY DEF PlugInv
  <1>a. /\ relay \in BOOLEAN /\ relay \in met /\ cached.on \in BOOLEAN
        /\ \A c \in Caller : /\ call[c] \in CallRec /\ CallFits(call[c])
                             /\ call[c].at # "idle" => call[c].was = met
        /\ Plug!ToldAsItWas
        BY <1>0 DEF PlugInv, AllMet, Plug!InFlight
  <1>b. UNCHANGED told => Plug!ToldAsItWas'
        BY <1>a DEF Plug!ToldAsItWas
  <1>1. CASE Plug!Pressed
    <2>1. relay' = ~relay /\ call' = Plug!Meets(~relay) /\ UNCHANGED <<cached, told>>
          BY <1>1 DEF Plug!Pressed
    <2>2. (~relay) \in BOOLEAN
          BY <1>a
    <2> DEFINE now == met \cup {~relay}
    <2>3. /\ call' \in [Caller -> CallRec]
          /\ \A d \in Caller : Alike(call[d], call'[d]) /\ (call[d].at # "idle" => call'[d].was = now)
          BY <1>0, <2>1, <2>2, MeetsAll
    <2>4. now \in SUBSET BOOLEAN /\ met \subseteq now /\ relay' \in now
          BY <2>1, <2>2
    <2> HIDE DEF now
    <2> QED BY <1>0, <1>a, <1>b, <2>1, <2>3, <2>4, PlugStep
  <1>2. ASSUME NEW c \in Caller, NEW for \in Plug!Call, Plug!Asks(c, for) PROVE PlugInv'
    <2> DEFINE w == {relay} \cup UNION {call[d].was : d \in Plug!InFlight}
               r == [Plug!Quiet EXCEPT !.at = "asked", !.for = for, !.want = (for = "on"), !.saw = (for = "on"),
                       !.ask = IF for \in Plug!Reading THEN "All" ELSE IF for \in Plug!Order THEN "ToggleX" ELSE "Other",
                       !.was = w]
    <2>1. call' = [call EXCEPT ![c] = r]
          BY <1>2 DEF Plug!Asks
    <2>2. UNCHANGED <<relay, cached, told>>
          BY <1>2 DEF Plug!Asks, Plug!plug
    <2>3. AllMet(w) /\ w \in SUBSET BOOLEAN
      <3>1. CASE Plug!InFlight = {}
            BY <1>a, <3>1 DEF AllMet
      <3>2. CASE Plug!InFlight # {}
        <4>1. \A d \in Plug!InFlight : call[d].was = met
              BY <1>0 DEF AllMet
        <4>2. w = met
              BY <1>a, <3>2, <4>1
        <4> QED BY <1>0, <4>2
      <3> QED BY <3>1, <3>2
    <2> HIDE DEF w
    <2>4. /\ r \in CallRec /\ r.was = w /\ r.at = "asked" /\ r.for = for /\ r.want = (for = "on") /\ r.saw = (for = "on")
          /\ r.ask = IF for \in Plug!Reading THEN "All" ELSE IF for \in Plug!Order THEN "ToggleX" ELSE "Other"
          /\ r.fresh = FALSE
      <3>1. Plug!Quiet \in CallRec /\ Plug!Quiet.fresh = FALSE
            BY QuietCall DEF Plug!Quiet
      <3> QED BY <2>3, <3>1 DEF CallRec, Plug!Call
    <2> HIDE DEF r
    <2>5. CallFits(r)
      <3>1. AsksFit(r)
            BY <2>4 DEF AsksFit, Plug!Reading, Plug!Order, Plug!Call
      <3>2. SawFits(r)
            BY <2>4 DEF SawFits, Plug!Reading
      <3> QED BY <3>1, <3>2 DEF CallFits
    <2> QED BY <1>a, <1>b, <2>1, <2>2, <2>3, <2>4, <2>5, CallStep
  <1>3. ASSUME NEW c \in Caller, Plug!Takes(c) PROVE PlugInv'
    <2> DEFINE a == call[c]
               obeys == a.ask = "Toggle" \/ (a.ask = "ToggleX" /\ ~old)
               on == IF obeys THEN a.want ELSE relay
               b == IF a.ask = "All" THEN [a EXCEPT !.saw = relay, !.fresh = TRUE] ELSE a
               after == IF a.ask = "ToggleX" /\ old THEN [a EXCEPT !.ask = "Toggle"] ELSE Plug!Goes(b)
               r == [after EXCEPT !.was = @ \cup {on}]
               now == met \cup {on}
    <2>1. a.at = "asked" /\ relay' = on /\ call' = [Plug!Meets(on) EXCEPT ![c] = r] /\ UNCHANGED <<cached, told>>
          BY <1>3 DEF Plug!Takes
    <2>2. a \in CallRec /\ AsksFit(a) /\ SawFits(a) /\ a.was = met
          BY <1>a, <2>1 DEF CallFits
    <2>3. on \in BOOLEAN /\ now \in SUBSET BOOLEAN
          BY <1>a, <2>2 DEF CallRec
    <2>4. r \in CallRec /\ CallFits(r) /\ r.was = now /\ r.at # "snapshot"
      <3>1. CASE a.ask = "ToggleX" /\ old
        <4>1. after = [a EXCEPT !.ask = "Toggle"]
              BY <3>1
        <4> HIDE DEF after, on
        <4>2. /\ r \in CallRec /\ r.was = now /\ r.at = "asked" /\ r.ask = "Toggle"
              /\ r.for = a.for /\ r.saw = a.saw /\ r.want = a.want
              BY <2>1, <2>2, <2>3, <4>1 DEF CallRec
        <4> HIDE DEF r
        <4>3. AsksFit(r) BY <2>2, <3>1, <4>2 DEF AsksFit, Plug!Order
        <4>4. SawFits(r) BY <2>2, <3>1, <4>2 DEF AsksFit, SawFits
        <4> QED BY <4>2, <4>3, <4>4 DEF CallFits
      <3>2. CASE ~(a.ask = "ToggleX" /\ old)
        <4> DEFINE bb == [b EXCEPT !.was = now]
        <4>1. /\ b \in CallRec /\ b.at = "asked" /\ b.was = met /\ b.for = a.for /\ b.ask = a.ask /\ b.want = a.want
              /\ b.saw = IF a.ask = "All" THEN relay ELSE a.saw
              BY <1>a, <2>1, <2>2 DEF CallRec
        <4>2. b.for # "other" => b.saw \in now
          <5> SUFFICES ASSUME b.for # "other" PROVE b.saw \in now
              OBVIOUS
          <5>1. CASE a.ask = "All"
                BY <1>a, <4>1, <5>1
          <5>2. CASE a.ask \in {"ToggleX", "Toggle"}
            <6>1. obeys BY <3>2, <5>2
            <6>2. a.saw = a.want BY <2>2, <5>2 DEF AsksFit
            <6> QED BY <4>1, <5>2, <6>1, <6>2
          <5>3. CASE a.ask \notin {"All", "ToggleX", "Toggle"}
            <6>1. a.for = "status"
                  BY <2>1, <2>2, <4>1, <5>3 DEF AsksFit, CallRec, Plug!Call, Plug!Reading, Plug!Order
            <6> QED BY <2>2, <4>1, <5>3, <6>1 DEF SawFits
          <5> QED BY <5>1, <5>2, <5>3
        <4> HIDE DEF b, on, now
        <4>3. /\ bb \in CallRec /\ bb.at = "asked" /\ bb.was = now /\ bb.for = a.for /\ bb.ask = a.ask
              /\ bb.want = a.want /\ bb.saw = b.saw
              BY <2>3, <4>1 DEF CallRec
        <4>4. AsksFit(bb)
          <5>1. a.ask \in {"ToggleX", "Toggle"} => b.saw = a.saw
                BY <4>1
          <5> HIDE DEF bb
          <5> QED BY <2>1, <2>2, <4>3, <5>1 DEF AsksFit
        <4>5. r = Plug!Goes(bb)
          <5>1. after = Plug!Goes(b)
                BY <3>2
          <5>2. Plug!Goes(b).was = met
                BY <4>1 DEF Plug!Goes, CallRec
          <5>3. r = [Plug!Goes(b) EXCEPT !.was = now]
                BY <5>1, <5>2 DEF now
          <5> QED BY <2>3, <4>1, <5>3, GoesMeets
        <4> HIDE DEF bb, r
        <4>6. bb.for # "other" => bb.saw \in bb.was
              BY <4>1, <4>2, <4>3
        <4>7. r \in CallRec /\ CallFits(r) /\ r.was = bb.was /\ r.at \in {"asked", "seen"}
              BY <4>3, <4>4, <4>5, <4>6, GoesFits
        <4> QED BY <4>3, <4>7
      <3> QED BY <3>1, <3>2
    <2> HIDE DEF r, on
    <2> QED BY <1>0, <2>1, <2>3, <2>4, PlugCallStep
  <1>4. ASSUME NEW c \in Caller, Plug!OddAnswer(c) PROVE PlugInv'
    <2>1. /\ call[c].at = "asked" /\ call' = [call EXCEPT ![c] = Plug!Without(call[c])]
          /\ UNCHANGED <<relay, cached, told>>
          BY <1>4 DEF Plug!OddAnswer, Plug!plug
    <2>2. /\ Plug!Without(call[c]) \in CallRec /\ CallFits(Plug!Without(call[c]))
          /\ Plug!Without(call[c]).at # "idle" => Plug!Without(call[c]).was = met
          /\ ~(Plug!Without(call[c]).at = "snapshot" /\ Plug!Without(call[c]).fresh)
          BY <1>a, <2>1, WithoutFits
    <2> QED BY <1>0, <1>a, <1>b, <2>1, <2>2, CallStep
  <1>5. ASSUME NEW c \in Caller, Plug!NoAnswer(c) PROVE PlugInv'
    <2>1. PICK obeys \in BOOLEAN :
            LET on == IF obeys /\ call[c].ask \in {"ToggleX", "Toggle"} THEN call[c].want ELSE relay
            IN  relay' = on /\ call' = [Plug!Meets(on) EXCEPT ![c].at = "failed"]
          BY <1>5 DEF Plug!NoAnswer
    <2> DEFINE on == IF obeys /\ call[c].ask \in {"ToggleX", "Toggle"} THEN call[c].want ELSE relay
               m == Plug!Meets(on)[c]
               r == [m EXCEPT !.at = "failed"]
    <2>2. /\ call[c].at = "asked" /\ UNCHANGED <<cached, told>>
          /\ relay' = on /\ call' = [Plug!Meets(on) EXCEPT ![c] = r]
          BY <1>5, <2>1 DEF Plug!NoAnswer
    <2>3. on \in BOOLEAN
          BY <1>a DEF CallRec
    <2> HIDE DEF on
    <2>4. m \in CallRec /\ Alike(call[c], m) /\ m.was = met \cup {on} /\ m.at = "asked"
          BY <1>0, <2>2, <2>3, MeetsAll DEF Alike
    <2>5. CallFits(m)
      <3>1. call[c].was \subseteq m.was
            BY <1>a, <2>2, <2>4
      <3> QED BY <1>a, <2>4, <3>1, FitsMore
    <2> HIDE DEF m
    <2>6. /\ r \in CallRec /\ r.at = "failed" /\ r.was = m.was /\ r.for = m.for /\ r.ask = m.ask
          /\ r.saw = m.saw /\ r.want = m.want /\ r.fresh = m.fresh
          BY <2>4 DEF CallRec
    <2> HIDE DEF r
    <2>7. CallFits(r)
          BY <2>4, <2>5, <2>6 DEF CallFits, AsksFit, SawFits
    <2> QED BY <1>0, <2>2, <2>3, <2>4, <2>6, <2>7, PlugCallStep
  <1>6. ASSUME NEW c \in Caller, Plug!MarksOffline(c) PROVE PlugInv'
    <2> DEFINE a == [call[c] EXCEPT !.at = "asked"]
               w == Plug!Without(a)
    <2>1. /\ call[c].at = "failed" /\ call' = [call EXCEPT ![c] = w]
          /\ UNCHANGED <<relay, told>> /\ cached' = [cached EXCEPT !.online = FALSE]
          BY <1>6 DEF Plug!MarksOffline, Plug!plug
    <2>2. cached'.on = cached.on
          BY <2>1
    <2>3. call[c] \in CallRec /\ AsksFit(call[c]) /\ SawFits(call[c]) /\ call[c].was = met
          BY <1>a, <2>1 DEF CallFits
    <2>4. /\ a \in CallRec /\ a.at = "asked" /\ a.was = met /\ a.for = call[c].for /\ a.ask = call[c].ask
          /\ a.saw = call[c].saw /\ a.want = call[c].want /\ a.fresh = call[c].fresh
          BY <2>3 DEF CallRec
    <2> HIDE DEF a
    <2>5. CallFits(a)
          BY <2>1, <2>3, <2>4 DEF CallFits, AsksFit, SawFits
    <2>6. w \in CallRec /\ CallFits(w) /\ (w.at # "idle" => w.was = met) /\ ~(w.at = "snapshot" /\ w.fresh)
          BY <2>4, <2>5, WithoutFits
    <2> HIDE DEF w
    <2> QED BY <1>0, <1>a, <1>b, <2>1, <2>2, <2>6, CallStep
  <1>7. ASSUME NEW c \in Caller, Plug!Seen(c) PROVE PlugInv'
    <2> DEFINE a == call[c]
               r == CASE a.for = "list" -> [a EXCEPT !.at = "snapshot"]
                      [] a.for = "flip" /\ a.ask = "All" -> Plug!Flips(a)
                      [] OTHER -> Plug!Quiet
    <2>1. /\ a.at = "seen" /\ relay' = relay
          /\ cached'.on = IF a.for = "other" THEN cached.on ELSE a.saw
          /\ call' = [call EXCEPT ![c] = r]
          /\ \/ /\ a.for \in {"is_on", "status"} \cup Plug!Order \/ (a.for = "flip" /\ a.ask # "All")
                /\ Plug!Tells(c, a.saw)
             \/ UNCHANGED told
          BY <1>7 DEF Plug!Seen, Plug!plug
    <2>2. a \in CallRec /\ AsksFit(a) /\ SawFits(a) /\ a.was = met
          BY <1>a, <2>1 DEF CallFits
    <2>3. a.for # "other" => a.saw \in met
          BY <2>1, <2>2 DEF SawFits
    <2>4. /\ cached'.on \in BOOLEAN
          /\ cached'.on = cached.on \/ cached'.on \in met
          BY <1>a, <2>1, <2>2, <2>3 DEF CallRec
    <2>5. Plug!ToldAsItWas'
      <3>1. CASE a.for \in {"is_on", "status"} \cup Plug!Order \/ (a.for = "flip" /\ a.ask # "All")
        <4>1. a.saw \in a.was
              BY <2>2, <2>3, <3>1 DEF Plug!Order
        <4> QED BY <1>b, <2>1, <4>1 DEF Plug!ToldAsItWas, Plug!Tells
      <3>2. CASE ~(a.for \in {"is_on", "status"} \cup Plug!Order \/ (a.for = "flip" /\ a.ask # "All"))
            BY <1>b, <1>7, <3>2 DEF Plug!Seen
      <3> QED BY <3>1, <3>2
    <2>6. /\ r \in CallRec /\ CallFits(r) /\ (r.at # "idle" => r.was = met)
          /\ r.at = "snapshot" /\ r.fresh => cached'.on \in met
      <3>1. CASE a.for = "list"
        <4>1. r = [a EXCEPT !.at = "snapshot"]
              BY <3>1
        <4> HIDE DEF r
        <4>2. /\ r \in CallRec /\ r.at = "snapshot" /\ r.was = met /\ r.for = a.for /\ r.ask = a.ask
              BY <2>2, <4>1 DEF CallRec
        <4>3. CallFits(r)
              BY <2>2, <3>1, <4>2 DEF CallFits, AsksFit, SawFits, Plug!Order
        <4> QED BY <2>1, <2>3, <3>1, <4>2, <4>3
      <3>2. CASE a.for # "list" /\ a.for = "flip" /\ a.ask = "All"
        <4>1. r = Plug!Flips(a)
              BY <3>2
        <4>2. (~a.saw) \in BOOLEAN
              OBVIOUS
        <4> HIDE DEF r
        <4>3. /\ r \in CallRec /\ r.at = "asked" /\ r.was = met /\ r.for = "flip" /\ r.ask = "ToggleX"
              /\ r.saw = (~a.saw) /\ r.want = (~a.saw)
              BY <2>2, <3>2, <4>1, <4>2 DEF Plug!Flips, CallRec
        <4>4. CallFits(r)
              BY <4>3 DEF CallFits, AsksFit, SawFits, Plug!Order, Plug!Call, Plug!Reading
        <4> QED BY <4>3, <4>4
      <3>3. CASE a.for # "list" /\ ~(a.for = "flip" /\ a.ask = "All")
        <4>1. r = Plug!Quiet
              BY <3>3
        <4> QED BY <4>1, QuietCall
      <3> QED BY <3>1, <3>2, <3>3
    <2> HIDE DEF r
    <2> QED BY <1>0, <1>a, <2>1, <2>4, <2>5, <2>6, CallStep
  <1>8. ASSUME NEW c \in Caller, Plug!Snapshot(c) PROVE PlugInv'
    <2>1. call[c].at = "snapshot" /\ call' = [call EXCEPT ![c] = Plug!Quiet] /\ UNCHANGED <<relay, cached>>
          BY <1>8 DEF Plug!Snapshot, Plug!plug
    <2>2. Plug!ToldAsItWas'
      <3>1. CASE cached.online /\ call[c].fresh
        <4>1. cached.on \in call[c].was
              BY <2>1, <3>1 DEF PlugInv
        <4> QED BY <1>8, <3>1, <4>1 DEF Plug!Snapshot, Plug!Tells, Plug!ToldAsItWas
      <3>2. CASE ~(cached.online /\ call[c].fresh)
            BY <1>b, <1>8, <3>2 DEF Plug!Snapshot
      <3> QED BY <3>1, <3>2
    <2> QED BY <1>0, <1>a, <2>1, <2>2, QuietCall, CallStep
  <1>9. ASSUME NEW c \in Caller, Plug!Dropped(c) PROVE PlugInv'
    <2>1. call' = [call EXCEPT ![c] = Plug!Quiet] /\ UNCHANGED <<relay, cached, told>>
          BY <1>9 DEF Plug!Dropped, Plug!plug
    <2> QED BY <1>0, <1>a, <1>b, <2>1, QuietCall, CallStep
  <1> QED BY <1>1, <1>2, <1>3, <1>4, <1>5, <1>6, <1>7, <1>8, <1>9 DEF Plug!PlugNext

-----------------------------------------------------------------------------
(* A session with the box.                                                 *)

Messages == [what : {"configure", "activate", "ping", "key"}, key : Nat]

SesTypes ==
    /\ said \in Seq(Messages) /\ incoming \in Seq(Messages) /\ commands \in Seq(Messages) /\ heard \in Seq(Messages)
    /\ did \in Seq(Nat) /\ accepted \in Nat
    /\ sess \in {"hello", "open", "over"} /\ tv \in {"new", "configuring", "activating", "active", "gone"}

Only(s, what) == \A i \in 1 .. Len(s) : s[i].what = what

\* The TV drives: one message of the two that open a session is under way at a time, and no key
\* comes before the second is answered.
Opening ==
    /\ tv \in {"new", "configuring"} \/ (tv = "activating" /\ sess # "open") =>
         /\ sess # "open" /\ commands = <<>>
         /\ Len(said) + Len(incoming) + Len(heard) <= IF tv = "new" THEN 0 ELSE 1
    /\ tv = "configuring" => Only(said, "configure") /\ Only(incoming, "configure") /\ Only(heard, "configure")
    /\ tv = "activating" /\ sess # "open" => heard = <<>> /\ Only(said, "activate") /\ Only(incoming, "activate")
    /\ tv = "activating" /\ sess = "open" =>
         /\ said = <<>> /\ incoming = <<>>
         /\ heard # <<>> /\ heard[1].what = "activate"
         /\ \A i \in 2 .. Len(heard) : heard[i].what = "key"
    /\ tv = "active" =>
         /\ Only(said, "ping") /\ Only(incoming, "ping")
         /\ \A i \in 1 .. Len(heard) : heard[i].what \in {"ping", "key"}

\* How many keys were written.
Sent == accepted - Len(commands)

IsKey(i) == i \in 1 .. Len(heard) /\ heard[i].what = "key"

\* What the channel holds is the last keys accepted, and what the TV has yet to hear are those
\* between: all of them, in order.
KeysFit ==
    /\ Len(commands) <= accepted
    /\ \A i \in 1 .. Len(commands) : commands[i].what = "key" /\ commands[i].key = Sent + i
    /\ Len(did) <= Sent
    /\ \A i \in 1 .. Len(heard) : IsKey(i) => Len(did) < heard[i].key /\ heard[i].key <= Sent
    /\ \A i, j \in 1 .. Len(heard) : IsKey(i) /\ IsKey(j) /\ i < j => heard[i].key < heard[j].key
    /\ \A k \in Nat : Len(did) < k /\ k <= Sent => \E i \in 1 .. Len(heard) : IsKey(i) /\ heard[i].key = k

SesInv ==
    /\ SesTypes
    /\ Ses!KeysInOrder
    /\ tv # "gone" => Opening /\ KeysFit

\* The first state of a session: no key on its way.
LEMMA SesInit == Ses!Init => SesInv
  BY DEF Ses!Init, SesInv, SesTypes, Ses!KeysInOrder, Opening, KeysFit, Only, Sent, IsKey

\* The TV hears a key, the next one.
LEMMA HearsKey ==
    ASSUME SesInv, tv # "gone", heard # <<>>, Head(heard).what = "key", tv = "active",
           heard' = Tail(heard), did' = Append(did, Head(heard).key), UNCHANGED <<commands, accepted>>
    PROVE  KeysFit' /\ Ses!KeysInOrder' /\ Head(heard).key = Len(did) + 1
  <1> DEFINE n == Len(did)
             h == heard[1]
  <1>0. /\ heard \in Seq(Messages) /\ did \in Seq(Nat) /\ accepted \in Nat /\ commands \in Seq(Messages)
        /\ KeysFit /\ Ses!KeysInOrder
        BY DEF SesInv, SesTypes
  <1>1. Len(heard) \in Nat /\ Len(heard) >= 1 /\ Head(heard) = h /\ IsKey(1) /\ n \in Nat /\ Sent \in Int
        BY <1>0 DEF IsKey, Sent
  <1>a. \A j \in 1 .. Len(heard) : heard[j].key \in Nat
    <2>1. \A j \in 1 .. Len(heard) : heard[j] \in Messages
          BY <1>0
    <2> QED BY <2>1 DEF Messages
  <1>2. h.key \in Nat /\ n < h.key /\ h.key <= Sent
    <2>1. 1 \in 1 .. Len(heard) BY <1>1
    <2> QED BY <1>0, <1>1, <1>a, <2>1 DEF KeysFit
  <1>3. PICK i \in 1 .. Len(heard) : IsKey(i) /\ heard[i].key = n + 1
    <2>1. n + 1 \in Nat /\ n < n + 1 /\ n + 1 <= Sent BY <1>1, <1>2
    <2> QED BY <1>0, <2>1 DEF KeysFit
  <1>4. h.key = n + 1
    <2>1. CASE i = 1 BY <1>3, <2>1
    <2>2. CASE i # 1
      <3>1. 1 < i /\ 1 \in 1 .. Len(heard) BY <1>1, <2>2
      <3>2. heard[1].key < heard[i].key BY <1>0, <1>1, <1>3, <3>1 DEF KeysFit
      <3> QED BY <1>1, <1>2, <1>3, <3>2
    <2> QED BY <2>1, <2>2
  <1>5. /\ heard' \in Seq(Messages) /\ Len(heard') = Len(heard) - 1
        /\ \A j \in 1 .. Len(heard') : heard'[j] = heard[j + 1]
        BY <1>0, <1>1
  <1>6. /\ Len(did') = n + 1 /\ did'[n + 1] = n + 1 /\ \A j \in 1 .. n : did'[j] = did[j]
        /\ did' \in Seq(Nat)
        BY <1>0, <1>1, <1>2, <1>4
  <1>7. Sent' = Sent
        BY DEF Sent
  <1>8. \A j \in 1 .. Len(heard') : IsKey(j)' <=> IsKey(j + 1)
        BY <1>1, <1>5 DEF IsKey
  <1>9. Ses!KeysInOrder'
    <2>1. \A j \in 1 .. n : did[j] = j BY <1>0 DEF Ses!KeysInOrder
    <2>2. \A j \in 1 .. n + 1 : did'[j] = j BY <1>1, <1>6, <2>1
    <2>3. did' = [j \in 1 .. n + 1 |-> did'[j]] BY <1>6
    <2>4. did' = [j \in 1 .. Len(did') |-> j] BY <1>6, <2>2, <2>3
    <2>5. n + 1 <= accepted' BY <1>0, <1>1, <1>2, <1>4 DEF Sent
    <2> QED BY <1>6, <2>4, <2>5 DEF Ses!KeysInOrder
  <1>10. KeysFit'
    <2>1. Len(did') <= Sent' BY <1>2, <1>4, <1>6, <1>7
    <2>2. ASSUME NEW j \in 1 .. Len(heard'), IsKey(j)'
          PROVE  Len(did') < heard'[j].key /\ heard'[j].key <= Sent'
      <3>1. /\ j + 1 \in 1 .. Len(heard) /\ 1 \in 1 .. Len(heard) /\ IsKey(j + 1) /\ 1 < j + 1
            /\ heard'[j] = heard[j + 1]
            BY <1>1, <1>5, <1>8, <2>2
      <3>2. heard[1].key < heard[j + 1].key /\ heard[j + 1].key <= Sent
            BY <1>0, <1>1, <3>1 DEF KeysFit
      <3>3. heard[j + 1].key \in Nat BY <1>a, <3>1
      <3> QED BY <1>1, <1>4, <1>6, <1>7, <3>1, <3>2, <3>3
    <2>3. ASSUME NEW j \in 1 .. Len(heard'), NEW l \in 1 .. Len(heard'), IsKey(j)', IsKey(l)', j < l
          PROVE  heard'[j].key < heard'[l].key
      <3>1. /\ j + 1 \in 1 .. Len(heard) /\ l + 1 \in 1 .. Len(heard) /\ IsKey(j + 1) /\ IsKey(l + 1) /\ j + 1 < l + 1
            BY <1>1, <1>5, <1>8, <2>3
      <3>2. heard[j + 1].key < heard[l + 1].key
            BY <1>0, <3>1 DEF KeysFit
      <3> QED BY <1>5, <3>2
    <2>4. ASSUME NEW k \in Nat, Len(did') < k, k <= Sent'
          PROVE  \E j \in 1 .. Len(heard') : IsKey(j)' /\ heard'[j].key = k
      <3>1. n < k /\ k <= Sent /\ k # n + 1 BY <1>1, <1>6, <1>7, <2>4
      <3>2. PICK l \in 1 .. Len(heard) : IsKey(l) /\ heard[l].key = k
            BY <1>0, <3>1 DEF KeysFit
      <3>3. l # 1 BY <1>1, <1>4, <3>1, <3>2
      <3>4. l - 1 \in 1 .. Len(heard') /\ heard'[l - 1] = heard[l] /\ IsKey(l - 1)'
            BY <1>1, <1>5, <1>8, <3>2, <3>3
      <3> QED BY <3>2, <3>4
    <2> QED BY <1>0, <1>7, <2>1, <2>2, <2>3, <2>4 DEF KeysFit
  <1> QED BY <1>1, <1>4, <1>9, <1>10

\* What is no key changes nothing of what the keys are at.
LEMMA KeysStay ==
    ASSUME SesTypes, KeysFit, UNCHANGED <<commands, accepted, did>>,
           NEW m \in Messages, m.what # "key", heard' = heard \/ heard' = Append(heard, m) \/
             (heard # <<>> /\ Head(heard).what # "key" /\ heard' = Tail(heard))
    PROVE  KeysFit'
  <1>1. heard \in Seq(Messages) /\ commands \in Seq(Messages) /\ did \in Seq(Nat) /\ accepted \in Nat /\ Sent' = Sent
        BY DEF SesTypes, Sent
  <1>2. CASE heard' = heard
        BY <1>1, <1>2 DEF KeysFit, IsKey
  <1>3. CASE heard' = Append(heard, m)
    <2>1. /\ Len(heard') = Len(heard) + 1 /\ heard'[Len(heard) + 1] = m
          /\ \A i \in 1 .. Len(heard) : heard'[i] = heard[i]
          BY <1>1, <1>3
    <2>2. \A i \in 1 .. Len(heard') : IsKey(i)' => i \in 1 .. Len(heard) /\ IsKey(i)
          BY <1>1, <2>1 DEF IsKey
    <2>3. \A i \in 1 .. Len(heard) : i \in 1 .. Len(heard') /\ (IsKey(i) => IsKey(i)')
          BY <1>1, <2>1 DEF IsKey
    <2> QED BY <1>1, <2>1, <2>2, <2>3 DEF KeysFit
  <1>4. CASE heard # <<>> /\ Head(heard).what # "key" /\ heard' = Tail(heard)
    <2>1. /\ Len(heard') = Len(heard) - 1 /\ Len(heard) \in Nat /\ Len(heard) >= 1 /\ Head(heard) = heard[1]
          /\ \A i \in 1 .. Len(heard') : heard'[i] = heard[i + 1] /\ i + 1 \in 1 .. Len(heard)
          BY <1>1, <1>4
    <2>2. \A i \in 1 .. Len(heard') : IsKey(i)' => IsKey(i + 1)
          BY <1>1, <2>1 DEF IsKey
    <2>3. ASSUME NEW i \in 1 .. Len(heard), IsKey(i)
          PROVE  i - 1 \in 1 .. Len(heard') /\ IsKey(i - 1)' /\ heard'[i - 1] = heard[i]
      <3>1. i # 1 BY <1>4, <2>1, <2>3 DEF IsKey
      <3>2. i - 1 \in 1 .. Len(heard') BY <2>1, <3>1
      <3>3. heard'[i - 1] = heard[i] BY <2>1, <3>2
      <3> QED BY <2>3, <3>2, <3>3 DEF IsKey
    <2>4. ASSUME NEW i \in 1 .. Len(heard'), NEW j \in 1 .. Len(heard'), IsKey(i)', IsKey(j)', i < j
          PROVE  heard'[i].key < heard'[j].key
      <3>1. i + 1 \in 1 .. Len(heard) /\ j + 1 \in 1 .. Len(heard) /\ i + 1 < j + 1 /\ IsKey(i + 1) /\ IsKey(j + 1)
            BY <2>1, <2>2, <2>4
      <3>2. heard[i + 1].key < heard[j + 1].key BY <3>1 DEF KeysFit
      <3> QED BY <2>1, <3>2
    <2>5. ASSUME NEW i \in 1 .. Len(heard'), IsKey(i)'
          PROVE  Len(did') < heard'[i].key /\ heard'[i].key <= Sent'
          BY <1>1, <2>1, <2>2, <2>5 DEF KeysFit
    <2>6. ASSUME NEW k \in Nat, Len(did') < k, k <= Sent'
          PROVE  \E i \in 1 .. Len(heard') : IsKey(i)' /\ heard'[i].key = k
      <3>1. PICK i \in 1 .. Len(heard) : IsKey(i) /\ heard[i].key = k
            BY <1>1, <2>6 DEF KeysFit
      <3> QED BY <2>3, <3>1
    <2> QED BY <1>1, <2>4, <2>5, <2>6 DEF KeysFit
  <1> QED BY <1>2, <1>3, <1>4

\* A key pressed is the next one accepted.
LEMMA PressFits ==
    ASSUME SesTypes, KeysFit, accepted' = accepted + 1, commands' = Append(commands, Ses!Msg("key", accepted')),
           UNCHANGED <<heard, did>>
    PROVE  KeysFit' /\ commands' \in Seq(Messages) /\ commands' # <<>>
  <1>1. heard \in Seq(Messages) /\ commands \in Seq(Messages) /\ did \in Seq(Nat) /\ accepted \in Nat
        BY DEF SesTypes
  <1> DEFINE m == Ses!Msg("key", accepted + 1)
  <1>2. m \in Messages /\ m.what = "key" /\ m.key = accepted + 1
        BY <1>1 DEF Ses!Msg, Messages
  <1>a. commands' = Append(commands, m)
        OBVIOUS
  <1> HIDE DEF m
  <1>3. /\ commands' \in Seq(Messages) /\ Len(commands') = Len(commands) + 1 /\ commands'[Len(commands) + 1] = m
        /\ \A i \in 1 .. Len(commands) : commands'[i] = commands[i]
        BY <1>1, <1>2, <1>a
  <1>4. Sent' = Sent /\ Sent \in Int /\ Len(commands) \in Nat
        BY <1>1, <1>3 DEF Sent
  <1>5. \A i \in 1 .. Len(commands') : commands'[i].what = "key" /\ commands'[i].key = Sent' + i
    <2> TAKE i \in 1 .. Len(commands')
    <2>1. CASE i = Len(commands) + 1 BY <1>1, <1>2, <1>3, <1>4, <2>1 DEF Sent
    <2>2. CASE i # Len(commands) + 1
      <3>1. i \in 1 .. Len(commands) BY <1>3, <1>4, <2>2
      <3> QED BY <1>3, <1>4, <3>1 DEF KeysFit
    <2> QED BY <2>1, <2>2
  <1>6. Len(commands') <= accepted' BY <1>1, <1>3 DEF KeysFit
  <1> QED BY <1>3, <1>4, <1>5, <1>6 DEF KeysFit, IsKey

\* A key that is written is the last the TV will hear.
LEMMA SendFits ==
    ASSUME SesTypes, KeysFit, commands # <<>>, heard' = Append(heard, Head(commands)),
           commands' = Tail(commands), UNCHANGED <<accepted, did>>
    PROVE  KeysFit' /\ Head(commands) \in Messages /\ Head(commands).what = "key"
  <1>1. heard \in Seq(Messages) /\ commands \in Seq(Messages) /\ did \in Seq(Nat) /\ accepted \in Nat
        BY DEF SesTypes
  <1> DEFINE m == Head(commands)
  <1>n. PICK n \in Nat : n = Len(heard)
        BY <1>1
  <1>2. Len(commands) \in Nat /\ Len(commands) >= 1 /\ m = commands[1] /\ m \in Messages /\ n \in Nat /\ Sent \in Nat
        /\ Len(did) \in Nat
        BY <1>1, <1>n DEF KeysFit, Sent
  <1>3. m.what = "key" /\ m.key = Sent + 1
        BY <1>2 DEF KeysFit
  <1>4. /\ Len(commands') = Len(commands) - 1
        /\ \A i \in 1 .. Len(commands') : i + 1 \in 1 .. Len(commands) /\ commands'[i] = commands[i + 1]
        BY <1>1, <1>2
  <1>5. Sent' = Sent + 1 BY <1>1, <1>4 DEF Sent
  <1>6. Len(heard') = n + 1 /\ heard'[n + 1] = m /\ \A i \in 1 .. n : heard'[i] = heard[i]
        BY <1>n, <1>1, <1>2
  <1> HIDE DEF m
  <1>7. \A i \in 1 .. n : (IsKey(i)' <=> IsKey(i)) /\ i \in 1 .. Len(heard) /\ i \in 1 .. Len(heard')
        BY <1>n, <1>2, <1>6 DEF IsKey
  <1>8. IsKey(n + 1)'
        BY <1>2, <1>3, <1>6 DEF IsKey
  <1>9. \A i \in 1 .. Len(heard') : i \in 1 .. n \/ i = n + 1
        BY <1>2, <1>6
  <1>10. \A i \in 1 .. Len(commands') : commands'[i].what = "key" /\ commands'[i].key = Sent' + i
        BY <1>2, <1>4, <1>5 DEF KeysFit
  <1>11. Len(commands') <= accepted' /\ Len(did') <= Sent'
        BY <1>1, <1>2, <1>4, <1>5 DEF KeysFit
  <1>12. \A i \in 1 .. n : IsKey(i) => heard[i].key \in Int
    <2>1. \A i \in 1 .. n : heard[i] \in Messages BY <1>n, <1>1
    <2> QED BY <2>1 DEF Messages
  <1>13. \A i \in 1 .. Len(heard') : IsKey(i)' => Len(did') < heard'[i].key /\ heard'[i].key <= Sent'
    <2> SUFFICES ASSUME NEW i \in 1 .. Len(heard'), IsKey(i)' PROVE Len(did') < heard'[i].key /\ heard'[i].key <= Sent'
        OBVIOUS
    <2>1. CASE i = n + 1 BY <1>2, <1>3, <1>5, <1>6, <2>1 DEF KeysFit
    <2>2. CASE i \in 1 .. n
      <3>1. Len(did) < heard[i].key /\ heard[i].key <= Sent /\ heard[i].key \in Int
            BY <1>7, <1>12, <2>2 DEF KeysFit
      <3> QED BY <1>2, <1>5, <1>6, <2>2, <3>1
    <2> QED BY <1>9, <2>1, <2>2
  <1>14. \A i, j \in 1 .. Len(heard') : IsKey(i)' /\ IsKey(j)' /\ i < j => heard'[i].key < heard'[j].key
    <2> SUFFICES ASSUME NEW i \in 1 .. Len(heard'), NEW j \in 1 .. Len(heard'), IsKey(i)', IsKey(j)', i < j
                 PROVE  heard'[i].key < heard'[j].key
        OBVIOUS
    <2>1. i \in 1 .. n BY <1>2, <1>6, <1>9
    <2>2. heard[i].key \in Int /\ heard[i].key <= Sent BY <1>7, <1>12, <2>1 DEF KeysFit
    <2>3. CASE j = n + 1 BY <1>2, <1>3, <1>6, <2>1, <2>2, <2>3
    <2>4. CASE j \in 1 .. n
      <3>1. heard[i].key < heard[j].key BY <1>7, <2>1, <2>4 DEF KeysFit
      <3> QED BY <1>6, <2>1, <2>4, <3>1
    <2> QED BY <1>9, <2>3, <2>4
  <1>15. \A k \in Nat : Len(did') < k /\ k <= Sent' => \E i \in 1 .. Len(heard') : IsKey(i)' /\ heard'[i].key = k
    <2> SUFFICES ASSUME NEW k \in Nat, Len(did') < k, k <= Sent'
                 PROVE  \E i \in 1 .. Len(heard') : IsKey(i)' /\ heard'[i].key = k
        OBVIOUS
    <2>1. CASE k = Sent + 1
      <3>1. n + 1 \in 1 .. Len(heard') BY <1>2, <1>6
      <3> QED BY <1>3, <1>6, <1>8, <2>1, <3>1
    <2>2. CASE k # Sent + 1
      <3>1. k <= Sent BY <1>2, <1>5, <2>2
      <3>2. PICK i \in 1 .. Len(heard) : IsKey(i) /\ heard[i].key = k
            BY <3>1 DEF KeysFit
      <3>3. i \in 1 .. n BY <1>n
      <3> QED BY <1>6, <1>7, <3>2, <3>3
    <2> QED BY <2>1, <2>2
  <1> QED BY <1>2, <1>3, <1>10, <1>11, <1>13, <1>14, <1>15 DEF KeysFit, m

\* The facts a step of the session starts from.
SesFacts ==
    /\ said \in Seq(Messages) /\ incoming \in Seq(Messages) /\ commands \in Seq(Messages) /\ heard \in Seq(Messages)
    /\ \A s \in {said, incoming, commands, heard} : Len(s) \in Nat
    /\ \A s \in {said, incoming, commands, heard} : s # <<>> =>
         /\ Len(s) >= 1 /\ Head(s) = s[1] /\ Head(s) \in Messages
         /\ Tail(s) \in Seq(Messages) /\ Len(Tail(s)) = Len(s) - 1
         /\ \A i \in 1 .. Len(Tail(s)) : i + 1 \in 1 .. Len(s) /\ Tail(s)[i] = s[i + 1]
    /\ \A s \in {said, incoming, commands, heard} : \A m \in Messages :
         /\ Append(s, m) \in Seq(Messages) /\ Append(s, m) # <<>> /\ Len(Append(s, m)) = Len(s) + 1
         /\ Append(s, m)[Len(s) + 1] = m /\ \A i \in 1 .. Len(s) : Append(s, m)[i] = s[i]

\* What the types say of the sequences of a session.
LEMMA SesHas == SesTypes => SesFacts
  <1>1. ASSUME NEW s \in Seq(Messages), s # <<>>
        PROVE  /\ Len(s) >= 1 /\ Head(s) = s[1] /\ Head(s) \in Messages
               /\ Tail(s) \in Seq(Messages) /\ Len(Tail(s)) = Len(s) - 1
               /\ \A i \in 1 .. Len(Tail(s)) : i + 1 \in 1 .. Len(s) /\ Tail(s)[i] = s[i + 1]
        BY <1>1
  <1>2. ASSUME NEW s \in Seq(Messages), NEW m \in Messages
        PROVE  /\ Append(s, m) \in Seq(Messages) /\ Append(s, m) # <<>> /\ Len(Append(s, m)) = Len(s) + 1
               /\ Append(s, m)[Len(s) + 1] = m /\ \A i \in 1 .. Len(s) : Append(s, m)[i] = s[i]
        BY <1>2
  <1>3. SesTypes => \A s \in {said, incoming, commands, heard} : s \in Seq(Messages) /\ Len(s) \in Nat
        BY DEF SesTypes
  <1> QED BY <1>1, <1>2, <1>3 DEF SesFacts, SesTypes

\* What all say the same of, one more and one less say too.
LEMMA OnlyGoes ==
    ASSUME NEW s \in Seq(Messages), NEW m \in Messages, NEW w
    PROVE  /\ Only(s, w) /\ s # <<>> => Only(Tail(s), w) /\ Head(s).what = w
           /\ Only(s, w) /\ m.what = w => Only(Append(s, m), w)
  <1>1. ASSUME Only(s, w), s # <<>> PROVE Only(Tail(s), w) /\ Head(s).what = w
    <2>1. /\ Len(s) >= 1 /\ Len(s) \in Nat /\ Head(s) = s[1] /\ Len(Tail(s)) = Len(s) - 1
          /\ \A i \in 1 .. Len(Tail(s)) : i + 1 \in 1 .. Len(s) /\ Tail(s)[i] = s[i + 1]
          BY <1>1
    <2> QED BY <1>1, <2>1 DEF Only
  <1>2. ASSUME Only(s, w), m.what = w PROVE Only(Append(s, m), w)
    <2>1. /\ Len(Append(s, m)) = Len(s) + 1 /\ Len(s) \in Nat
          /\ Append(s, m)[Len(s) + 1] = m /\ \A i \in 1 .. Len(s) : Append(s, m)[i] = s[i]
          OBVIOUS
    <2> QED BY <1>2, <2>1 DEF Only
  <1> QED BY <1>1, <1>2

\* Both sides of the session keep it, whatever the channels hold and whoever goes.
LEMMA SesNext == SesInv /\ Ses!Next => SesInv'
  <1> SUFFICES ASSUME SesInv, Ses!Next PROVE SesInv'
      OBVIOUS
  <1>1. SesTypes /\ SesFacts /\ Ses!KeysInOrder /\ (tv # "gone" => Opening /\ KeysFit)
        BY SesHas DEF SesInv
  <1>a. UNCHANGED <<did, accepted>> => Ses!KeysInOrder'
        BY <1>1 DEF Ses!KeysInOrder
  <1>b. UNCHANGED <<commands, accepted, did, heard>> /\ KeysFit => KeysFit'
        BY DEF KeysFit, Sent, IsKey
  <1>c. CASE Ses!Read
    <2>1. /\ said # <<>> /\ incoming' = Append(incoming, Head(said)) /\ said' = Tail(said)
          /\ UNCHANGED <<sess, commands, heard, tv, accepted, did>>
          BY <1>c DEF Ses!Read
    <2>2. SesTypes'
          BY <1>1, <2>1 DEF SesTypes, SesFacts
    <2>3. \A w : Only(said, w) /\ Only(incoming, w) => Only(said', w) /\ Only(incoming', w)
          BY <1>1, <2>1, OnlyGoes DEF SesFacts
    <2>4. Len(said') = Len(said) - 1 /\ Len(incoming') = Len(incoming) + 1 /\ Len(heard) \in Nat
          BY <1>1, <2>1 DEF SesFacts
    <2>5. ASSUME tv # "gone" PROVE Opening'
      <3>1. Len(said) \in Nat /\ Len(incoming) \in Nat /\ Len(said') + Len(incoming') = Len(said) + Len(incoming)
            BY <1>1, <2>4 DEF SesFacts
      <3>2. heard' = heard /\ tv' = tv /\ sess' = sess /\ commands' = commands
            BY <2>1
      <3>3. ~(tv = "activating" /\ sess = "open")
            BY <1>1, <2>1, <2>5 DEF Opening
      <3> QED BY <1>1, <2>3, <2>4, <2>5, <3>1, <3>2, <3>3 DEF Opening
    <2> QED BY <1>1, <1>a, <1>b, <2>1, <2>2, <2>5 DEF SesInv
  <1>d. CASE Ses!Silence \/ Ses!LetGo
    <2>1. UNCHANGED <<sess, said, incoming, commands, heard, tv, accepted, did>>
          BY <1>d DEF Ses!Silence, Ses!LetGo
    <2> QED BY <1>1, <1>a, <1>b, <2>1 DEF SesInv, SesTypes, Opening, Only
  <1>e. CASE Ses!Answer
    <2> DEFINE m == Head(incoming)
    <2>1. /\ sess # "over" /\ incoming # <<>>
          /\ heard' = IF tv = "gone" THEN heard ELSE Append(heard, m)
          /\ sess' = IF m.what = "activate" THEN "open" ELSE sess
          /\ incoming' = Tail(incoming)
          /\ UNCHANGED <<said, commands, tv, accepted, did>>
          BY <1>e DEF Ses!Answer, Ses!Ready
    <2>2. m \in Messages /\ m = incoming[1] /\ 1 \in 1 .. Len(incoming)
          BY <1>1, <2>1 DEF SesFacts
    <2>3. SesTypes'
          BY <1>1, <2>1, <2>2 DEF SesTypes, SesFacts
    <2> HIDE DEF m
    <2>4. ASSUME tv # "gone" PROVE Opening' /\ m.what # "key"
      <3>1. /\ heard' = Append(heard, m) /\ Len(heard') = Len(heard) + 1 /\ heard'[Len(heard) + 1] = m
            /\ \A i \in 1 .. Len(heard) : heard'[i] = heard[i]
            /\ Len(incoming') = Len(incoming) - 1 /\ Len(incoming) \in Nat /\ Len(heard) \in Nat /\ Len(said) \in Nat
            /\ Len(incoming) >= 1
            BY <1>1, <2>1, <2>2, <2>4 DEF SesFacts
      <3>2. \A w : Only(incoming, w) => Only(incoming', w) /\ m.what = w
            BY <1>1, <2>1, OnlyGoes DEF SesFacts, m
      <3>3. \A w : Only(heard, w) /\ m.what = w => Only(heard', w)
            BY <1>1, <2>2, <3>1, OnlyGoes DEF SesFacts
      <3>4. Opening BY <1>1, <2>4
      <3>5. tv # "new" BY <3>1, <3>4 DEF Opening
      <3>6. CASE tv = "configuring"
        <4>1. m.what = "configure" /\ sess' # "open" BY <2>1, <3>2, <3>4, <3>6 DEF Opening
        <4> QED BY <2>1, <3>1, <3>2, <3>3, <3>4, <3>6, <4>1 DEF Opening
      <3>7. CASE tv = "activating"
        <4>1. sess # "open" /\ heard = <<>> BY <2>1, <3>4, <3>7 DEF Opening
        <4>2. m.what = "activate" /\ sess' = "open" BY <2>1, <3>2, <3>4, <3>7, <4>1 DEF Opening
        <4>3. Len(incoming') = 0 /\ Len(said) = 0 /\ Len(heard) = 0
              BY <3>1, <3>4, <3>7, <4>1 DEF Opening
        <4>4. said' = <<>> /\ incoming' = <<>>
              BY <1>1, <2>1, <2>3, <4>3 DEF SesFacts, SesTypes
        <4>5. heard' # <<>> /\ heard'[1].what = "activate" /\ Len(heard') = 1
              BY <1>1, <2>2, <3>1, <4>2, <4>3 DEF SesFacts
        <4> QED BY <2>1, <3>7, <4>2, <4>4, <4>5 DEF Opening
      <3>8. CASE tv = "active"
        <4>1. m.what = "ping" BY <3>2, <3>4, <3>8 DEF Opening
        <4>2. \A i \in 1 .. Len(heard') : heard'[i].what \in {"ping", "key"}
          <5> TAKE i \in 1 .. Len(heard')
          <5>1. i \in 1 .. Len(heard) \/ i = Len(heard) + 1 BY <3>1
          <5> QED BY <3>1, <3>4, <3>8, <4>1, <5>1 DEF Opening
        <4> QED BY <2>1, <3>2, <3>4, <3>8, <4>1, <4>2 DEF Opening
      <3> QED BY <1>1, <2>4, <3>5, <3>6, <3>7, <3>8 DEF SesTypes
    <2>5. tv # "gone" => KeysFit'
          BY <1>1, <2>1, <2>2, <2>4, KeysStay DEF m
    <2> QED BY <1>a, <2>1, <2>3, <2>4, <2>5 DEF SesInv
  <1>f. CASE Ses!Press
    <2>1. /\ sess = "open" /\ accepted' = accepted + 1 /\ commands' = Append(commands, Ses!Msg("key", accepted'))
          /\ UNCHANGED <<sess, said, incoming, heard, tv, did>>
          BY <1>f DEF Ses!Press
    <2>2. Ses!Msg("key", accepted') \in Messages /\ accepted' \in Nat
          BY <1>1, <2>1 DEF Ses!Msg, Messages, SesTypes
    <2>3. SesTypes'
          BY <1>1, <2>1, <2>2 DEF SesTypes, SesFacts
    <2>4. Ses!KeysInOrder'
          BY <1>1, <2>1 DEF Ses!KeysInOrder, SesTypes
    <2>5. tv # "gone" => Opening' /\ KeysFit'
          BY <1>1, <2>1, PressFits DEF Opening, Only
    <2> QED BY <2>1, <2>3, <2>4, <2>5 DEF SesInv
  <1>g. CASE Ses!Send
    <2> DEFINE m == Head(commands)
    <2>1. /\ commands # <<>> /\ heard' = IF tv = "gone" THEN heard ELSE Append(heard, m)
          /\ commands' = Tail(commands) /\ UNCHANGED <<sess, said, incoming, tv, accepted, did>>
          BY <1>g DEF Ses!Send
    <2>2. m \in Messages /\ SesTypes'
          BY <1>1, <2>1 DEF SesTypes, SesFacts
    <2>3. ASSUME tv # "gone" PROVE KeysFit' /\ m.what = "key"
          BY <1>1, <2>1, <2>3, SendFits
    <2> HIDE DEF m
    <2>4. ASSUME tv # "gone" PROVE Opening'
      <3>1. /\ heard' = Append(heard, m) /\ Len(heard') = Len(heard) + 1 /\ heard'[Len(heard) + 1] = m /\ heard' # <<>>
            /\ \A i \in 1 .. Len(heard) : heard'[i] = heard[i]
            /\ Len(heard) \in Nat
            BY <1>1, <2>1, <2>2, <2>4 DEF SesFacts
      <3>2. \A i \in 1 .. Len(heard') : i \in 1 .. Len(heard) \/ i = Len(heard) + 1
            BY <3>1
      <3>3. tv = "active" \/ (tv = "activating" /\ sess = "open")
            BY <1>1, <2>1, <2>4 DEF Opening, SesTypes
      <3>4. CASE tv = "active"
        <4>1. \A i \in 1 .. Len(heard') : heard'[i].what \in {"ping", "key"}
              BY <1>1, <2>3, <2>4, <3>1, <3>2, <3>4 DEF Opening
        <4> QED BY <1>1, <2>1, <3>4, <4>1 DEF Opening, Only
      <3>5. CASE tv = "activating" /\ sess = "open"
        <4>1. heard # <<>> /\ heard[1].what = "activate" /\ \A i \in 2 .. Len(heard) : heard[i].what = "key"
              BY <1>1, <3>5 DEF Opening
        <4>2. Len(heard) >= 1 BY <1>1, <4>1 DEF SesFacts
        <4>3. heard'[1].what = "activate" BY <3>1, <4>1, <4>2
        <4>4. \A i \in 2 .. Len(heard') : heard'[i].what = "key"
              BY <2>3, <2>4, <3>1, <4>1, <4>2
        <4> QED BY <1>1, <2>1, <3>1, <3>5, <4>3, <4>4 DEF Opening
      <3> QED BY <3>3, <3>4, <3>5
    <2> QED BY <1>a, <2>1, <2>2, <2>3, <2>4 DEF SesInv
  <1>h. CASE Ses!Over \/ Ses!TvGoes
    <2>1. /\ tv' = "gone" /\ sess' \in {sess, "over"} /\ said' \in {said, <<>>}
          /\ UNCHANGED <<incoming, commands, heard, accepted, did>>
          BY <1>h DEF Ses!Over, Ses!TvGoes
    <2>2. <<>> \in Seq(Messages)
          OBVIOUS
    <2>3. SesTypes'
          BY <1>1, <2>1, <2>2 DEF SesTypes
    <2> QED BY <1>a, <2>1, <2>3 DEF SesInv
  <1>i. CASE Ses!TvAsks
    <2>1. PICK w \in {"configure", "ping"} :
            /\ said' = Append(said, Ses!Msg(w, 0))
            /\ \/ tv = "new" /\ tv' = "configuring" /\ w = "configure"
               \/ tv = "active" /\ tv' = "active" /\ w = "ping"
            /\ UNCHANGED <<sess, incoming, commands, heard, accepted, did>>
          BY <1>i DEF Ses!TvAsks, Ses!Says
    <2> DEFINE m == Ses!Msg(w, 0)
    <2>2. m \in Messages /\ m.what = w
          BY DEF Messages, Ses!Msg
    <2>a. said' = Append(said, m)
          BY <2>1
    <2> HIDE DEF m
    <2>3. SesTypes'
          BY <1>1, <2>1, <2>2, <2>a DEF SesTypes, SesFacts
    <2>4. Only(said, w) => Only(said', w)
          BY <1>1, <2>2, <2>a, OnlyGoes DEF SesFacts
    <2>5. Len(said') = Len(said) + 1 /\ Len(said) \in Nat /\ Len(incoming) \in Nat /\ Len(heard) \in Nat
          BY <1>1, <2>2, <2>a DEF SesFacts
    <2>6. Opening'
      <3>1. CASE tv = "new" /\ tv' = "configuring" /\ w = "configure"
        <4>1. Len(said) = 0 /\ Len(incoming) = 0 /\ Len(heard) = 0 /\ commands = <<>> /\ sess # "open"
              BY <1>1, <2>5, <3>1 DEF Opening
        <4>2. Only(said, w) /\ Only(incoming, w) /\ Only(heard, w)
              BY <4>1 DEF Only
        <4> QED BY <2>1, <2>4, <2>5, <3>1, <4>1, <4>2 DEF Opening
      <3>2. CASE tv = "active" /\ tv' = "active" /\ w = "ping"
            BY <1>1, <2>1, <2>4, <3>2 DEF Opening
      <3> QED BY <2>1, <3>1, <3>2
    <2>7. KeysFit'
          BY <1>1, <1>b, <2>1
    <2> QED BY <1>a, <2>1, <2>3, <2>6, <2>7 DEF SesInv
  <1>j. CASE Ses!TvHears
    <2> DEFINE m == Head(heard)
    <2>1. /\ tv # "gone" /\ heard # <<>> /\ heard' = Tail(heard)
          /\ IF m.what = "configure" THEN tv' = "activating" /\ said' = Append(said, Ses!Msg("activate", 0))
             ELSE tv' = (IF m.what = "activate" THEN "active" ELSE tv) /\ UNCHANGED said
          /\ did' = IF m.what = "key" /\ tv = "active" THEN Append(did, m.key) ELSE did
          /\ UNCHANGED <<sess, incoming, commands, accepted>>
          BY <1>j DEF Ses!TvHears, Ses!Says
    <2>2. /\ m \in Messages /\ m = heard[1] /\ Len(heard) \in Nat /\ Len(heard) >= 1 /\ Len(heard') = Len(heard) - 1
          /\ \A i \in 1 .. Len(heard') : i + 1 \in 1 .. Len(heard) /\ heard'[i] = heard[i + 1]
          BY <1>1, <2>1 DEF SesFacts
    <2> DEFINE o == Ses!Msg("activate", 0)
    <2>3. o \in Messages /\ o.what = "activate"
          BY DEF Messages, Ses!Msg
    <2>4. said' \in Seq(Messages) /\ heard' \in Seq(Messages) /\ did' \in Seq(Nat)
      <3>1. m.key \in Nat BY <2>2 DEF Messages
      <3>2. heard' \in Seq(Messages) BY <1>1, <2>1 DEF SesFacts
      <3>3. Append(said, o) \in Seq(Messages) BY <1>1, <2>3 DEF SesFacts
      <3> HIDE DEF m, o
      <3>4. did' \in Seq(Nat) BY <1>1, <2>1, <3>1 DEF SesTypes
      <3>5. said' = said \/ said' = Append(said, o) BY <2>1 DEF o
      <3> QED BY <1>1, <3>2, <3>3, <3>4, <3>5 DEF SesTypes
    <2>5. SesTypes'
          BY <1>1, <2>1, <2>4 DEF SesTypes
    <2>6. Opening /\ KeysFit
          BY <1>1, <2>1
    <2>7. tv # "new"
          BY <1>1, <2>2, <2>6 DEF Opening, SesFacts
    <2>8. CASE tv = "configuring"
      <3>1. m.what = "configure" /\ tv' = "activating" /\ said' = Append(said, o)
            BY <2>1, <2>2, <2>6, <2>8 DEF Opening, Only
      <3>2. Len(said) = 0 /\ Len(incoming) = 0 /\ Len(heard') = 0 /\ commands = <<>> /\ sess # "open"
            BY <1>1, <2>2, <2>6, <2>8 DEF Opening, SesFacts
      <3> HIDE DEF o
      <3>3. Only(said, "activate") /\ Only(incoming, "activate") /\ heard' = <<>>
            BY <2>4, <3>2 DEF Only
      <3>4. Only(said', "activate") /\ Len(said') = 1
        <4>1. said \in Seq(Messages) /\ Len(Append(said, o)) = Len(said) + 1 BY <1>1, <2>3 DEF SesFacts
        <4>2. Only(Append(said, o), "activate") BY <2>3, <3>3, <4>1, OnlyGoes
        <4> QED BY <3>1, <3>2, <4>1, <4>2
      <3>5. Opening'
        <4> HIDE DEF m
        <4>1. tv' = "activating" /\ sess' # "open" /\ commands' = <<>> /\ incoming' = incoming
              BY <2>1, <3>1, <3>2
        <4>2. Len(said') + Len(incoming') + Len(heard') = 1
              BY <3>2, <3>4, <4>1
        <4>3. Only(incoming', "activate") BY <3>3, <4>1
        <4> QED BY <3>3, <3>4, <4>1, <4>2, <4>3 DEF Opening
      <3>6. did' = did
            BY <2>1, <2>8
      <3>7. KeysFit'
        <4> HIDE DEF m
        <4>1. heard # <<>> /\ Head(heard).what # "key" /\ heard' = Tail(heard) BY <2>1, <3>1 DEF m
        <4> QED BY <1>1, <2>1, <2>3, <2>6, <3>6, <4>1, KeysStay
      <3> QED BY <1>a, <2>1, <2>5, <3>5, <3>6, <3>7 DEF SesInv
    <2>9. CASE tv = "activating"
      <3>1. /\ sess = "open" /\ m.what = "activate" /\ said = <<>> /\ incoming = <<>>
            /\ \A i \in 2 .. Len(heard) : heard[i].what = "key"
            BY <2>1, <2>2, <2>6, <2>9 DEF Opening
      <3>2. tv' = "active" /\ said' = <<>> /\ incoming' = <<>> /\ did' = did
            BY <2>1, <2>9, <3>1
      <3>3. \A i \in 1 .. Len(heard') : heard'[i].what \in {"ping", "key"}
        <4> TAKE i \in 1 .. Len(heard')
        <4>1. i + 1 \in 2 .. Len(heard) BY <2>2
        <4> QED BY <2>2, <3>1, <4>1
      <3>4. Opening'
            BY <3>2, <3>3 DEF Opening, Only
      <3>5. KeysFit'
        <4>1. heard # <<>> /\ Head(heard).what # "key" /\ heard' = Tail(heard) BY <2>1, <3>1
        <4> HIDE DEF m, o
        <4> QED BY <1>1, <2>1, <2>3, <2>6, <3>2, <4>1, KeysStay
      <3> QED BY <1>a, <2>1, <2>5, <3>2, <3>4, <3>5 DEF SesInv
    <2>10. CASE tv = "active"
      <3>1. m.what \in {"ping", "key"} /\ tv' = "active" /\ said' = said
        <4>1. 1 \in 1 .. Len(heard) BY <2>2
        <4>2. m.what \in {"ping", "key"} BY <2>2, <2>6, <2>10, <4>1 DEF Opening
        <4> QED BY <2>1, <2>10, <4>2
      <3>2. Opening'
        <4>1. \A i \in 1 .. Len(heard') : heard'[i].what \in {"ping", "key"}
              BY <2>2, <2>6, <2>10 DEF Opening
        <4> QED BY <2>1, <2>6, <2>10, <3>1, <4>1 DEF Opening
      <3>3. CASE m.what = "key"
        <4>1. did' = Append(did, m.key) /\ Head(heard).what = "key" BY <2>1, <2>10, <3>3
        <4>2. KeysFit' /\ Ses!KeysInOrder' BY <2>1, <2>10, <4>1, HearsKey
        <4> QED BY <2>5, <3>2, <4>2 DEF SesInv
      <3>4. CASE m.what = "ping"
        <4>1. did' = did BY <2>1, <3>4
        <4>2. heard # <<>> /\ Head(heard).what # "key" /\ heard' = Tail(heard) BY <2>1, <3>4
        <4>3. KeysFit'
          <5> HIDE DEF m, o
          <5> QED BY <1>1, <2>1, <2>3, <2>6, <4>1, <4>2, KeysStay
        <4> QED BY <1>a, <2>1, <2>5, <3>2, <4>1, <4>3 DEF SesInv
      <3> QED BY <3>1, <3>3, <3>4
    <2> QED BY <1>1, <2>1, <2>7, <2>8, <2>9, <2>10 DEF SesTypes
  <1> QED BY <1>c, <1>d, <1>e, <1>f, <1>g, <1>h, <1>i, <1>j DEF Ses!Next, Ses!Serve

-----------------------------------------------------------------------------
(* The box's manager.                                                      *)

BoxCalls == {"remote", "shell", "session", "push"}
Working == BoxCalls \cup {"connecting", "use", "none", "clear", "ready", "shelling", "pushing"}
Stages == {"drop_device", "drop_remote", "drop_pending", "drop_failed"}
Kept == [box : Box, open : BOOLEAN] \cup {Nil}

TaskRec == [at : Working \cup Stages \cup {"idle", "pairing", "proving", "proved", "clearing"},
            todo : Seq(BoxCalls), to : Box \cup {Nil}, sess : Kept, knew : BOOLEAN]

AtvTypes ==
    /\ host \in Box
    /\ remote \in Kept /\ pending \in Box \cup {Nil}
    /\ task \in [Task -> TaskRec]
    /\ \A t \in Task : task[t].at \in Working => task[t].todo # <<>>
    /\ \A t \in Task : task[t].at \in {"connecting", "ready", "shelling", "pairing"} => task[t].to \in Box

\* A request was dropped half-way, or a task is at one of these places still.
Excused(places) == "halfway" \in strays \/ \E t \in Task : task[t].at \in places

\* Who waits for a session to open holds its lock, for the box of the present address.
RemoteFits ==
    /\ \A t \in Task : task[t].at = "connecting" <=> remoteLock = t
    /\ \/ Excused({"drop_device", "drop_remote"})
       \/ /\ remote # Nil => remote.box = host
          /\ \A t \in Task : task[t].at = "connecting" => task[t].to = host

FailedFits == Excused(Stages) \/ (failed # Nil => failed.box = host)

\* Who read another address, and will store what it makes, is known to be late.
LateFits == \A t \in Task : task[t].at \in {"ready", "shelling", "pairing"} /\ task[t].to # host => t \in late

DeviceFits == Excused({"drop_device"}) \/ device \in {Nil, host} \/ "device" \in strays
PendingFits == Excused({"drop_device", "drop_remote", "drop_pending"}) \/ pending \in {Nil, host} \/ "pending" \in strays

\* A box that did not know this host when a connect began does not know it now, or the pairing in
\* between is about to clear the way.
PairedFits ==
    /\ \A t \in Task : task[t].at = "connecting" /\ ~task[t].knew => task[t].to \notin paired \/ Excused({"proved"})
    /\ failed # Nil /\ ~failed.knew => failed.box \notin paired \/ Excused({"proved", "clearing"})

AtvInv == AtvTypes /\ RemoteFits /\ FailedFits /\ LateFits /\ DeviceFits /\ PendingFits /\ PairedFits

\* A task at rest is a task.
LEMMA RestsFits == Atv!Rests \in TaskRec /\ Atv!Rests.at = "idle" /\ Atv!Rests.to = Nil
  BY DEF Atv!Rests, TaskRec, Kept

\* The first state of the manager: nothing is kept.
LEMMA AtvInit == Atv!Init => AtvInv
  <1> SUFFICES ASSUME Atv!Init PROVE AtvInv
      OBVIOUS
  <1>1. \A t \in Task : task[t] = Atv!Rests
        BY DEF Atv!Init
  <1>2. task \in [Task -> TaskRec] /\ host \in Box /\ remote \in Kept /\ pending \in Box \cup {Nil}
        BY RestsFits DEF Atv!Init, Kept
  <1>3. \A t \in Task : task[t].at = "idle"
        BY <1>1, RestsFits
  <1>4. remote = Nil /\ failed = Nil /\ device = Nil /\ pending = Nil /\ remoteLock = Nil
        BY DEF Atv!Init
  <1>5. AtvTypes BY <1>2, <1>3 DEF AtvTypes, Working, BoxCalls
  <1>6. RemoteFits BY <1>3, <1>4, TelevisionAssumption DEF RemoteFits
  <1> QED BY <1>3, <1>4, <1>5, <1>6 DEF AtvInv, FailedFits, LateFits, DeviceFits, PendingFits, PairedFits

\* An excuse lasts while its task stays, and a dropped request excuses for good.
LEMMA ExcuseStays ==
    ASSUME AtvTypes, NEW t \in Task, NEW r, task' = [task EXCEPT ![t] = r], strays \subseteq strays',
           NEW places, task[t].at \notin places \/ r.at \in places, Excused(places)
    PROVE  Excused(places)'
  <1>1. CASE "halfway" \in strays BY <1>1 DEF Excused
  <1>2. CASE \E u \in Task : task[u].at \in places
    <2>1. PICK u \in Task : task[u].at \in places BY <1>2
    <2>2. task'[u].at \in places
      <3>1. CASE u = t BY <2>1, <3>1 DEF AtvTypes
      <3>2. CASE u # t BY <2>1, <3>2 DEF AtvTypes
      <3> QED BY <3>1, <3>2
    <2> QED BY <2>2 DEF Excused
  <1> QED BY <1>1, <1>2 DEF Excused

Excuses == {"proved", "clearing"} \cup Stages

\* A step of one task that is no change of address and no pairing about to clear the way.
LEMMA AtvStep ==
    ASSUME AtvInv, NEW t \in Task, NEW r \in TaskRec, task' = [task EXCEPT ![t] = r],
           task[t].at \notin Excuses, r.at \in Working => r.todo # <<>>,
           host' = host, remote' \in Kept, strays \subseteq strays', paired' = paired,
           \A u \in Task : task'[u].at = "connecting" <=> remoteLock' = u,
           r.at = "connecting" /\ r # task[t] => r.to = host /\ (~r.knew => r.to \notin paired),
           \A u \in Task \ {t} : u \in late => u \in late',
           r.at \in {"ready", "shelling", "pairing"} => r.to \in Box /\ (r.to # host => t \in late'),
           remote' \in {remote, Nil} \/ (task[t].at = "connecting" /\ remote'.box = task[t].to),
           failed' \in {failed, Nil} \/ (task[t].at = "connecting" /\ failed'.box = task[t].to /\ failed'.knew = task[t].knew),
           device' \in {device, Nil, host} \/ "device" \in strays',
           pending' \in {pending, Nil, host} \/ (pending' \in Box \cup {Nil} /\ "pending" \in strays')
    PROVE  AtvInv'
  <1>1. AtvTypes /\ task'[t] = r /\ \A u \in Task \ {t} : task'[u] = task[u]
        BY DEF AtvInv, AtvTypes
  <1>2. \A places \in SUBSET Excuses : Excused(places) => Excused(places)'
    <2> SUFFICES ASSUME NEW places \in SUBSET Excuses, Excused(places) PROVE Excused(places)'
        OBVIOUS
    <2>1. task[t].at \notin places OBVIOUS
    <2> QED BY <1>1, <2>1, ExcuseStays
  <1>3. /\ {"drop_device", "drop_remote"} \in SUBSET Excuses /\ Stages \in SUBSET Excuses /\ {"drop_device"} \in SUBSET Excuses
        /\ {"drop_device", "drop_remote", "drop_pending"} \in SUBSET Excuses
        /\ {"proved"} \in SUBSET Excuses /\ {"proved", "clearing"} \in SUBSET Excuses
        BY DEF Excuses, Stages
  <1>4. AtvTypes'
        BY <1>1 DEF AtvTypes
  <1>5. RemoteFits'
    <2>1. CASE Excused({"drop_device", "drop_remote"})
          BY <1>2, <1>3, <2>1 DEF RemoteFits
    <2>2. CASE ~Excused({"drop_device", "drop_remote"})
      <3>1. /\ remote # Nil => remote.box = host
            /\ \A u \in Task : task[u].at = "connecting" => task[u].to = host
            BY <2>2 DEF AtvInv, RemoteFits
      <3>2. \A u \in Task : task'[u].at = "connecting" => task'[u].to = host
            BY <1>1, <3>1
      <3>3. remote' # Nil => remote'.box = host
            BY <3>1
      <3> QED BY <3>2, <3>3 DEF RemoteFits
    <2> QED BY <2>1, <2>2
  <1>6. FailedFits'
    <2>1. CASE Excused(Stages)
          BY <1>2, <1>3, <2>1 DEF FailedFits
    <2>2. CASE ~Excused(Stages)
      <3>1. ~Excused({"drop_device", "drop_remote"}) BY <2>2 DEF Excused, Stages
      <3>2. /\ failed # Nil => failed.box = host
            /\ \A u \in Task : task[u].at = "connecting" => task[u].to = host
            BY <2>2, <3>1 DEF AtvInv, RemoteFits, FailedFits
      <3>3. failed' # Nil => failed'.box = host
            BY <3>2
      <3> QED BY <3>3 DEF FailedFits
    <2> QED BY <2>1, <2>2
  <1>7. LateFits'
        BY <1>1 DEF AtvInv, LateFits
  <1>8. DeviceFits'
        BY <1>2, <1>3 DEF AtvInv, DeviceFits
  <1>9. PendingFits'
        BY <1>2, <1>3 DEF AtvInv, PendingFits
  <1>10. PairedFits'
    <2>1. \A u \in Task : task'[u].at = "connecting" /\ ~task'[u].knew =>
             task'[u].to \notin paired \/ Excused({"proved"})'
          BY <1>1, <1>2, <1>3 DEF AtvInv, PairedFits
    <2>2. failed' # Nil /\ ~failed'.knew => failed'.box \notin paired \/ Excused({"proved", "clearing"})'
      <3>1. Excused({"proved"}) => Excused({"proved", "clearing"})
            BY DEF Excused
      <3>2. CASE failed' \in {failed, Nil}
            BY <1>2, <1>3, <3>2 DEF AtvInv, PairedFits
      <3>3. CASE task[t].at = "connecting" /\ failed'.box = task[t].to /\ failed'.knew = task[t].knew
            BY <1>2, <1>3, <3>1, <3>3 DEF AtvInv, PairedFits
      <3> QED BY <3>2, <3>3
    <2> QED BY <2>1, <2>2 DEF PairedFits
  <1> QED BY <1>4, <1>5, <1>6, <1>7, <1>8, <1>9, <1>10 DEF AtvInv

\* The same, of a task that neither waits for a session nor begins to.
LEMMA PlainStep ==
    ASSUME AtvInv, NEW t \in Task, NEW r \in TaskRec, task' = [task EXCEPT ![t] = r],
           task[t].at \notin Excuses \cup {"connecting"}, r.at # "connecting", r.at \in Working => r.todo # <<>>,
           UNCHANGED <<host, remoteLock, paired>>, strays \subseteq strays', late \ {t} \subseteq late',
           r.at \in {"ready", "shelling", "pairing"} => r.to \in Box /\ (r.to # host => t \in late'),
           remote' \in {remote, Nil}, failed' \in {failed, Nil},
           device' \in {device, Nil, host} \/ "device" \in strays',
           pending' \in {pending, Nil, host} \/ (pending' \in Box \cup {Nil} /\ "pending" \in strays')
    PROVE  AtvInv'
  <1>1. task'[t] = r /\ \A u \in Task \ {t} : task'[u] = task[u]
        BY DEF AtvInv, AtvTypes
  <1>2. \A u \in Task : task'[u].at = "connecting" <=> remoteLock' = u
        BY <1>1 DEF AtvInv, RemoteFits
  <1>3. remote' \in Kept
        BY DEF AtvInv, AtvTypes, Kept
  <1> QED BY <1>2, <1>3, AtvStep

\* A task at another place.
LEMMA ToPlace ==
    ASSUME AtvInv, NEW t \in Task, NEW place \in Working \cup Stages \cup {"idle", "pairing", "proving", "proved", "clearing"},
           Atv!To(t, place)
    PROVE  \E r \in TaskRec : /\ task' = [task EXCEPT ![t] = r] /\ r.at = place /\ r.todo = task[t].todo
                              /\ r.to = task[t].to /\ r.knew = task[t].knew
  <1> DEFINE r == [task[t] EXCEPT !.at = place]
  <1>1. task[t] \in TaskRec
        BY DEF AtvInv, AtvTypes
  <1>2. task' = [task EXCEPT ![t] = r]
        BY DEF Atv!To
  <1>3. r \in TaskRec /\ r.at = place /\ r.todo = task[t].todo /\ r.to = task[t].to /\ r.knew = task[t].knew
        BY <1>1 DEF TaskRec
  <1> QED BY <1>2, <1>3

\* The next call, or the end.
LEMMA DoneFits ==
    ASSUME AtvInv, NEW t \in Task, task[t].at \in Working
    PROVE  /\ Atv!Done(t) \in TaskRec /\ Atv!Done(t).at \in BoxCalls \cup {"idle"}
           /\ Atv!Done(t).at \in Working => Atv!Done(t).todo # <<>>
  <1> DEFINE rest == Tail(task[t].todo)
  <1>1. task[t].todo \in Seq(BoxCalls) /\ task[t].todo # <<>>
        BY DEF AtvInv, AtvTypes, TaskRec
  <1>2. rest \in Seq(BoxCalls) /\ (rest # <<>> => Head(rest) \in BoxCalls)
        BY <1>1
  <1>3. Atv!Done(t) = IF rest = <<>> THEN [Atv!Rests EXCEPT !.at = "idle"] ELSE [Atv!Rests EXCEPT !.at = Head(rest), !.todo = rest]
        BY DEF Atv!Done
  <1> HIDE DEF rest
  <1>4. CASE rest = <<>>
        BY <1>3, <1>4, RestsFits DEF TaskRec, Working, BoxCalls
  <1>5. CASE rest # <<>>
    <2> DEFINE r == [Atv!Rests EXCEPT !.at = Head(rest), !.todo = rest]
    <2>1. r.at = Head(rest) /\ r.todo = rest
          BY RestsFits DEF TaskRec
    <2>2. r \in TaskRec
          BY <1>2, <1>5, RestsFits DEF TaskRec, Working
    <2> QED BY <1>2, <1>3, <1>5, <2>1, <2>2
  <1> QED BY <1>4, <1>5

\* A call that ends, well or not, leaves a task where it may be.
LEMMA EndStep ==
    ASSUME AtvInv, NEW t \in Task, task[t].at \in Working \ {"connecting"},
           Atv!Passes(t) \/ Atv!Fails(t) \/ task' = [task EXCEPT ![t] = Atv!Rests],
           UNCHANGED <<host, remoteLock, paired, remote, failed, pending>>,
           strays \subseteq strays', late \ {t} \subseteq late',
           device' \in {device, Nil, host} \/ "device" \in strays'
    PROVE  AtvInv'
  <1>1. PICK r \in {Atv!Done(t), Atv!Rests} : task' = [task EXCEPT ![t] = r]
        BY DEF Atv!Passes, Atv!Fails
  <1>2. r \in TaskRec /\ r.at \in BoxCalls \cup {"idle"} /\ (r.at \in Working => r.todo # <<>>)
        BY <1>1, DoneFits, RestsFits DEF Working, BoxCalls
  <1>3. r.at \notin {"connecting", "ready", "shelling", "pairing"} /\ task[t].at \notin Excuses \cup {"connecting"}
        BY <1>2 DEF BoxCalls, Working, Excuses, Stages
  <1> QED BY <1>1, <1>2, <1>3, PlainStep

\* The steps of a key, a badge and a wake.
LEMMA RemoteSteps ==
    ASSUME AtvInv, NEW t \in Task,
           Atv!SessionLocks(t) \/ Atv!Connects(t) \/ Atv!Uses(t) \/ Atv!Clears(t) \/ Atv!NoSession(t)
    PROVE  AtvInv'
  <1>0. task[t] \in TaskRec /\ (task[t].at \in Working => task[t].todo # <<>>) /\ host \in Box /\ remote \in Kept
        BY DEF AtvInv, AtvTypes
  <1>1. CASE Atv!SessionLocks(t)
    <2>1. /\ task[t].at \in {"remote", "session"} /\ remoteLock = Nil /\ late' = late \ {t}
          /\ UNCHANGED <<host, device, remote, pending, failed, paired, strays>>
          BY <1>1 DEF Atv!SessionLocks, Atv!slots, Atv!world, Atv!Forgets
    <2>2. task[t].at \notin Excuses \cup {"connecting"} /\ task[t].at \in Working /\ task[t].todo # <<>>
          BY <1>0, <2>1 DEF Excuses, Stages, Working, BoxCalls
    <2>3. CASE Atv!SessionOpen
      <3> DEFINE r == [task[t] EXCEPT !.at = "use", !.sess = remote]
      <3>1. task' = [task EXCEPT ![t] = r] /\ UNCHANGED remoteLock
            BY <1>1, <2>3 DEF Atv!SessionLocks
      <3>2. remote \in Kept
            BY DEF AtvInv, AtvTypes
      <3>3. r \in TaskRec /\ r.at = "use" /\ r.todo = task[t].todo
            BY <1>0, <3>2 DEF TaskRec, Working
      <3> HIDE DEF r
      <3> QED BY <2>1, <2>2, <3>1, <3>3, PlainStep
    <2>4. CASE ~Atv!SessionOpen /\ failed # Nil
      <3>1. Atv!To(t, "none") /\ UNCHANGED remoteLock
            BY <1>1, <2>4 DEF Atv!SessionLocks
      <3>2. PICK r \in TaskRec : task' = [task EXCEPT ![t] = r] /\ r.at = "none" /\ r.todo = task[t].todo
            BY <3>1, ToPlace DEF Working
      <3> QED BY <2>1, <2>2, <3>1, <3>2, PlainStep
    <2>5. CASE ~Atv!SessionOpen /\ failed = Nil
      <3> DEFINE r == [task[t] EXCEPT !.at = "connecting", !.to = host, !.knew = (host \in paired)]
      <3>1. task' = [task EXCEPT ![t] = r] /\ remoteLock' = t
            BY <1>1, <2>5 DEF Atv!SessionLocks
      <3>2. (host \in paired) \in BOOLEAN
            OBVIOUS
      <3>3. r \in TaskRec /\ r.at = "connecting" /\ r.todo = task[t].todo /\ r.to = host /\ r.knew = (host \in paired)
            BY <1>0, <3>2 DEF TaskRec, Working
      <3> HIDE DEF r
      <3>4. task'[t] = r /\ \A u \in Task \ {t} : task'[u] = task[u]
            BY <3>1 DEF AtvInv, AtvTypes
      <3>5. \A u \in Task : task'[u].at = "connecting" <=> remoteLock' = u
            BY <2>1, <3>1, <3>3, <3>4, TelevisionAssumption DEF AtvInv, RemoteFits
      <3> QED BY <1>0, <2>1, <2>2, <3>1, <3>3, <3>5, AtvStep
    <2> QED BY <2>3, <2>4, <2>5
  <1>2. CASE Atv!Connects(t)
    <2>1. /\ task[t].at = "connecting" /\ remoteLock' = Nil /\ late' = late \ {t}
          /\ UNCHANGED <<host, device, pending, paired, strays>>
          BY <1>2 DEF Atv!Connects, Atv!world, Atv!Forgets
    <2>2. task[t].at \notin Excuses /\ task[t].at \in Working /\ task[t].todo # <<>>
          BY <1>0, <2>1 DEF Excuses, Stages, Working, BoxCalls
    <2>3. ASSUME NEW r \in TaskRec, task' = [task EXCEPT ![t] = r], r.at # "connecting"
          PROVE  \A u \in Task : task'[u].at = "connecting" <=> remoteLock' = u
      <3>1. task'[t] = r /\ \A u \in Task \ {t} : task'[u] = task[u]
            BY <2>3 DEF AtvInv, AtvTypes
      <3>2. \A u \in Task \ {t} : task[u].at # "connecting"
            BY <2>1 DEF AtvInv, RemoteFits
      <3> QED BY <2>1, <2>3, <3>1, <3>2, TelevisionAssumption
    <2>4. CASE task[t].knew /\ remote' = [box |-> task[t].to, open |-> TRUE] /\ failed' = Nil
               /\ task' = [task EXCEPT ![t].at = "use", ![t].sess = remote']
      <3> DEFINE r == [task[t] EXCEPT !.at = "use", !.sess = remote']
      <3>1. task' = [task EXCEPT ![t] = r]
            BY <2>4
      <3>2. remote' \in Kept
        BY <1>0, <2>1, <2>4 DEF Kept, AtvInv, AtvTypes
      <3>3. r \in TaskRec /\ r.at = "use" /\ r.todo = task[t].todo
            BY <1>0, <3>2 DEF TaskRec, Working
      <3>4. remote'.box = task[t].to /\ remote' \in Kept
            BY <2>4, <3>2
      <3> HIDE DEF r
      <3>5. \A u \in Task : task'[u].at = "connecting" <=> remoteLock' = u
            BY <2>3, <3>1, <3>3
      <3> QED BY <2>1, <2>2, <2>4, <3>1, <3>3, <3>4, <3>5, AtvStep
    <2>5. CASE failed' = [box |-> task[t].to, knew |-> task[t].knew] /\ Atv!To(t, "none") /\ UNCHANGED remote
      <3>1. PICK r \in TaskRec : task' = [task EXCEPT ![t] = r] /\ r.at = "none" /\ r.todo = task[t].todo
            BY <2>5, ToPlace DEF Working
      <3>2. failed'.box = task[t].to /\ failed'.knew = task[t].knew
            BY <2>5
      <3>3. \A u \in Task : task'[u].at = "connecting" <=> remoteLock' = u
            BY <2>3, <3>1
      <3> QED BY <1>0, <2>1, <2>2, <2>5, <3>1, <3>2, <3>3, AtvStep
    <2> QED BY <1>2, <2>4, <2>5 DEF Atv!Connects
  <1>3. CASE Atv!Uses(t)
    <2>1. task[t].at = "use" /\ UNCHANGED <<host, device, remote, pending, failed, remoteLock, paired, late, strays>>
          BY <1>3 DEF Atv!Uses, Atv!slots, Atv!world
    <2>2. task[t].at \in Working \ {"connecting"}
          BY <2>1 DEF Working
    <2>3. CASE Atv!Passes(t)
          BY <2>1, <2>2, <2>3, EndStep
    <2>4. CASE Atv!To(t, "clear")
      <3>1. PICK r \in TaskRec : task' = [task EXCEPT ![t] = r] /\ r.at = "clear" /\ r.todo = task[t].todo
            BY <2>4, ToPlace DEF Working
      <3> QED BY <1>0, <2>1, <2>2, <3>1, PlainStep DEF Excuses, Stages
    <2> QED BY <1>3, <2>3, <2>4 DEF Atv!Uses
  <1>4. CASE Atv!Clears(t)
    <2>1. task[t].at = "clear" /\ remote' = Nil /\ UNCHANGED <<host, device, pending, failed, remoteLock, paired, late, strays>>
          BY <1>4 DEF Atv!Clears, Atv!world
    <2>2. PICK r \in TaskRec : task' = [task EXCEPT ![t] = r] /\ r.at = "shell" /\ r.todo = task[t].todo
          BY <1>4, ToPlace DEF Atv!Clears, Working, BoxCalls
    <2> QED BY <1>0, <2>1, <2>2, PlainStep DEF Excuses, Stages, Working
  <1>5. CASE Atv!NoSession(t)
    <2>1. task[t].at = "none" /\ UNCHANGED <<host, device, remote, pending, failed, remoteLock, paired, late, strays>>
          BY <1>5 DEF Atv!NoSession, Atv!slots, Atv!world
    <2>2. CASE Atv!Passes(t)
          BY <2>1, <2>2, EndStep DEF Working
    <2>3. CASE Atv!To(t, "shell")
      <3>1. PICK r \in TaskRec : task' = [task EXCEPT ![t] = r] /\ r.at = "shell" /\ r.todo = task[t].todo
            BY <2>3, ToPlace DEF Working, BoxCalls
      <3> QED BY <1>0, <2>1, <3>1, PlainStep DEF Excuses, Stages, Working
    <2> QED BY <1>5, <2>2, <2>3 DEF Atv!NoSession
  <1> QED BY <1>1, <1>2, <1>3, <1>4, <1>5

\* The steps of a shell, of an upload, and how a request comes in.
LEMMA ShellSteps ==
    ASSUME AtvInv, NEW t \in Task,
           (\E kind \in Atv!Kinds : Atv!Begin(t, kind)) \/ Atv!ShellReads(t) \/ Atv!Pushes(t)
             \/ Atv!ShellLocks(t) \/ Atv!ShellEnds(t)
    PROVE  AtvInv'
  <1>0. task[t] \in TaskRec /\ (task[t].at \in Working => task[t].todo # <<>>) /\ host \in Box /\ remote \in Kept
        BY DEF AtvInv, AtvTypes
  <1>1. ASSUME NEW kind \in Atv!Kinds, Atv!Begin(t, kind) PROVE AtvInv'
    <2>1. /\ task[t].at = "idle" /\ UNCHANGED <<host, device, remote, pending, failed, remoteLock, paired, late, strays>>
          /\ task' = [task EXCEPT ![t] = [Atv!Rests EXCEPT !.at = kind[1], !.todo = kind]]
          BY <1>1 DEF Atv!Begin, Atv!slots, Atv!world
    <2>2. kind \in Seq(BoxCalls) /\ kind # <<>> /\ kind[1] \in BoxCalls
      <3>1. CASE kind = <<"remote">> BY <3>1 DEF BoxCalls
      <3>2. CASE kind = <<"remote", "shell">> BY <3>2 DEF BoxCalls
      <3>3. CASE kind = <<"shell", "session">> BY <3>3 DEF BoxCalls
      <3>4. CASE kind = <<"push", "shell", "shell">> BY <3>4 DEF BoxCalls
      <3> QED BY <3>1, <3>2, <3>3, <3>4 DEF Atv!Kinds
    <2> DEFINE r == [Atv!Rests EXCEPT !.at = kind[1], !.todo = kind]
    <2>3. r \in TaskRec /\ r.at = kind[1] /\ r.todo = kind
          BY <2>2, RestsFits DEF TaskRec, Working
    <2> HIDE DEF r
    <2>4. r.at \notin {"connecting", "ready", "shelling", "pairing"}
          BY <2>2, <2>3 DEF BoxCalls
    <2> QED BY <2>1, <2>2, <2>3, <2>4, PlainStep DEF r, Excuses, Stages
  <1>2. CASE Atv!ShellReads(t)
    <2> DEFINE place == IF task[t].at = "shell" THEN "ready" ELSE "pushing"
               r == [task[t] EXCEPT !.at = place, !.to = host]
    <2>1. /\ task[t].at \in {"shell", "push"} /\ UNCHANGED <<host, device, remote, pending, failed, remoteLock, paired, late, strays>>
          /\ task' = [task EXCEPT ![t] = r]
          BY <1>2 DEF Atv!ShellReads, Atv!ReadsHost, Atv!slots, Atv!world
    <2>2. place \in {"ready", "pushing"}
          OBVIOUS
    <2> HIDE DEF place
    <2>3. r \in TaskRec /\ r.at = place /\ r.to = host /\ r.todo = task[t].todo
          BY <1>0, <2>2 DEF TaskRec, Working
    <2> HIDE DEF r
    <2>4. task[t].todo # <<>> /\ task[t].at \notin Excuses \cup {"connecting"}
          BY <1>0, <2>1 DEF Working, BoxCalls, Excuses, Stages
    <2> QED BY <1>0, <2>1, <2>2, <2>3, <2>4, PlainStep
  <1>3. CASE Atv!Pushes(t)
    <2>1. /\ task[t].at = "pushing" /\ late' = late \ {t}
          /\ UNCHANGED <<host, device, remote, pending, failed, remoteLock, paired, strays>>
          /\ Atv!Passes(t) \/ task' = [task EXCEPT ![t] = Atv!Rests]
          BY <1>3 DEF Atv!Pushes, Atv!Forgets, Atv!slots
    <2> QED BY <2>1, EndStep DEF Working
  <1>4. CASE Atv!ShellLocks(t)
    <2>1. /\ task[t].at = "ready" /\ Atv!To(t, "shelling")
          /\ UNCHANGED <<host, device, remote, pending, failed, remoteLock, paired, late, strays>>
          BY <1>4 DEF Atv!ShellLocks, Atv!slots, Atv!world
    <2>2. PICK r \in TaskRec : /\ task' = [task EXCEPT ![t] = r] /\ r.at = "shelling" /\ r.todo = task[t].todo
                               /\ r.to = task[t].to
          BY <2>1, ToPlace DEF Working
    <2>3. task[t].todo # <<>> /\ task[t].at \notin Excuses \cup {"connecting"}
          BY <1>0, <2>1 DEF Working, Excuses, Stages
    <2>4. r.to \in Box /\ (r.to # host => t \in late')
          BY <2>1, <2>2 DEF AtvInv, AtvTypes, LateFits
    <2> QED BY <2>1, <2>2, <2>3, <2>4, PlainStep
  <1>5. CASE Atv!ShellEnds(t)
    <2>1. /\ task[t].at = "shelling" /\ late' = late \ {t}
          /\ UNCHANGED <<host, remote, pending, failed, remoteLock, paired>>
          /\ \/ /\ device' = IF device # Nil THEN device ELSE task[t].to
                /\ strays' = IF device = Nil /\ t \in late THEN strays \cup {"device"} ELSE strays
                /\ Atv!Passes(t)
             \/ device' = Nil /\ strays' = strays /\ Atv!Fails(t)
          BY <1>5 DEF Atv!ShellEnds, Atv!Forgets
    <2>2. device' \in {device, Nil, host} \/ "device" \in strays'
          BY <2>1 DEF AtvInv, LateFits
    <2>3. strays \subseteq strays'
          BY <2>1
    <2> QED BY <2>1, <2>2, <2>3, EndStep DEF Working
  <1> QED BY <1>1, <1>2, <1>3, <1>4, <1>5

\* The steps of a pairing.
LEMMA PairSteps ==
    ASSUME AtvInv, NEW t \in Task,
           Atv!PairStart(t) \/ Atv!PairStarted(t) \/ Atv!PairFinish(t) \/ Atv!PairProves(t) \/ Atv!PairDone(t)
    PROVE  AtvInv'
  <1>0. task[t] \in TaskRec /\ host \in Box /\ remote \in Kept /\ task \in [Task -> TaskRec]
        BY DEF AtvInv, AtvTypes
  <1>1. CASE Atv!PairStart(t)
    <2> DEFINE r == [task[t] EXCEPT !.at = "pairing", !.to = host]
    <2>1. /\ task[t].at = "idle" /\ UNCHANGED <<host, device, remote, pending, failed, remoteLock, paired, late, strays>>
          /\ task' = [task EXCEPT ![t] = r]
          BY <1>1 DEF Atv!PairStart, Atv!ReadsHost, Atv!slots, Atv!world
    <2>2. r \in TaskRec /\ r.at = "pairing" /\ r.to = host
          BY <1>0 DEF TaskRec, Working
    <2> HIDE DEF r
    <2> QED BY <1>0, <2>1, <2>2, PlainStep DEF Excuses, Stages, Working, BoxCalls
  <1>2. CASE Atv!PairStarted(t)
    <2>1. /\ task[t].at = "pairing" /\ late' = late \ {t} /\ task' = [task EXCEPT ![t] = Atv!Rests]
          /\ UNCHANGED <<host, device, remote, failed, remoteLock, paired>>
          /\ \/ pending' = task[t].to /\ strays' = IF t \in late THEN strays \cup {"pending"} ELSE strays
             \/ UNCHANGED <<pending, strays>>
          BY <1>2 DEF Atv!PairStarted, Atv!Forgets, Atv!world
    <2>2. strays \subseteq strays'
          BY <2>1
    <2>3. pending' \in {pending, Nil, host} \/ (pending' \in Box \cup {Nil} /\ "pending" \in strays')
          BY <1>0, <2>1 DEF AtvInv, AtvTypes, LateFits
    <2> QED BY <2>1, <2>2, <2>3, RestsFits, PlainStep DEF Excuses, Stages, Working, BoxCalls
  <1>3. CASE Atv!PairFinish(t)
    <2>1. /\ task[t].at = "idle" /\ pending' = Nil /\ UNCHANGED <<host, device, remote, failed, remoteLock, paired, late, strays>>
          /\ task' = [task EXCEPT ![t] = [Atv!Rests EXCEPT !.at = "proving", !.to = pending]]
          BY <1>3 DEF Atv!PairFinish, Atv!world
    <2> DEFINE r == [Atv!Rests EXCEPT !.at = "proving", !.to = pending]
    <2>2. pending \in Box \cup {Nil}
          BY DEF AtvInv, AtvTypes
    <2>3. r \in TaskRec /\ r.at = "proving"
          BY <2>2, RestsFits DEF TaskRec
    <2> HIDE DEF r
    <2> QED BY <2>1, <2>3, PlainStep DEF r, Excuses, Stages, Working, BoxCalls
  <1>4. CASE Atv!PairProves(t)
    <2>1. task[t].at = "proving" /\ UNCHANGED <<host, device, remote, pending, failed, remoteLock, late, strays>>
          BY <1>4 DEF Atv!PairProves, Atv!slots
    <2>2. CASE task' = [task EXCEPT ![t] = Atv!Rests] /\ UNCHANGED paired
          BY <2>1, <2>2, RestsFits, PlainStep DEF Excuses, Stages, Working, BoxCalls
    <2>3. CASE paired' = paired \cup {task[t].to} /\ Atv!To(t, "proved")
      <3>1. PICK r \in TaskRec : task' = [task EXCEPT ![t] = r] /\ r.at = "proved"
            BY <2>3, ToPlace
      <3>2. task'[t] = r /\ \A u \in Task \ {t} : task'[u] = task[u]
            BY <1>0, <3>1
      <3>3. Excused({"proved"})' /\ Excused({"proved", "clearing"})'
            BY <3>1, <3>2 DEF Excused
      <3>4. \A u \in Task : /\ task'[u].at \in {"connecting", "ready", "shelling", "pairing"} => task'[u] = task[u]
                            /\ task'[u].at \in Working => task'[u] = task[u]
                            /\ task[u].at = "connecting" => task'[u] = task[u]
            BY <2>1, <3>1, <3>2 DEF Working, BoxCalls
      <3>5. AtvTypes'
            BY <1>0, <2>1, <3>1, <3>4 DEF AtvInv, AtvTypes
      <3>6. \A places \in SUBSET Stages : Excused(places) => Excused(places)'
        <4> SUFFICES ASSUME NEW places \in SUBSET Stages, Excused(places) PROVE Excused(places)'
            OBVIOUS
        <4>1. task[t].at \notin places BY <2>1 DEF Stages
        <4>2. AtvTypes /\ strays \subseteq strays' BY <2>1 DEF AtvInv
        <4> QED BY <3>1, <4>1, <4>2, ExcuseStays
      <3>7. /\ {"drop_device", "drop_remote"} \in SUBSET Stages /\ Stages \in SUBSET Stages /\ {"drop_device"} \in SUBSET Stages
            /\ {"drop_device", "drop_remote", "drop_pending"} \in SUBSET Stages
            BY DEF Stages
      <3>8. RemoteFits'
        <4>1. \A u \in Task : task'[u].at = "connecting" <=> remoteLock' = u
              BY <2>1, <3>4 DEF AtvInv, RemoteFits
        <4> QED BY <2>1, <3>4, <3>6, <3>7, <4>1 DEF AtvInv, RemoteFits
      <3>9. FailedFits' /\ DeviceFits' /\ PendingFits'
            BY <2>1, <3>6, <3>7 DEF AtvInv, FailedFits, DeviceFits, PendingFits
      <3>10. LateFits'
            BY <2>1, <3>4 DEF AtvInv, LateFits
      <3>11. PairedFits'
            BY <3>3 DEF PairedFits
      <3> QED BY <3>5, <3>8, <3>9, <3>10, <3>11 DEF AtvInv
    <2> QED BY <1>4, <2>2, <2>3 DEF Atv!PairProves
  <1>5. CASE Atv!PairDone(t)
    <2>1. /\ late' = late \ {t} /\ UNCHANGED <<host, device, pending, remoteLock, paired, strays>>
          /\ \/ task[t].at = "proved" /\ remoteLock = Nil /\ remote' = Nil /\ Atv!To(t, "clearing") /\ UNCHANGED failed
             \/ task[t].at = "clearing" /\ failed' = Nil /\ task' = [task EXCEPT ![t] = Atv!Rests] /\ UNCHANGED remote
          BY <1>5 DEF Atv!PairDone, Atv!Forgets, Atv!world
    <2>2. PICK r \in TaskRec :
            /\ task' = [task EXCEPT ![t] = r]
            /\ \/ task[t].at = "proved" /\ r.at = "clearing" /\ remoteLock = Nil /\ remote' = Nil /\ UNCHANGED failed
               \/ task[t].at = "clearing" /\ r.at = "idle" /\ failed' = Nil /\ UNCHANGED remote
      <3>1. CASE task[t].at = "proved" /\ remoteLock = Nil /\ remote' = Nil /\ Atv!To(t, "clearing") /\ UNCHANGED failed
            BY <3>1, ToPlace
      <3>2. CASE task[t].at = "clearing" /\ failed' = Nil /\ task' = [task EXCEPT ![t] = Atv!Rests] /\ UNCHANGED remote
            BY <3>2, RestsFits
      <3> QED BY <2>1, <3>1, <3>2
    <2>3. task'[t] = r /\ \A u \in Task \ {t} : task'[u] = task[u]
          BY <1>0, <2>2
    <2>4. \A u \in Task : /\ task'[u].at \in {"connecting", "ready", "shelling", "pairing"} => task'[u] = task[u] /\ u # t
                          /\ task'[u].at \in Working => task'[u] = task[u]
                          /\ task[u].at = "connecting" => task'[u] = task[u]
          BY <2>2, <2>3 DEF Working, BoxCalls
    <2>5. AtvTypes'
      <3>1. remote' \in Kept BY <1>0, <2>2 DEF Kept
      <3> QED BY <1>0, <2>1, <2>2, <2>4, <3>1 DEF AtvInv, AtvTypes
    <2>6. \A places \in SUBSET Stages : Excused(places) => Excused(places)'
      <3> SUFFICES ASSUME NEW places \in SUBSET Stages, Excused(places) PROVE Excused(places)'
          OBVIOUS
      <3>1. task[t].at \notin places BY <2>2 DEF Stages
      <3>2. AtvTypes /\ strays \subseteq strays' BY <2>1 DEF AtvInv
      <3> QED BY <2>2, <3>1, <3>2, ExcuseStays
    <2>7. /\ {"drop_device", "drop_remote"} \in SUBSET Stages /\ Stages \in SUBSET Stages /\ {"drop_device"} \in SUBSET Stages
          /\ {"drop_device", "drop_remote", "drop_pending"} \in SUBSET Stages
          BY DEF Stages
    <2>8. RemoteFits'
      <3>1. \A u \in Task : task'[u].at = "connecting" <=> remoteLock' = u
            BY <2>1, <2>4 DEF AtvInv, RemoteFits
      <3> QED BY <2>1, <2>2, <2>4, <2>6, <2>7, <3>1 DEF AtvInv, RemoteFits
    <2>9. FailedFits' /\ DeviceFits' /\ PendingFits'
          BY <2>1, <2>2, <2>6, <2>7 DEF AtvInv, FailedFits, DeviceFits, PendingFits
    <2>10. LateFits'
          BY <2>1, <2>4 DEF AtvInv, LateFits
    <2>11. PairedFits'
      <3>1. CASE task[t].at = "proved" /\ r.at = "clearing" /\ remoteLock = Nil /\ UNCHANGED failed
        <4>1. Excused({"proved", "clearing"})'
              BY <2>3, <3>1 DEF Excused
        <4>2. \A u \in Task : task'[u].at # "connecting"
              BY <2>4, <3>1, TelevisionAssumption DEF AtvInv, RemoteFits
        <4> QED BY <4>1, <4>2 DEF PairedFits
      <3>2. CASE task[t].at = "clearing" /\ r.at = "idle" /\ failed' = Nil
        <4>1. Excused({"proved"}) => Excused({"proved"})'
          <5>1. AtvTypes /\ strays \subseteq strays' BY <2>1 DEF AtvInv
          <5>2. task[t].at \notin {"proved"} BY <3>2
          <5> QED BY <2>2, <5>1, <5>2, ExcuseStays
        <4> QED BY <2>1, <2>4, <3>2, <4>1 DEF AtvInv, PairedFits
      <3> QED BY <2>2, <3>1, <3>2
    <2> QED BY <2>5, <2>8, <2>9, <2>10, <2>11 DEF AtvInv
  <1> QED BY <1>1, <1>2, <1>3, <1>4, <1>5

\* The steps of a change of address, and of requests that are dropped.
LEMMA ChangeStep ==
    ASSUME AtvInv, NEW t \in Task,
           (\E box \in Box : Atv!SetConfig(t, box)) \/ Atv!DropSlot(t) \/ Atv!Dropped(t)
    PROVE  AtvInv'
  <1>0. AtvTypes /\ task[t] \in TaskRec /\ task \in [Task -> TaskRec]
        BY DEF AtvInv, AtvTypes
  <1>1. ASSUME NEW box \in Box, Atv!SetConfig(t, box) PROVE AtvInv'
    <2>1. /\ task[t].at = "idle" /\ host' = box /\ Atv!To(t, "drop_device")
          /\ late' = late \cup {u \in Task : task[u].to # Nil}
          /\ UNCHANGED <<device, remote, pending, failed, remoteLock, paired, strays>>
          BY <1>1 DEF Atv!SetConfig, Atv!slots, Atv!world
    <2>2. PICK r \in TaskRec : task' = [task EXCEPT ![t] = r] /\ r.at = "drop_device"
          BY <2>1, ToPlace DEF Stages
    <2>3. task'[t] = r /\ \A u \in Task \ {t} : task'[u] = task[u]
          BY <1>0, <2>2
    <2>4. \A u \in Task : /\ task'[u].at \in {"connecting", "ready", "shelling", "pairing"} \cup Working => task'[u] = task[u]
                          /\ task[u].at = "connecting" => task'[u] = task[u]
          BY <2>1, <2>2, <2>3 DEF Working, BoxCalls
    <2>5. \A places : "drop_device" \in places => Excused(places)'
          BY <2>2, <2>3 DEF Excused
    <2>6. AtvTypes'
          BY <1>0, <2>1, <2>2, <2>4 DEF AtvTypes
    <2>7. RemoteFits'
      <3>1. \A u \in Task : task'[u].at = "connecting" <=> remoteLock' = u
            BY <2>1, <2>4 DEF AtvInv, RemoteFits
      <3> QED BY <2>5, <3>1 DEF RemoteFits
    <2>8. FailedFits' /\ DeviceFits' /\ PendingFits'
          BY <2>5 DEF FailedFits, DeviceFits, PendingFits, Stages
    <2>9. LateFits'
      <3>1. \A u \in Task : task[u].at \in {"ready", "shelling", "pairing"} => task[u].to # Nil
            BY <1>0, TelevisionAssumption DEF AtvTypes
      <3> QED BY <2>1, <2>4, <3>1 DEF LateFits
    <2>10. PairedFits'
      <3>1. AtvTypes /\ strays \subseteq strays' BY <1>0, <2>1
      <3>2. task[t].at \notin {"proved"} /\ task[t].at \notin {"proved", "clearing"} BY <2>1
      <3>3. /\ Excused({"proved"}) => Excused({"proved"})'
            /\ Excused({"proved", "clearing"}) => Excused({"proved", "clearing"})'
            BY <2>2, <3>1, <3>2, ExcuseStays
      <3> QED BY <2>1, <2>4, <3>3 DEF AtvInv, PairedFits
    <2> QED BY <2>6, <2>7, <2>8, <2>9, <2>10 DEF AtvInv
  <1>2. CASE Atv!DropSlot(t)
    <2>1. PICK next \in Stages \cup {"idle"} :
            /\ Atv!To(t, next) /\ UNCHANGED <<host, remoteLock, paired, strays, late>>
            /\ \/ /\ task[t].at = "drop_device" /\ next = "drop_remote" /\ device' = Nil
                  /\ UNCHANGED <<remote, pending, failed>>
               \/ /\ task[t].at = "drop_remote" /\ next = "drop_pending" /\ remoteLock = Nil /\ remote' = Nil
                  /\ UNCHANGED <<device, pending, failed>>
               \/ /\ task[t].at = "drop_pending" /\ next = "drop_failed" /\ pending' = Nil
                  /\ UNCHANGED <<device, remote, failed>>
               \/ /\ task[t].at = "drop_failed" /\ next = "idle" /\ failed' = Nil
                  /\ UNCHANGED <<device, remote, pending>>
          BY <1>2 DEF Atv!DropSlot, Atv!world, Stages
    <2>2. PICK r \in TaskRec : task' = [task EXCEPT ![t] = r] /\ r.at = next
          BY <2>1, ToPlace
    <2>3. task'[t] = r /\ \A u \in Task \ {t} : task'[u] = task[u]
          BY <1>0, <2>2
    <2>4. task[t].at \in Stages /\ r.at \in Stages \cup {"idle"}
          BY <2>1, <2>2 DEF Stages
    <2>5. \A u \in Task : /\ task'[u].at \in {"connecting", "ready", "shelling", "pairing"} \cup Working => task'[u] = task[u]
                          /\ task[u].at = "connecting" => task'[u] = task[u]
          BY <2>3, <2>4 DEF Stages, Working, BoxCalls
    <2>6. \A places : (task[t].at \notin places \/ next \in places) /\ Excused(places) => Excused(places)'
      <3> SUFFICES ASSUME NEW places, task[t].at \notin places \/ next \in places, Excused(places) PROVE Excused(places)'
          OBVIOUS
      <3>1. AtvTypes /\ strays \subseteq strays' BY <1>0, <2>1
      <3> QED BY <2>2, <3>1, ExcuseStays
    <2>7. AtvTypes'
      <3>1. remote' \in Kept /\ pending' \in Box \cup {Nil} /\ host' \in Box
            BY <1>0, <2>1 DEF AtvTypes, Kept
      <3> QED BY <1>0, <2>2, <2>5, <3>1 DEF AtvTypes
    <2>8. RemoteFits'
      <3>1. \A u \in Task : task'[u].at = "connecting" <=> remoteLock' = u
            BY <2>1, <2>5 DEF AtvInv, RemoteFits
      <3>2. CASE task[t].at = "drop_remote" /\ remoteLock = Nil /\ remote' = Nil
        <4>1. \A u \in Task : task'[u].at # "connecting"
              BY <2>1, <3>1, <3>2, TelevisionAssumption
        <4> QED BY <3>1, <3>2, <4>1 DEF RemoteFits
      <3>3. CASE task[t].at # "drop_remote"
        <4>1. remote' = remote /\ (task[t].at \notin {"drop_device", "drop_remote"} \/ next \in {"drop_device", "drop_remote"})
              BY <2>1, <3>3
        <4>2. Excused({"drop_device", "drop_remote"}) => Excused({"drop_device", "drop_remote"})'
              BY <2>6, <4>1
        <4> QED BY <2>1, <2>5, <3>1, <4>1, <4>2 DEF AtvInv, RemoteFits
      <3> QED BY <2>1, <3>2, <3>3
    <2>9. FailedFits'
      <3>1. CASE task[t].at = "drop_failed" /\ failed' = Nil
            BY <3>1 DEF FailedFits
      <3>2. CASE task[t].at # "drop_failed"
        <4>1. failed' = failed /\ next \in Stages BY <2>1, <3>2 DEF Stages
        <4> QED BY <2>1, <2>6, <4>1 DEF AtvInv, FailedFits
      <3> QED BY <2>1, <3>1, <3>2
    <2>10. DeviceFits'
      <3>1. CASE task[t].at = "drop_device" /\ device' = Nil
            BY <3>1 DEF DeviceFits
      <3>2. CASE task[t].at # "drop_device"
        <4>1. device' = device /\ task[t].at \notin {"drop_device"} BY <2>1, <3>2
        <4> QED BY <2>1, <2>6, <4>1 DEF AtvInv, DeviceFits
      <3> QED BY <2>1, <3>1, <3>2
    <2>11. PendingFits'
      <3> DEFINE before == {"drop_device", "drop_remote", "drop_pending"}
      <3>1. CASE task[t].at = "drop_pending" /\ pending' = Nil
            BY <3>1 DEF PendingFits
      <3>2. CASE task[t].at # "drop_pending"
        <4>1. pending' = pending /\ (task[t].at \notin before \/ next \in before) BY <2>1, <3>2
        <4> QED BY <2>1, <2>6, <4>1 DEF AtvInv, PendingFits
      <3> QED BY <2>1, <3>1, <3>2
    <2>12. LateFits'
          BY <2>1, <2>5 DEF AtvInv, LateFits
    <2>13. PairedFits'
      <3>1. task[t].at \notin {"proved"} /\ task[t].at \notin {"proved", "clearing"} BY <2>1
      <3>2. /\ Excused({"proved"}) => Excused({"proved"})'
            /\ Excused({"proved", "clearing"}) => Excused({"proved", "clearing"})'
            BY <2>6, <3>1
      <3>3. failed' \in {failed, Nil} BY <2>1
      <3> QED BY <2>1, <2>5, <3>2, <3>3 DEF AtvInv, PairedFits
    <2> QED BY <2>7, <2>8, <2>9, <2>10, <2>11, <2>12, <2>13 DEF AtvInv
  <1>3. CASE Atv!Dropped(t)
    <2> DEFINE stray == IF task[t].at \in Atv!ChangeSteps \cup {"proved", "clearing"} THEN {"halfway"} ELSE {}
    <2>1. /\ task' = [task EXCEPT ![t] = Atv!Rests] /\ late' = late \ {t}
          /\ remoteLock' = (IF remoteLock = t THEN Nil ELSE remoteLock)
          /\ strays' = strays \cup stray
          /\ UNCHANGED <<host, device, remote, pending, failed, paired>>
          BY <1>3 DEF Atv!Dropped, Atv!Forgets, Atv!slots, Atv!world
    <2>2. task'[t] = Atv!Rests /\ \A u \in Task \ {t} : task'[u] = task[u]
          BY <1>0, <2>1
    <2>3. \A u \in Task : task'[u].at = "connecting" <=> remoteLock' = u
          BY <2>1, <2>2, RestsFits, TelevisionAssumption DEF AtvInv, RemoteFits
    <2>4. CASE task[t].at \in Excuses
      <3>1. "halfway" \in strays'
            BY <2>1, <2>4 DEF Excuses, Stages, Atv!ChangeSteps
      <3>2. \A places : Excused(places)'
            BY <3>1 DEF Excused
      <3>3. AtvTypes'
            BY <1>0, <2>1, <2>2, RestsFits DEF AtvTypes, Working, BoxCalls
      <3>4. LateFits'
            BY <2>1, <2>2, RestsFits DEF AtvInv, LateFits
      <3> QED BY <2>3, <3>2, <3>3, <3>4 DEF AtvInv, RemoteFits, FailedFits, DeviceFits, PendingFits, PairedFits
    <2>5. CASE task[t].at \notin Excuses
      <3>1. strays \subseteq strays' /\ remote' \in Kept BY <1>0, <2>1 DEF AtvTypes
      <3>2. /\ Atv!Rests \in TaskRec /\ Atv!Rests.at \notin Working
            /\ Atv!Rests.at \notin {"connecting", "ready", "shelling", "pairing"}
            BY RestsFits DEF Working, BoxCalls
      <3> HIDE DEF stray
      <3> QED BY <2>1, <2>3, <2>5, <3>1, <3>2, AtvStep
    <2> QED BY <2>4, <2>5
  <1> QED BY <1>1, <1>2, <1>3

\* Every step of the manager keeps it.
LEMMA AtvNext == AtvInv /\ Atv!Next => AtvInv'
  <1> SUFFICES ASSUME AtvInv, Atv!Next PROVE AtvInv'
      OBVIOUS
  <1>1. ASSUME UNCHANGED <<host, task, pending, remoteLock, paired, late, strays>>,
               device' \in {device, Nil}, remote' \in Kept, remote' # Nil => remote # Nil /\ remote'.box = remote.box,
               failed' \in {failed, Nil}
        PROVE  AtvInv'
    <2>1. \A places : Excused(places)' <=> Excused(places)
          BY <1>1 DEF Excused
    <2> QED BY <1>1, <2>1 DEF AtvInv, AtvTypes, RemoteFits, FailedFits, LateFits, DeviceFits, PendingFits, PairedFits
  <1>2. CASE Atv!BackOffEnds
    <2>1. /\ UNCHANGED <<host, task, pending, remoteLock, paired, late, strays, device, remote>> /\ failed' = Nil
          BY <1>2 DEF Atv!BackOffEnds, Atv!world
    <2>2. remote' \in Kept BY <2>1 DEF AtvInv, AtvTypes
    <2> QED BY <1>1, <2>1, <2>2
  <1>3. CASE Atv!Dies
    <2>1. /\ UNCHANGED <<host, task, pending, remoteLock, paired, late, strays, failed>>
          /\ \/ device' = Nil /\ UNCHANGED remote
             \/ Atv!SessionOpen /\ remote' = [remote EXCEPT !.open = FALSE] /\ UNCHANGED device
          BY <1>3 DEF Atv!Dies, Atv!world
    <2>2. remote \in Kept BY DEF AtvInv, AtvTypes
    <2>3. remote' \in Kept /\ (remote' # Nil => remote # Nil /\ remote'.box = remote.box)
      <3>1. CASE UNCHANGED remote BY <2>2, <3>1
      <3>2. CASE Atv!SessionOpen /\ remote' = [remote EXCEPT !.open = FALSE]
            BY <2>2, <3>2 DEF Kept, Atv!SessionOpen
      <3> QED BY <2>1, <3>1, <3>2
    <2> QED BY <1>1, <2>1, <2>3
  <1> QED BY <1>2, <1>3, RemoteSteps, ShellSteps, PairSteps, ChangeStep DEF Atv!Next

\* What the box's manager promises, of what it keeps and of whom it passes over.
LEMMA AtvHolds == AtvInv => Atv!FollowsAddress /\ Atv!PairedIsUsed
  <1> SUFFICES ASSUME AtvInv PROVE Atv!FollowsAddress /\ Atv!PairedIsUsed
      OBVIOUS
  <1>1. Atv!FollowsAddress
    <2> SUFFICES ASSUME ~Atv!Changing, "halfway" \notin strays
                 PROVE  /\ remote # Nil => remote.box = host
                        /\ failed # Nil => failed.box = host
                        /\ device \in {Nil, host} \/ "device" \in strays
                        /\ pending \in {Nil, host} \/ "pending" \in strays
        BY DEF Atv!FollowsAddress
    <2>1. \A places \in SUBSET Stages : ~Excused(places)
          BY DEF Excused, Atv!Changing, Atv!ChangeSteps, Stages
    <2>2. /\ {"drop_device", "drop_remote"} \in SUBSET Stages /\ Stages \in SUBSET Stages /\ {"drop_device"} \in SUBSET Stages
          /\ {"drop_device", "drop_remote", "drop_pending"} \in SUBSET Stages
          BY DEF Stages
    <2> QED BY <2>1, <2>2 DEF AtvInv, RemoteFits, FailedFits, DeviceFits, PendingFits
  <1>2. Atv!PairedIsUsed
        BY DEF AtvInv, PairedFits, Excused, Atv!PairedIsUsed
  <1> QED BY <1>1, <1>2

-----------------------------------------------------------------------------
(* The kept ADB connection.                                                *)

Kinds == {"CNXN", "TOKEN", "SIGNATURE", "PUBLICKEY", "OPEN", "OKAY", "WRTE", "CLSE"}
MsgRec == [kind : Kinds, id : Nat, of : User \cup {Nil}]
StreamRec == [id : Nat, of : User \cup {Nil}, left : Nat, acked : BOOLEAN]
UserRec == [at : {"idle", "waiting", "hello", "opening", "reading"}, id : Nat, got : Seq(User), fresh : BOOLEAN,
            tries : Nat, signed : BOOLEAN, offered : BOOLEAN, answer : {Nil, "ok", "failed"}]

AdbTypes ==
    /\ user \in [User -> UserRec]
    /\ in \in Seq(MsgRec) /\ out \in Seq(MsgRec) /\ stream \subseteq StreamRec
    /\ nextId \in Nat /\ up \in BOOLEAN

\* The messages of one stream on a line: none, one, or two in this order.
NoneOf(s, n) == \A i \in 1 .. Len(s) : s[i].id # n
OneOf(s, n, kind, of) ==
    \E i \in 1 .. Len(s) : /\ s[i] = Adb!Msg(kind, n, of)
                           /\ \A j \in 1 .. Len(s) : s[j].id = n => j = i
TwoOf(s, n, kind, of, kind2, of2) ==
    \E i, j \in 1 .. Len(s) : /\ i < j /\ s[i] = Adb!Msg(kind, n, of) /\ s[j] = Adb!Msg(kind2, n, of2)
                              /\ \A l \in 1 .. Len(s) : s[l].id = n => l \in {i, j}

NoStream(n) == \A s \in stream : s.id # n
TheStream(n, u, left, acked) ==
    \E s \in stream : /\ s.id = n /\ s.of = u /\ s.left = left /\ s.acked = acked
                      /\ \A z \in stream : z.id = n => z = s

\* How far the stream of a command has come: what this host read of it, what is on the line either
\* way, and what the box has yet to print.
Asked(a, u) ==
    /\ a.at = "opening" /\ a.got = <<>>
    /\ NoneOf(in, a.id) /\ NoStream(a.id)
    /\ OneOf(out, a.id, "OPEN", u) \/ (~up /\ NoneOf(out, a.id))
Refused(a) ==
    /\ a.at = "opening"
    /\ OneOf(in, a.id, "CLSE", Nil) /\ NoneOf(out, a.id) /\ NoStream(a.id)
Opened(a, u) ==
    /\ a.at = "opening" /\ a.got = <<>>
    /\ NoneOf(out, a.id)
    /\ \/ OneOf(in, a.id, "OKAY", Nil) /\ TheStream(a.id, u, Chunks, TRUE)
       \/ TwoOf(in, a.id, "OKAY", Nil, "WRTE", u) /\ Chunks > 0 /\ TheStream(a.id, u, Chunks - 1, FALSE)
       \/ TwoOf(in, a.id, "OKAY", Nil, "CLSE", Nil) /\ Chunks = 0 /\ NoStream(a.id)
Printing(a, u) ==
    /\ a.at = "reading" /\ Len(a.got) <= Chunks
    /\ \/ NoneOf(in, a.id) /\ NoneOf(out, a.id) /\ TheStream(a.id, u, Chunks - Len(a.got), TRUE)
       \/ /\ OneOf(in, a.id, "WRTE", u) /\ NoneOf(out, a.id) /\ Len(a.got) < Chunks
          /\ TheStream(a.id, u, Chunks - Len(a.got) - 1, FALSE)
       \/ /\ NoneOf(in, a.id) /\ TheStream(a.id, u, Chunks - Len(a.got), FALSE)
          /\ OneOf(out, a.id, "OKAY", Nil) \/ (~up /\ NoneOf(out, a.id))
       \/ OneOf(in, a.id, "CLSE", Nil) /\ NoneOf(out, a.id) /\ NoStream(a.id) /\ Len(a.got) = Chunks

Own(s, u) == \A i \in 1 .. Len(s) : s[i] = u

Lines(a, u) == a.at \in {"opening", "reading"} =>
    /\ a.id < nextId /\ Own(a.got, u)
    /\ Asked(a, u) \/ Refused(a) \/ Opened(a, u) \/ Printing(a, u)

\* No stream ahead of the counter, so that the next one is nobody's.
IdsFit ==
    /\ \A i \in 1 .. Len(in) : in[i].id < nextId
    /\ \A i \in 1 .. Len(out) : out[i].id < nextId
    /\ \A s \in stream : s.id < nextId

Talking == {"hello", "opening", "reading"}

Answered(a, u) ==
    /\ a.at # "idle" => a.answer = Nil
    /\ a.answer = "ok" => Own(a.got, u) /\ Len(a.got) = Chunks

AdbInv ==
    /\ AdbTypes /\ IdsFit
    /\ \A u \in User : lock = u <=> user[u].at \in Talking
    /\ \A u \in User : Answered(user[u], u) /\ Lines(user[u], u)

\* What a line holds of a stream when a message of another comes or goes, and when one of its own does.
LEMMA LineMoves ==
    ASSUME NEW s \in Seq(MsgRec), NEW m \in MsgRec, NEW n \in Nat
    PROVE  /\ m.id # n /\ NoneOf(s, n) => NoneOf(Append(s, m), n)
           /\ \A k, o : m.id # n /\ OneOf(s, n, k, o) => OneOf(Append(s, m), n, k, o)
           /\ \A k, o, l, p : m.id # n /\ TwoOf(s, n, k, o, l, p) => TwoOf(Append(s, m), n, k, o, l, p)
           /\ \A k, o : m = Adb!Msg(k, n, o) /\ NoneOf(s, n) => OneOf(Append(s, m), n, k, o)
           /\ \A k, o, l, p : m = Adb!Msg(l, n, p) /\ OneOf(s, n, k, o) => TwoOf(Append(s, m), n, k, o, l, p)
  <1> DEFINE t == Append(s, m)
  <1>1. /\ Len(s) \in Nat /\ Len(t) = Len(s) + 1 /\ t[Len(s) + 1] = m /\ \A i \in 1 .. Len(s) : t[i] = s[i]
        /\ \A i \in 1 .. Len(t) : i \in 1 .. Len(s) \/ i = Len(s) + 1
        /\ \A i \in 1 .. Len(s) : i \in 1 .. Len(t) /\ i < Len(s) + 1
        /\ Len(s) + 1 \in 1 .. Len(t)
        OBVIOUS
  <1>2. \A k, o : Adb!Msg(k, n, o).id = n
        BY DEF Adb!Msg
  <1> HIDE DEF t
  <1>3. m.id # n /\ NoneOf(s, n) => NoneOf(t, n)
        BY <1>1 DEF NoneOf
  <1>4. ASSUME NEW k, NEW o, m.id # n, OneOf(s, n, k, o) PROVE OneOf(t, n, k, o)
    <2>1. PICK i \in 1 .. Len(s) : s[i] = Adb!Msg(k, n, o) /\ \A j \in 1 .. Len(s) : s[j].id = n => j = i
          BY <1>4 DEF OneOf
    <2>2. i \in 1 .. Len(t) /\ t[i] = Adb!Msg(k, n, o) BY <1>1, <2>1
    <2>3. \A j \in 1 .. Len(t) : t[j].id = n => j = i BY <1>1, <1>4, <2>1
    <2> QED BY <2>2, <2>3 DEF OneOf
  <1>5. ASSUME NEW k, NEW o, NEW l, NEW p, m.id # n, TwoOf(s, n, k, o, l, p) PROVE TwoOf(t, n, k, o, l, p)
    <2>1. PICK i \in 1 .. Len(s), j \in 1 .. Len(s) :
            /\ i < j /\ s[i] = Adb!Msg(k, n, o) /\ s[j] = Adb!Msg(l, n, p)
            /\ \A h \in 1 .. Len(s) : s[h].id = n => h \in {i, j}
          BY <1>5 DEF TwoOf
    <2>2. /\ i \in 1 .. Len(t) /\ j \in 1 .. Len(t) /\ i < j
          /\ t[i] = Adb!Msg(k, n, o) /\ t[j] = Adb!Msg(l, n, p)
          BY <1>1, <2>1
    <2>3. \A h \in 1 .. Len(t) : t[h].id = n => h \in {i, j} BY <1>1, <1>5, <2>1
    <2> QED BY <2>2, <2>3 DEF TwoOf
  <1>6. ASSUME NEW k, NEW o, m = Adb!Msg(k, n, o), NoneOf(s, n) PROVE OneOf(t, n, k, o)
    <2>1. \A j \in 1 .. Len(t) : t[j].id = n => j = Len(s) + 1 BY <1>1, <1>6 DEF NoneOf
    <2> QED BY <1>1, <1>6, <2>1 DEF OneOf
  <1>7. ASSUME NEW k, NEW o, NEW l, NEW p, m = Adb!Msg(l, n, p), OneOf(s, n, k, o) PROVE TwoOf(t, n, k, o, l, p)
    <2>1. PICK i \in 1 .. Len(s) : s[i] = Adb!Msg(k, n, o) /\ \A j \in 1 .. Len(s) : s[j].id = n => j = i
          BY <1>7 DEF OneOf
    <2>2. /\ i \in 1 .. Len(t) /\ Len(s) + 1 \in 1 .. Len(t) /\ i < Len(s) + 1
          /\ t[i] = Adb!Msg(k, n, o) /\ t[Len(s) + 1] = Adb!Msg(l, n, p)
          BY <1>1, <1>7, <2>1
    <2>3. \A h \in 1 .. Len(t) : t[h].id = n => h \in {i, Len(s) + 1} BY <1>1, <2>1
    <2> QED BY <2>2, <2>3 DEF TwoOf
  <1> QED BY <1>3, <1>4, <1>5, <1>6, <1>7 DEF t

\* The same for reading: what is first on a line is of another stream, or the first of this one.
LEMMA LineReads ==
    ASSUME NEW s \in Seq(MsgRec), s # <<>>, NEW n \in Nat
    PROVE  /\ NoneOf(s, n) => NoneOf(Tail(s), n) /\ Head(s).id # n
           /\ \A k, o : OneOf(s, n, k, o) =>
                \/ Head(s).id # n /\ OneOf(Tail(s), n, k, o)
                \/ Head(s) = Adb!Msg(k, n, o) /\ NoneOf(Tail(s), n)
           /\ \A k, o, l, p : TwoOf(s, n, k, o, l, p) =>
                \/ Head(s).id # n /\ TwoOf(Tail(s), n, k, o, l, p)
                \/ Head(s) = Adb!Msg(k, n, o) /\ OneOf(Tail(s), n, l, p)
  <1> DEFINE t == Tail(s)
  <1>1. /\ Len(s) \in Nat /\ Len(s) >= 1 /\ Len(t) = Len(s) - 1 /\ Head(s) = s[1] /\ 1 \in 1 .. Len(s)
        /\ \A i \in 1 .. Len(t) : i + 1 \in 1 .. Len(s) /\ t[i] = s[i + 1]
        /\ \A i \in 1 .. Len(s) : i # 1 => i - 1 \in 1 .. Len(t) /\ t[i - 1] = s[i]
        OBVIOUS
  <1>2. \A k, o : Adb!Msg(k, n, o).id = n
        BY DEF Adb!Msg
  <1> HIDE DEF t
  <1>3. NoneOf(s, n) => NoneOf(t, n) /\ Head(s).id # n
        BY <1>1 DEF NoneOf
  <1>4. ASSUME NEW k, NEW o, OneOf(s, n, k, o)
        PROVE  \/ Head(s).id # n /\ OneOf(t, n, k, o)
               \/ Head(s) = Adb!Msg(k, n, o) /\ NoneOf(t, n)
    <2>1. PICK i \in 1 .. Len(s) : s[i] = Adb!Msg(k, n, o) /\ \A j \in 1 .. Len(s) : s[j].id = n => j = i
          BY <1>4 DEF OneOf
    <2>2. CASE i = 1
      <3>1. \A j \in 1 .. Len(t) : t[j].id # n BY <1>1, <2>1, <2>2
      <3> QED BY <1>1, <2>1, <2>2, <3>1 DEF NoneOf
    <2>3. CASE i # 1
      <3>1. Head(s).id # n BY <1>1, <2>1, <2>3
      <3>2. i - 1 \in 1 .. Len(t) /\ t[i - 1] = Adb!Msg(k, n, o) BY <1>1, <2>1, <2>3
      <3>3. \A j \in 1 .. Len(t) : t[j].id = n => j = i - 1 BY <1>1, <2>1
      <3> QED BY <3>1, <3>2, <3>3 DEF OneOf
    <2> QED BY <2>2, <2>3
  <1>5. ASSUME NEW k, NEW o, NEW l, NEW p, TwoOf(s, n, k, o, l, p)
        PROVE  \/ Head(s).id # n /\ TwoOf(t, n, k, o, l, p)
               \/ Head(s) = Adb!Msg(k, n, o) /\ OneOf(t, n, l, p)
    <2>1. PICK i \in 1 .. Len(s), j \in 1 .. Len(s) :
            /\ i < j /\ s[i] = Adb!Msg(k, n, o) /\ s[j] = Adb!Msg(l, n, p)
            /\ \A h \in 1 .. Len(s) : s[h].id = n => h \in {i, j}
          BY <1>5 DEF TwoOf
    <2>2. j - 1 \in 1 .. Len(t) /\ t[j - 1] = Adb!Msg(l, n, p) BY <1>1, <2>1
    <2>3. CASE i = 1
      <3>1. \A h \in 1 .. Len(t) : t[h].id = n => h = j - 1 BY <1>1, <2>1, <2>3
      <3> QED BY <1>1, <2>1, <2>2, <2>3, <3>1 DEF OneOf
    <2>4. CASE i # 1
      <3>1. Head(s).id # n BY <1>1, <2>1, <2>4
      <3>2. i - 1 \in 1 .. Len(t) /\ t[i - 1] = Adb!Msg(k, n, o) /\ i - 1 < j - 1 BY <1>1, <2>1, <2>4
      <3>3. \A h \in 1 .. Len(t) : t[h].id = n => h \in {i - 1, j - 1} BY <1>1, <2>1
      <3> QED BY <2>2, <3>1, <3>2, <3>3 DEF TwoOf
    <2> QED BY <2>3, <2>4
  <1> QED BY <1>3, <1>4, <1>5 DEF t

\* The first state of the connection: there is none.
LEMMA AdbInit == Adb!Init => AdbInv
  <1> SUFFICES ASSUME Adb!Init PROVE AdbInv
      OBVIOUS
  <1>1. /\ user = [u \in User |-> Adb!Idle] /\ lock = Nil /\ up = FALSE /\ out = <<>> /\ in = <<>>
        /\ nextId = 1 /\ stream = {}
        BY DEF Adb!Init
  <1>2. Adb!Idle \in UserRec /\ Adb!Idle.at = "idle" /\ Adb!Idle.answer = Nil
        BY DEF Adb!Idle, UserRec
  <1>3. AdbTypes /\ IdsFit
    <2>1. <<>> \in Seq(MsgRec) /\ Len(<<>>) = 0
          OBVIOUS
    <2>2. AdbTypes
          BY <1>1, <1>2, <2>1 DEF AdbTypes
    <2>3. IdsFit
          BY <1>1, <2>1 DEF IdsFit
    <2> QED BY <2>2, <2>3
  <1>4. \A u \in User : user[u] = Adb!Idle
        BY <1>1
  <1>5. \A u \in User : Answered(user[u], u) /\ Lines(user[u], u)
        BY <1>2, <1>4, TelevisionAssumption DEF Answered, Lines
  <1> QED BY <1>1, <1>2, <1>3, <1>4, <1>5, TelevisionAssumption DEF AdbInv, Talking

\* A step of whoever holds the connection, or takes it, concerns no other.
LEMMA MineStep ==
    ASSUME AdbInv, NEW u \in User, NEW r \in UserRec, user' = [user EXCEPT ![u] = r],
           lock \in {u, Nil}, lock' = IF r.at \in Talking THEN u ELSE Nil,
           AdbTypes', IdsFit', Answered(r, u), Lines(r, u)'
    PROVE  AdbInv'
  <1>1. user'[u] = r /\ \A v \in User \ {u} : user'[v] = user[v]
        BY DEF AdbInv, AdbTypes
  <1>2. \A v \in User \ {u} : user[v].at \notin Talking
        BY TelevisionAssumption DEF AdbInv
  <1>3. \A v \in User : lock' = v <=> user'[v].at \in Talking
        BY <1>1, <1>2, TelevisionAssumption
  <1>4. \A v \in User \ {u} : Lines(user[v], v)'
        BY <1>1, <1>2 DEF Lines, Talking
  <1>5. \A v \in User : Lines(user[v], v)'
    <2> TAKE v \in User
    <2>1. CASE v = u BY <1>1, <2>1 DEF Lines, Asked, Refused, Opened, Printing
    <2>2. CASE v # u BY <1>4, <2>2
    <2> QED BY <2>1, <2>2
  <1>6. \A v \in User : Answered(user'[v], v)
        BY <1>1 DEF AdbInv
  <1> QED BY <1>3, <1>5, <1>6 DEF AdbInv, Answered, Own

\* A step of who does not hold it leaves it as it was.
LEMMA AsideStep ==
    ASSUME AdbInv, NEW u \in User, NEW r \in UserRec, user' = [user EXCEPT ![u] = r],
           user[u].at \notin Talking, r.at \notin Talking, Answered(r, u),
           UNCHANGED <<lock, up, out, in, nextId, stream>>
    PROVE  AdbInv'
  <1>1. user'[u] = r /\ \A v \in User \ {u} : user'[v] = user[v]
        BY DEF AdbInv, AdbTypes
  <1>2. AdbTypes' /\ IdsFit'
        BY DEF AdbInv, AdbTypes, IdsFit
  <1>3. \A v \in User : lock' = v <=> user'[v].at \in Talking
        BY <1>1 DEF AdbInv
  <1>4. \A v \in User : Answered(user'[v], v)
        BY <1>1 DEF AdbInv
  <1>5. \A v \in User \ {u} : Lines(user[v], v)'
        BY <1>1 DEF AdbInv, Lines, Asked, Refused, Opened, Printing, NoStream, TheStream
  <1>6. Lines(user[u], u)'
        BY <1>1 DEF Lines, Talking
  <1> QED BY <1>2, <1>3, <1>4, <1>5, <1>6 DEF AdbInv, Answered, Own

\* What passes on the lines of other streams is nothing to a command.
LEMMA LineSame ==
    ASSUME AdbTypes, AdbTypes', NEW u \in User, NEW a \in UserRec, Lines(a, u), a.at \in {"opening", "reading"},
           \/ in' = in
           \/ in # <<>> /\ Head(in).id # a.id /\ in' = Tail(in)
           \/ \E m \in MsgRec : m.id # a.id /\ in' = Append(in, m),
           out' = out \/ (out # <<>> /\ Head(out).id # a.id /\ out' = Tail(out)),
           \A s \in StreamRec : s.id = a.id => (s \in stream' <=> s \in stream),
           up' = up, nextId' = nextId
    PROVE  Lines(a, u)'
  <1>0. a.id \in Nat /\ in \in Seq(MsgRec) /\ out \in Seq(MsgRec) /\ stream \subseteq StreamRec /\ stream' \subseteq StreamRec
        BY DEF AdbTypes, UserRec
  <1>1. /\ NoneOf(in, a.id) => NoneOf(in', a.id)
        /\ \A k, o : OneOf(in, a.id, k, o) => OneOf(in', a.id, k, o)
        /\ \A k, o, l, p : TwoOf(in, a.id, k, o, l, p) => TwoOf(in', a.id, k, o, l, p)
    <2>1. CASE in' = in BY <2>1
    <2>2. ASSUME NEW m \in MsgRec, m.id # a.id, in' = Append(in, m)
          PROVE  /\ NoneOf(in, a.id) => NoneOf(in', a.id)
                 /\ \A k, o : OneOf(in, a.id, k, o) => OneOf(in', a.id, k, o)
                 /\ \A k, o, l, p : TwoOf(in, a.id, k, o, l, p) => TwoOf(in', a.id, k, o, l, p)
          BY <1>0, <2>2, LineMoves
    <2>3. CASE in # <<>> /\ Head(in).id # a.id /\ in' = Tail(in)
      <3>1. \A k, o : Adb!Msg(k, a.id, o).id = a.id BY DEF Adb!Msg
      <3> QED BY <1>0, <2>3, <3>1, LineReads
    <2> QED BY <2>1, <2>2, <2>3
  <1>2. /\ NoneOf(out, a.id) => NoneOf(out', a.id)
        /\ \A k, o : OneOf(out, a.id, k, o) => OneOf(out', a.id, k, o)
    <2>1. CASE out' = out BY <2>1
    <2>2. CASE out # <<>> /\ Head(out).id # a.id /\ out' = Tail(out)
      <3>1. \A k, o : Adb!Msg(k, a.id, o).id = a.id BY DEF Adb!Msg
      <3> QED BY <1>0, <2>2, <3>1, LineReads
    <2> QED BY <2>1, <2>2
  <1>3. /\ NoStream(a.id) => NoStream(a.id)'
        /\ \A left, acked : TheStream(a.id, u, left, acked) => TheStream(a.id, u, left, acked)'
    <2>1. NoStream(a.id) => NoStream(a.id)'
          BY <1>0 DEF NoStream
    <2>2. ASSUME NEW left, NEW acked, TheStream(a.id, u, left, acked) PROVE TheStream(a.id, u, left, acked)'
          BY <1>0, <2>2 DEF TheStream
    <2> QED BY <2>1, <2>2
  <1>4. Asked(a, u) => Asked(a, u)'
        BY <1>1, <1>2, <1>3 DEF Asked
  <1>5. Refused(a) => Refused(a)'
        BY <1>1, <1>2, <1>3 DEF Refused
  <1>6. Opened(a, u) => Opened(a, u)'
        BY <1>1, <1>2, <1>3 DEF Opened
  <1>7. Printing(a, u) => Printing(a, u)'
        BY <1>1, <1>2, <1>3 DEF Printing
  <1> QED BY <1>4, <1>5, <1>6, <1>7 DEF Lines, Own

\* The messages of this host and of the box are messages.
LEMMA MsgFits ==
    ASSUME NEW kind \in Kinds, NEW n \in Nat, NEW of \in User \cup {Nil}
    PROVE  LET m == Adb!Msg(kind, n, of) IN m \in MsgRec /\ m.kind = kind /\ m.id = n /\ m.of = of
  BY DEF Adb!Msg, MsgRec

\* The counter stays ahead of a message more or less.
LEMMA IdsGo ==
    ASSUME NEW s \in Seq(MsgRec), NEW m \in MsgRec, NEW n \in Nat, \A i \in 1 .. Len(s) : s[i].id < n
    PROVE  /\ m.id < n => \A i \in 1 .. Len(Append(s, m)) : Append(s, m)[i].id < n
           /\ s # <<>> => /\ Head(s) \in MsgRec /\ Head(s).id < n /\ Tail(s) \in Seq(MsgRec)
                          /\ \A i \in 1 .. Len(Tail(s)) : Tail(s)[i].id < n
  <1>1. ASSUME m.id < n PROVE \A i \in 1 .. Len(Append(s, m)) : Append(s, m)[i].id < n
    <2>1. /\ Len(s) \in Nat /\ Len(Append(s, m)) = Len(s) + 1 /\ Append(s, m)[Len(s) + 1] = m
          /\ \A i \in 1 .. Len(s) : Append(s, m)[i] = s[i]
          OBVIOUS
    <2> QED BY <1>1, <2>1
  <1>2. ASSUME s # <<>>
        PROVE  /\ Head(s) \in MsgRec /\ Head(s).id < n /\ Tail(s) \in Seq(MsgRec)
               /\ \A i \in 1 .. Len(Tail(s)) : Tail(s)[i].id < n
    <2>1. /\ Len(s) \in Nat /\ Len(s) >= 1 /\ Len(Tail(s)) = Len(s) - 1 /\ Head(s) = s[1] /\ Tail(s) \in Seq(MsgRec)
          /\ \A i \in 1 .. Len(Tail(s)) : i + 1 \in 1 .. Len(s) /\ Tail(s)[i] = s[i + 1]
          BY <1>2
    <2>2. 1 \in 1 .. Len(s) BY <2>1
    <2> QED BY <2>1, <2>2
  <1> QED BY <1>1, <1>2

\* A line on which nobody came near this stream holds nothing of it.
LEMMA NoneAhead ==
    ASSUME NEW s \in Seq(MsgRec), NEW n \in Nat, \A i \in 1 .. Len(s) : s[i].id < n
    PROVE  NoneOf(s, n)
  <1>1. \A i \in 1 .. Len(s) : s[i] \in MsgRec
        OBVIOUS
  <1> QED BY <1>1 DEF NoneOf, MsgRec

\* A new connection: nothing on the lines but the first word.
LEMMA DialsFits ==
    ASSUME AdbInv, NEW u \in User, Adb!Dials(u), lock' = u, lock \in {u, Nil}, user[u].answer = Nil
    PROVE  AdbInv'
  <1> DEFINE c == Adb!Msg("CNXN", 0, Nil)
  <1>0. user \in [User -> UserRec]
        BY DEF AdbInv, AdbTypes
  <1>1. PICK r \in UserRec : user' = [user EXCEPT ![u] = r] /\ r.at = "hello" /\ r.answer = Nil
    <2> DEFINE r == [user[u] EXCEPT !.at = "hello", !.fresh = TRUE, !.signed = FALSE, !.offered = FALSE]
    <2>1. user' = [user EXCEPT ![u] = r]
          BY <1>0 DEF Adb!Dials
    <2>2. r \in UserRec /\ r.at = "hello" /\ r.answer = Nil
          BY <1>0 DEF UserRec
    <2> QED BY <2>1, <2>2
  <1>2. up' = TRUE /\ out' = <<c>> /\ in' = <<>> /\ nextId' = 1 /\ stream' = {}
        BY DEF Adb!Dials
  <1>3. c \in MsgRec /\ c.id = 0
        BY MsgFits DEF Kinds
  <1> HIDE DEF c
  <1>4. out' \in Seq(MsgRec) /\ Len(out') = 1 /\ out'[1] = c /\ in' \in Seq(MsgRec) /\ Len(in') = 0
        BY <1>2, <1>3
  <1>5. AdbTypes'
        BY <1>0, <1>1, <1>2, <1>4 DEF AdbTypes
  <1>6. IdsFit'
        BY <1>2, <1>3, <1>4 DEF IdsFit
  <1>7. Answered(r, u) /\ Lines(r, u)' /\ lock' = IF r.at \in Talking THEN u ELSE Nil
        BY <1>1, TelevisionAssumption DEF Answered, Lines, Talking
  <1> QED BY <1>1, <1>5, <1>6, <1>7, MineStep

\* A stream is opened: nothing on the lines is its own but the asking.
LEMMA OpensFits ==
    ASSUME AdbInv, NEW u \in User, Adb!Opens(u, user[u]), lock' = u, lock \in {u, Nil}, user[u].answer = Nil,
           in' = in \/ (in # <<>> /\ in' = Tail(in)), UNCHANGED <<up, stream>>
    PROVE  AdbInv'
  <1>0. /\ user \in [User -> UserRec] /\ in \in Seq(MsgRec) /\ out \in Seq(MsgRec) /\ stream \subseteq StreamRec
        /\ nextId \in Nat /\ up \in BOOLEAN /\ IdsFit
        BY DEF AdbInv, AdbTypes
  <1>n. PICK n \in Nat : n = nextId
        BY <1>0
  <1>1. PICK r \in UserRec : /\ user' = [user EXCEPT ![u] = r] /\ r.at = "opening" /\ r.id = n /\ r.got = <<>>
                             /\ r.answer = Nil
    <2> DEFINE r == [user[u] EXCEPT !.at = "opening", !.id = n, !.got = <<>>, !.tries = user[u].tries + 1]
    <2>1. user' = [user EXCEPT ![u] = r]
          BY <1>0, <1>n DEF Adb!Opens
    <2>2. r \in UserRec /\ r.at = "opening" /\ r.id = n /\ r.got = <<>> /\ r.answer = Nil
      <3>1. user[u].tries + 1 \in Nat /\ <<>> \in Seq(User) BY <1>0 DEF UserRec
      <3> QED BY <1>0, <3>1 DEF UserRec
    <2> QED BY <2>1, <2>2
  <1> DEFINE m == Adb!Msg("OPEN", n, u)
  <1>2. nextId' = n + 1 /\ out' = IF up THEN Append(out, m) ELSE out
        BY <1>n DEF Adb!Opens, Adb!Writes
  <1>3. m \in MsgRec /\ m.id = n
        BY <1>0, MsgFits DEF Kinds
  <1>4. NoneOf(out, n) /\ NoneOf(in', n) /\ NoStream(n)
    <2>1. NoneOf(out, n) /\ NoneOf(in, n)
          BY <1>0, <1>n, NoneAhead DEF IdsFit
    <2>2. NoneOf(in', n)
      <3>1. CASE in' = in BY <2>1, <3>1
      <3>2. CASE in # <<>> /\ in' = Tail(in) BY <1>0, <2>1, <3>2, LineReads
      <3> QED BY <3>1, <3>2
    <2>3. NoStream(n)
          BY <1>0, <1>n DEF IdsFit, NoStream, StreamRec
    <2> QED BY <2>1, <2>2, <2>3
  <1>5. OneOf(out', n, "OPEN", u) \/ (~up /\ NoneOf(out', n))
    <2>1. CASE up BY <1>0, <1>2, <1>3, <1>4, <2>1, LineMoves
    <2>2. CASE ~up BY <1>2, <1>4, <2>2
    <2> QED BY <2>1, <2>2
  <1>6. in' \in Seq(MsgRec) /\ out' \in Seq(MsgRec)
        BY <1>0, <1>2, <1>3
  <1>7. AdbTypes'
        BY <1>0, <1>1, <1>2, <1>6 DEF AdbTypes
  <1>8. IdsFit'
    <2> DEFINE k == n + 1
    <2>0. k \in Nat /\ n < k OBVIOUS
    <2>1. \A i \in 1 .. Len(in) : in[i] \in MsgRec /\ in[i].id < n BY <1>0, <1>n DEF IdsFit
    <2>2. \A i \in 1 .. Len(out) : out[i] \in MsgRec /\ out[i].id < n BY <1>0, <1>n DEF IdsFit
    <2>3. \A i \in 1 .. Len(in) : in[i].id < k BY <1>0, <2>1 DEF MsgRec
    <2>4. \A i \in 1 .. Len(out) : out[i].id < k BY <1>0, <2>2 DEF MsgRec
    <2>5. \A s \in stream : s.id < k BY <1>0, <1>n DEF IdsFit, StreamRec
    <2> HIDE DEF k, m
    <2>6. \A i \in 1 .. Len(in') : in'[i].id < k
          BY <1>0, <1>3, <2>0, <2>3, IdsGo
    <2>7. \A i \in 1 .. Len(out') : out'[i].id < k
          BY <1>0, <1>2, <1>3, <2>0, <2>4, IdsGo
    <2> QED BY <1>2, <2>5, <2>6, <2>7 DEF IdsFit, k
  <1>9. Answered(r, u)
        BY <1>1, TelevisionAssumption DEF Answered
  <1>10. Lines(r, u)'
    <2>1. NoStream(n)' /\ n < nextId' BY <1>2, <1>4 DEF NoStream
    <2>2. Own(<<>>, u) BY DEF Own
    <2>3. Asked(r, u)' BY <1>1, <1>4, <1>5, <2>1 DEF Asked, NoStream
    <2> QED BY <1>1, <2>1, <2>2, <2>3 DEF Lines, Own
  <1>11. lock' = IF r.at \in Talking THEN u ELSE Nil
         BY <1>1 DEF Talking
  <1> QED BY <1>1, <1>7, <1>8, <1>9, <1>10, <1>11, MineStep

\* A user that ends, well or not, or is dropped.
LEMMA ShellEnds ==
    ASSUME AdbInv, NEW u \in User, NEW r \in UserRec, user' = [user EXCEPT ![u] = r], r.at = "idle",
           lock = u, lock' = Nil, Answered(r, u),
           in' \in {in, <<>>} \/ (in # <<>> /\ in' = Tail(in)),
           out' \in {out, <<>>} \/ (\E m \in MsgRec : m.id < nextId /\ out' = Append(out, m)),
           up' \in BOOLEAN, nextId' = nextId, stream' = stream
    PROVE  AdbInv'
  <1>0. /\ user \in [User -> UserRec] /\ in \in Seq(MsgRec) /\ out \in Seq(MsgRec) /\ stream \subseteq StreamRec
        /\ nextId \in Nat /\ IdsFit
        BY DEF AdbInv, AdbTypes
  <1>1. <<>> \in Seq(MsgRec) /\ Len(<<>>) = 0
        OBVIOUS
  <1>2. in' \in Seq(MsgRec) /\ \A i \in 1 .. Len(in') : in'[i].id < nextId
    <2>1. CASE in' = in BY <1>0, <2>1 DEF IdsFit
    <2>0. ASSUME in' = <<>> PROVE in' \in Seq(MsgRec) /\ \A i \in 1 .. Len(in') : in'[i].id < nextId
          BY <1>1, <2>0
    <2>2. CASE in # <<>> /\ in' = Tail(in)
      <3>1. PICK m \in MsgRec : m = Head(in) BY <1>0, <2>2
      <3> QED BY <1>0, <2>2, <3>1, IdsGo DEF IdsFit
    <2> QED BY <2>0, <2>1, <2>2
  <1>3. out' \in Seq(MsgRec) /\ \A i \in 1 .. Len(out') : out'[i].id < nextId
    <2>1. CASE out' = out BY <1>0, <2>1 DEF IdsFit
    <2>0. ASSUME out' = <<>> PROVE out' \in Seq(MsgRec) /\ \A i \in 1 .. Len(out') : out'[i].id < nextId
          BY <1>1, <2>0
    <2>2. ASSUME NEW m \in MsgRec, m.id < nextId, out' = Append(out, m)
          PROVE  out' \in Seq(MsgRec) /\ \A i \in 1 .. Len(out') : out'[i].id < nextId
          BY <1>0, <2>2, IdsGo DEF IdsFit
    <2> QED BY <2>0, <2>1, <2>2
  <1>4. AdbTypes' /\ IdsFit'
        BY <1>0, <1>2, <1>3 DEF AdbTypes, IdsFit
  <1>5. Lines(r, u)' /\ lock \in {u, Nil} /\ lock' = IF r.at \in Talking THEN u ELSE Nil
        BY DEF Lines, Talking
  <1> QED BY <1>4, <1>5, MineStep

\* What a message that comes or goes leaves of the types and of the counter.
LEMMA MovesFit ==
    ASSUME AdbTypes, IdsFit, user' \in [User -> UserRec],
           in' = in \/ (in # <<>> /\ in' = Tail(in)) \/ (\E m \in MsgRec : m.id < nextId /\ in' = Append(in, m)),
           \/ out' \in {out, <<>>}
           \/ out # <<>> /\ out' = Tail(out)
           \/ \E m \in MsgRec : m.id < nextId /\ out' = Append(out, m),
           stream' \subseteq StreamRec, \A s \in stream' : s.id < nextId, up' \in BOOLEAN, nextId' = nextId
    PROVE  AdbTypes' /\ IdsFit'
  <1>0. in \in Seq(MsgRec) /\ out \in Seq(MsgRec) /\ nextId \in Nat
        BY DEF AdbTypes
  <1>1. in' \in Seq(MsgRec) /\ \A i \in 1 .. Len(in') : in'[i].id < nextId
    <2>1. CASE in' = in BY <1>0, <2>1 DEF IdsFit
    <2>2. CASE in # <<>> /\ in' = Tail(in)
      <3>1. PICK m \in MsgRec : m = Head(in) BY <1>0, <2>2
      <3> QED BY <1>0, <2>2, <3>1, IdsGo DEF IdsFit
    <2>3. ASSUME NEW m \in MsgRec, m.id < nextId, in' = Append(in, m)
          PROVE  in' \in Seq(MsgRec) /\ \A i \in 1 .. Len(in') : in'[i].id < nextId
          BY <1>0, <2>3, IdsGo DEF IdsFit
    <2> QED BY <2>1, <2>2, <2>3
  <1>2. out' \in Seq(MsgRec) /\ \A i \in 1 .. Len(out') : out'[i].id < nextId
    <2>1. CASE out' = out BY <1>0, <2>1 DEF IdsFit
    <2>2. CASE out # <<>> /\ out' = Tail(out)
      <3>1. PICK m \in MsgRec : m = Head(out) BY <1>0, <2>2
      <3> QED BY <1>0, <2>2, <3>1, IdsGo DEF IdsFit
    <2>3. ASSUME NEW m \in MsgRec, m.id < nextId, out' = Append(out, m)
          PROVE  out' \in Seq(MsgRec) /\ \A i \in 1 .. Len(out') : out'[i].id < nextId
          BY <1>0, <2>3, IdsGo DEF IdsFit
    <2>4. ASSUME out' = <<>> PROVE out' \in Seq(MsgRec) /\ \A i \in 1 .. Len(out') : out'[i].id < nextId
      <3>1. <<>> \in Seq(MsgRec) /\ Len(<<>>) = 0 OBVIOUS
      <3> QED BY <2>4, <3>1
    <2> QED BY <2>1, <2>2, <2>3, <2>4
  <1> QED BY <1>1, <1>2 DEF AdbTypes, IdsFit

\* A step of the box: nobody's part changes but what is on the lines.
LEMMA BoxStep ==
    ASSUME AdbInv, UNCHANGED <<user, lock>>, AdbTypes', IdsFit',
           \A u \in User : user[u].at \in {"opening", "reading"} => Lines(user[u], u)'
    PROVE  AdbInv'
  <1>1. \A u \in User : Lines(user[u], u)'
        BY DEF Lines
  <1>2. \A u \in User : Answered(user[u], u)'
        BY DEF AdbInv, Answered, Own
  <1> QED BY <1>1, <1>2 DEF AdbInv

\* Who answers is idle, and keeps what was read.
LEMMA AnswersIs ==
    ASSUME AdbTypes, NEW u \in User, NEW how \in {"ok", "failed"}, Adb!Answers(u, how)
    PROVE  \E r \in UserRec : /\ user' = [user EXCEPT ![u] = r] /\ r.at = "idle" /\ r.answer = how
                              /\ r.got = user[u].got
  <1> DEFINE r == [user[u] EXCEPT !.at = "idle", !.answer = how]
  <1>0. user \in [User -> UserRec]
        BY DEF AdbTypes
  <1>1. user' = [user EXCEPT ![u] = r]
        BY <1>0 DEF Adb!Answers
  <1>2. r \in UserRec /\ r.at = "idle" /\ r.answer = how /\ r.got = user[u].got
        BY <1>0 DEF UserRec
  <1> QED BY <1>1, <1>2

\* An exchange that fails: another connection, or an error.
LEMMA BrokenFits ==
    ASSUME AdbInv, NEW u \in User, lock = u, Adb!Broken(u)
    PROVE  AdbInv'
  <1>0. AdbTypes /\ user[u].at \in Talking /\ user[u].answer = Nil
        BY DEF AdbInv, Answered, Talking
  <1>1. CASE user[u].fresh
    <2>1. /\ Adb!Answers(u, "failed") /\ lock' = Nil
          /\ up' = FALSE /\ out' = <<>> /\ in' = <<>> /\ nextId' = nextId /\ stream' = stream
          BY <1>1 DEF Adb!Broken, Adb!Answers
    <2>2. PICK r \in UserRec : user' = [user EXCEPT ![u] = r] /\ r.at = "idle" /\ r.answer = "failed"
          BY <1>0, <2>1, AnswersIs
    <2>3. Answered(r, u)
          BY <2>2 DEF Answered
    <2> QED BY <2>1, <2>2, <2>3, ShellEnds
  <1>2. CASE ~user[u].fresh
        BY <1>0, <1>2, DialsFits DEF Adb!Broken
  <1> QED BY <1>1, <1>2

\* A shell is asked for, or finds no box: whoever holds the connection is not concerned.
LEMMA UserAside ==
    ASSUME AdbInv, NEW u \in User, Adb!Shell(u) \/ Adb!DialFails(u)
    PROVE  AdbInv'
  <1>0. user \in [User -> UserRec] /\ AdbTypes
        BY DEF AdbInv, AdbTypes
  <1>1. CASE Adb!Shell(u)
    <2> DEFINE r == [Adb!Idle EXCEPT !.at = "waiting"]
    <2>1. user' = [user EXCEPT ![u] = r] /\ user[u].at = "idle" /\ UNCHANGED <<lock, up, out, in, nextId, stream>>
          BY <1>1 DEF Adb!Shell, Adb!conn
    <2>2. r \in UserRec /\ r.at = "waiting" /\ r.answer = Nil
      <3>1. <<>> \in Seq(User) OBVIOUS
      <3> QED BY <3>1 DEF UserRec, Adb!Idle
    <2>3. Answered(r, u)
          BY <2>2, TelevisionAssumption DEF Answered
    <2> HIDE DEF r
    <2> QED BY <2>1, <2>2, <2>3, AsideStep DEF Talking
  <1>2. CASE Adb!DialFails(u)
    <2> DEFINE r == [user[u] EXCEPT !.at = "idle", !.answer = "failed"]
    <2>1. user' = [user EXCEPT ![u] = r]
          BY <1>0, <1>2 DEF Adb!DialFails
    <2>2. user[u].at = "waiting" /\ UNCHANGED <<lock, up, out, in, nextId, stream>>
          BY <1>2 DEF Adb!DialFails, Adb!conn
    <2>3. r \in UserRec /\ r.at = "idle" /\ r.answer = "failed"
          BY <1>0 DEF UserRec
    <2>4. Answered(r, u)
          BY <2>3 DEF Answered
    <2> HIDE DEF r
    <2> QED BY <2>1, <2>2, <2>3, <2>4, AsideStep DEF Talking
  <1> QED BY <1>1, <1>2

\* A shell is dropped, waiting or talking.
LEMMA UserLeaves ==
    ASSUME AdbInv, NEW u \in User, Adb!Leave(u)
    PROVE  AdbInv'
  <1>0. AdbTypes /\ (lock = u <=> user[u].at \in Talking)
        BY DEF AdbInv
  <1>1. PICK r \in UserRec : user' = [user EXCEPT ![u] = r] /\ r.at = "idle" /\ r.answer = Nil
    <2>1. Adb!Idle \in UserRec /\ Adb!Idle.at = "idle" /\ Adb!Idle.answer = Nil
      <3>1. <<>> \in Seq(User) OBVIOUS
      <3> QED BY <3>1 DEF UserRec, Adb!Idle
    <2> QED BY <2>1 DEF Adb!Leave
  <1>2. Answered(r, u)
        BY <1>1, TelevisionAssumption DEF Answered
  <1>3. CASE lock = u
    <2>1. lock' = Nil /\ nextId' = nextId /\ stream' = stream
          BY <1>3 DEF Adb!Leave
    <2>2. in' \in {in, <<>>} /\ out' \in {out, <<>>} /\ up' \in BOOLEAN
          BY <1>0, <1>3 DEF Adb!Leave, AdbTypes
    <2> QED BY <1>1, <1>2, <1>3, <2>1, <2>2, ShellEnds
  <1>4. CASE lock # u
    <2>1. UNCHANGED <<lock, up, out, in, nextId, stream>>
          BY <1>4 DEF Adb!Leave
    <2>2. r.at \notin Talking
          BY <1>1 DEF Talking
    <2> QED BY <1>0, <1>1, <1>2, <1>4, <2>1, <2>2, AsideStep
  <1> QED BY <1>3, <1>4

\* A shell gets the lock: over the kept connection, or a new one.
LEMMA UserStarts ==
    ASSUME AdbInv, NEW u \in User, Adb!Start(u)
    PROVE  AdbInv'
  <1>1. lock = Nil /\ lock' = u /\ user[u].answer = Nil
        BY DEF Adb!Start, AdbInv, Answered
  <1>2. CASE kept
        BY <1>1, <1>2, OpensFits DEF Adb!Start
  <1>3. CASE ~kept
        BY <1>1, <1>3, DialsFits DEF Adb!Start
  <1> QED BY <1>2, <1>3

\* The handshake: the stream is opened, or a word more is said, or it is given up.
LEMMA HandshakeFits ==
    ASSUME AdbInv, NEW u \in User, Adb!Handshake(u)
    PROVE  AdbInv'
  <1> DEFINE m == Head(in)
  <1>0. /\ AdbTypes /\ IdsFit /\ user \in [User -> UserRec] /\ in \in Seq(MsgRec) /\ out \in Seq(MsgRec)
        /\ nextId \in Nat /\ stream \subseteq StreamRec
        BY DEF AdbInv, AdbTypes
  <1>1. /\ lock = u /\ user[u].at = "hello" /\ user[u].answer = Nil
        /\ in # <<>> /\ in' = Tail(in) /\ UNCHANGED stream
        BY DEF Adb!Handshake, Adb!Hears, AdbInv, Answered
  <1>2. m \in MsgRec /\ m.id < nextId
    <2>1. PICK x \in MsgRec : x = Head(in) BY <1>0, <1>1
    <2> QED BY <1>0, <1>1, <2>1, IdsGo DEF IdsFit
  <1>3. 0 < nextId
        BY <1>0, <1>2 DEF MsgRec
  <1>4. CASE m.kind = "CNXN"
    <2>1. Adb!Opens(u, user[u]) /\ UNCHANGED <<lock, up>>
          BY <1>4 DEF Adb!Handshake
    <2> QED BY <1>1, <2>1, OpensFits
  <1>5. ASSUME NEW r \in UserRec, user' = [user EXCEPT ![u] = r], r.at = "hello", r.answer = Nil,
               NEW kind \in {"SIGNATURE", "PUBLICKEY"}, Adb!Writes(Adb!Msg(kind, 0, Nil)),
               UNCHANGED <<lock, nextId, up>>
        PROVE  AdbInv'
    <2> DEFINE w == Adb!Msg(kind, 0, Nil)
    <2>1. w \in MsgRec /\ w.id = 0
          BY MsgFits DEF Kinds
    <2>2. out' = IF up THEN Append(out, w) ELSE out
          BY <1>5 DEF Adb!Writes
    <2> HIDE DEF w
    <2>3. AdbTypes' /\ IdsFit'
      <3>1. user' \in [User -> UserRec] BY <1>0, <1>5
      <3>2. stream' \subseteq StreamRec /\ \A s \in stream' : s.id < nextId BY <1>0, <1>1 DEF IdsFit
      <3>3. up' \in BOOLEAN BY <1>0, <1>5 DEF AdbTypes
      <3> QED BY <1>0, <1>1, <1>3, <1>5, <2>1, <2>2, <3>1, <3>2, <3>3, MovesFit
    <2>4. Answered(r, u) /\ Lines(r, u)'
          BY <1>5, TelevisionAssumption DEF Answered, Lines
    <2>5. lock \in {u, Nil} /\ lock' = IF r.at \in Talking THEN u ELSE Nil
          BY <1>1, <1>5 DEF Talking
    <2> QED BY <1>5, <2>3, <2>4, <2>5, MineStep
  <1>6. CASE m.kind = "TOKEN" /\ ~user[u].signed
    <2> DEFINE r == [user[u] EXCEPT !.signed = TRUE]
    <2>1. user' = [user EXCEPT ![u] = r] /\ Adb!Writes(Adb!Msg("SIGNATURE", 0, Nil)) /\ UNCHANGED <<lock, nextId, up>>
          BY <1>0, <1>6 DEF Adb!Handshake
    <2>2. r \in UserRec /\ r.at = "hello" /\ r.answer = Nil
          BY <1>0, <1>1 DEF UserRec
    <2> HIDE DEF r
    <2> QED BY <1>5, <2>1, <2>2
  <1>7. CASE m.kind = "TOKEN" /\ user[u].signed /\ ~user[u].offered
    <2> DEFINE r == [user[u] EXCEPT !.offered = TRUE]
    <2>1. user' = [user EXCEPT ![u] = r] /\ Adb!Writes(Adb!Msg("PUBLICKEY", 0, Nil)) /\ UNCHANGED <<lock, nextId, up>>
          BY <1>0, <1>7 DEF Adb!Handshake
    <2>2. r \in UserRec /\ r.at = "hello" /\ r.answer = Nil
          BY <1>0, <1>1 DEF UserRec
    <2> HIDE DEF r
    <2> QED BY <1>5, <2>1, <2>2
  <1>8. CASE /\ m.kind # "CNXN" /\ ~(m.kind = "TOKEN" /\ ~user[u].signed)
             /\ ~(m.kind = "TOKEN" /\ user[u].signed /\ ~user[u].offered)
    <2>1. Adb!Answers(u, "failed") /\ up' = FALSE /\ out' = <<>> /\ UNCHANGED nextId
          BY <1>8 DEF Adb!Handshake
    <2>2. PICK r \in UserRec : user' = [user EXCEPT ![u] = r] /\ r.at = "idle" /\ r.answer = "failed"
          BY <1>0, <2>1, AnswersIs
    <2>3. Answered(r, u) /\ lock' = Nil
          BY <2>1, <2>2 DEF Answered, Adb!Answers
    <2> QED BY <1>1, <2>1, <2>2, <2>3, ShellEnds
  <1> QED BY <1>4, <1>6, <1>7, <1>8

\* What is next on a stream that is read is the next of its command, or another's.
LEMMA HeadOwn ==
    ASSUME AdbTypes, NEW u \in User, NEW a \in UserRec, Lines(a, u), a.at \in {"opening", "reading"}, in # <<>>,
           Head(in).id = a.id
    PROVE  \/ a.at = "opening" /\ Head(in).kind = "CLSE"
           \/ a.at = "opening" /\ Head(in).kind = "OKAY" /\ Opened(a, u)
           \/ a.at = "reading" /\ Head(in).kind = "WRTE" /\ Head(in).of = u /\ Printing(a, u)
           \/ a.at = "reading" /\ Head(in).kind = "CLSE" /\ Len(a.got) = Chunks
  <1>0. a.id \in Nat /\ in \in Seq(MsgRec)
        BY DEF AdbTypes, UserRec
  <1>1. \A k, o : Adb!Msg(k, a.id, o).kind = k /\ Adb!Msg(k, a.id, o).of = o
        BY DEF Adb!Msg
  <1>2. ~NoneOf(in, a.id)
        BY <1>0, LineReads
  <1>3. /\ \A k, o : OneOf(in, a.id, k, o) => Head(in).kind = k /\ Head(in).of = o
        /\ \A k, o, l, p : TwoOf(in, a.id, k, o, l, p) => Head(in).kind = k /\ Head(in).of = o
    <2>1. ASSUME NEW k, NEW o, OneOf(in, a.id, k, o) PROVE Head(in) = Adb!Msg(k, a.id, o)
          BY <1>0, <2>1, LineReads
    <2>2. ASSUME NEW k, NEW o, NEW l, NEW p, TwoOf(in, a.id, k, o, l, p) PROVE Head(in) = Adb!Msg(k, a.id, o)
          BY <1>0, <2>2, LineReads
    <2> QED BY <1>1, <2>1, <2>2
  <1>4. CASE Asked(a, u) BY <1>2, <1>4 DEF Asked
  <1>5. CASE Refused(a) BY <1>3, <1>5 DEF Refused
  <1>6. CASE Opened(a, u) BY <1>3, <1>6 DEF Opened
  <1>7. CASE Printing(a, u) BY <1>2, <1>3, <1>7 DEF Printing
  <1> QED BY <1>4, <1>5, <1>6, <1>7 DEF Lines

\* The box took the stream: it prints, and what it printed since is on the line.
LEMMA OpenedReads ==
    ASSUME AdbTypes, NEW u \in User, NEW a \in UserRec, Opened(a, u), in # <<>>, Head(in).id = a.id,
           in' = Tail(in), UNCHANGED <<out, stream, up, nextId>>,
           NEW r \in UserRec, r.at = "reading", r.id = a.id, r.got = a.got
    PROVE  Printing(r, u)'
  <1>0. a.id \in Nat /\ in \in Seq(MsgRec) /\ Chunks \in Nat
        BY TelevisionAssumption DEF AdbTypes, UserRec
  <1>1. a.got = <<>> /\ NoneOf(out, a.id) /\ Len(r.got) = 0 /\ r.got = <<>>
        BY DEF Opened
  <1>2. /\ \A k, o : OneOf(in, a.id, k, o) => NoneOf(in', a.id)
        /\ \A k, o, l, p : TwoOf(in, a.id, k, o, l, p) => OneOf(in', a.id, l, p)
    <2>1. ASSUME NEW k, NEW o, OneOf(in, a.id, k, o) PROVE NoneOf(in', a.id)
          BY <1>0, <2>1, LineReads
    <2>2. ASSUME NEW k, NEW o, NEW l, NEW p, TwoOf(in, a.id, k, o, l, p) PROVE OneOf(in', a.id, l, p)
          BY <1>0, <2>2, LineReads
    <2> QED BY <2>1, <2>2
  <1>3. /\ NoStream(a.id) => NoStream(a.id)'
        /\ \A left, acked : TheStream(a.id, u, left, acked) => TheStream(a.id, u, left, acked)'
        BY DEF NoStream, TheStream
  <1>4. Chunks - Len(r.got) = Chunks /\ Chunks - Len(r.got) - 1 = Chunks - 1 /\ Len(r.got) <= Chunks
        BY <1>0, <1>1
  <1>5. CASE OneOf(in, a.id, "OKAY", Nil) /\ TheStream(a.id, u, Chunks, TRUE)
        BY <1>1, <1>2, <1>3, <1>4, <1>5 DEF Printing
  <1>6. CASE TwoOf(in, a.id, "OKAY", Nil, "WRTE", u) /\ Chunks > 0 /\ TheStream(a.id, u, Chunks - 1, FALSE)
        BY <1>0, <1>1, <1>2, <1>3, <1>4, <1>6 DEF Printing
  <1>7. CASE TwoOf(in, a.id, "OKAY", Nil, "CLSE", Nil) /\ Chunks = 0 /\ NoStream(a.id)
        BY <1>0, <1>1, <1>2, <1>3, <1>4, <1>7 DEF Printing
  <1> QED BY <1>5, <1>6, <1>7 DEF Opened

\* A chunk is kept, and acknowledged where there is still a connection.
LEMMA ChunkReads ==
    ASSUME AdbTypes, NEW u \in User, NEW a \in UserRec, Printing(a, u), in # <<>>, Head(in).id = a.id,
           Head(in).kind = "WRTE", in' = Tail(in), UNCHANGED <<stream, up, nextId>>,
           out' = (IF up THEN Append(out, Adb!Msg("OKAY", a.id, Nil)) ELSE out),
           NEW r \in UserRec, r.at = "reading", r.id = a.id, r.got = Append(a.got, u)
    PROVE  Printing(r, u)'
  <1>0. a.id \in Nat /\ in \in Seq(MsgRec) /\ out \in Seq(MsgRec) /\ Chunks \in Nat /\ a.got \in Seq(User)
        BY TelevisionAssumption DEF AdbTypes, UserRec
  <1>1. OneOf(in, a.id, "WRTE", u) /\ NoneOf(out, a.id) /\ Len(a.got) < Chunks
        /\ TheStream(a.id, u, Chunks - Len(a.got) - 1, FALSE)
    <2>1. ~NoneOf(in, a.id) BY <1>0, LineReads
    <2>2. ~OneOf(in, a.id, "CLSE", Nil)
      <3>1. Adb!Msg("CLSE", a.id, Nil).kind = "CLSE" BY DEF Adb!Msg
      <3> QED BY <1>0, <3>1, LineReads
    <2> QED BY <2>1, <2>2 DEF Printing
  <1>2. NoneOf(in', a.id)
    <2>1. Head(in).id # a.id \/ NoneOf(Tail(in), a.id) BY <1>0, <1>1, LineReads
    <2> QED BY <2>1
  <1>3. OneOf(out', a.id, "OKAY", Nil) \/ (~up /\ NoneOf(out', a.id))
    <2> DEFINE w == Adb!Msg("OKAY", a.id, Nil)
    <2>1. w \in MsgRec BY <1>0, MsgFits DEF Kinds
    <2>2. CASE up BY <1>0, <1>1, <2>1, <2>2, LineMoves
    <2>3. CASE ~up BY <1>1, <2>3
    <2> QED BY <2>2, <2>3
  <1>4. Len(r.got) = Len(a.got) + 1 /\ Len(a.got) \in Nat
        BY <1>0
  <1>5. Chunks - Len(r.got) = Chunks - Len(a.got) - 1 /\ Len(r.got) <= Chunks
        BY <1>0, <1>1, <1>4
  <1>6. TheStream(r.id, u, Chunks - Len(r.got), FALSE)'
    <2>1. TheStream(r.id, u, Chunks - Len(r.got), FALSE)
          BY <1>1, <1>5
    <2> QED BY <2>1 DEF TheStream
  <1> QED BY <1>2, <1>3, <1>5, <1>6 DEF Printing

\* Reading: what is another's is skipped, and what is its own brings the command one further.
LEMMA ShellReads ==
    ASSUME AdbInv, NEW u \in User, Adb!Reads(u)
    PROVE  AdbInv'
  <1> DEFINE a == user[u]
             m == Head(in)
  <1>0. /\ AdbTypes /\ IdsFit /\ user \in [User -> UserRec] /\ in \in Seq(MsgRec) /\ out \in Seq(MsgRec)
        /\ nextId \in Nat /\ stream \subseteq StreamRec /\ a \in UserRec /\ a.id \in Nat /\ a.got \in Seq(User)
        BY DEF AdbInv, AdbTypes, UserRec
  <1>1. /\ lock = u /\ a.at \in {"opening", "reading"} /\ a.answer = Nil /\ Lines(a, u)
        /\ in # <<>> /\ in' = Tail(in) /\ UNCHANGED <<up, stream, nextId>>
        BY DEF Adb!Reads, Adb!Hears, AdbInv, Answered
  <1>2. a.id < nextId /\ Own(a.got, u)
        BY <1>1 DEF Lines
  <1>3. \A s \in stream : s \in StreamRec /\ s.id < nextId
        BY <1>0 DEF IdsFit
  <1>4. CASE m.id # a.id
    <2>1. UNCHANGED <<user, lock, out>>
          BY <1>4 DEF Adb!Reads, Adb!Own
    <2>2. AdbTypes' /\ IdsFit'
          BY <1>0, <1>1, <1>3, <2>1, MovesFit DEF AdbTypes
    <2>3. Lines(a, u)'
      <3>1. PICK r \in UserRec : r = a BY <1>0
      <3>2. Lines(r, u)' BY <1>0, <1>1, <1>4, <2>1, <2>2, <3>1, LineSame
      <3> QED BY <2>1, <3>1, <3>2 DEF Lines, Asked, Refused, Opened, Printing
    <2>4. \A v \in User : user[v].at \in {"opening", "reading"} => v = u
          BY <1>1 DEF AdbInv, Talking
    <2>5. \A v \in User : user[v].at \in {"opening", "reading"} => Lines(user[v], v)'
          BY <2>3, <2>4 
    <2> QED BY <2>1, <2>2, <2>5, BoxStep
  <1>5. CASE m.id = a.id /\ a.at = "opening"
    <2>1. m.kind = "OKAY" /\ Opened(a, u)
          BY <1>0, <1>1, <1>5, HeadOwn DEF Adb!Reads, Adb!Own
    <2> DEFINE r == [user[u] EXCEPT !.at = "reading"]
    <2>2. user' = [user EXCEPT ![u] = r] /\ UNCHANGED <<lock, out>>
          BY <1>0, <1>5, <2>1 DEF Adb!Reads, Adb!Own
    <2>3. r \in UserRec /\ r.at = "reading" /\ r.id = a.id /\ r.got = a.got /\ r.answer = Nil
          BY <1>0, <1>1 DEF UserRec
    <2> HIDE DEF r
    <2>4. AdbTypes' /\ IdsFit'
      <3>1. user' \in [User -> UserRec] BY <1>0, <2>2, <2>3
      <3> QED BY <1>0, <1>1, <1>3, <2>2, <3>1, MovesFit DEF AdbTypes
    <2>5. PICK z \in UserRec : z = r
          BY <2>3
    <2>6. Lines(z, u)'
      <3>1. PICK b \in UserRec : b = a BY <1>0
      <3>2. Printing(z, u)'
            BY <1>0, <1>1, <1>5, <2>1, <2>2, <2>3, <2>5, <3>1, OpenedReads
      <3> QED BY <1>1, <1>2, <2>3, <2>5, <3>2 DEF Lines, Own
    <2>7. Answered(z, u)
          BY <2>3, <2>5, TelevisionAssumption DEF Answered
    <2>8. lock \in {u, Nil} /\ lock' = IF z.at \in Talking THEN u ELSE Nil
          BY <1>1, <2>2, <2>3, <2>5 DEF Talking
    <2> QED BY <2>2, <2>4, <2>5, <2>6, <2>7, <2>8, MineStep
  <1>6. CASE m.id = a.id /\ a.at = "reading" /\ m.kind = "WRTE"
    <2>1. m.of = u /\ Printing(a, u)
          BY <1>0, <1>1, <1>6, HeadOwn
    <2> DEFINE r == [user[u] EXCEPT !.got = Append(user[u].got, u)]
               w == Adb!Msg("OKAY", a.id, Nil)
    <2>2. user' = [user EXCEPT ![u] = r] /\ out' = (IF up THEN Append(out, w) ELSE out) /\ UNCHANGED lock
          BY <1>0, <1>6, <2>1 DEF Adb!Reads, Adb!Own, Adb!Writes
    <2>3. r \in UserRec /\ r.at = "reading" /\ r.id = a.id /\ r.got = Append(a.got, u) /\ r.answer = Nil
      <3>1. Append(a.got, u) \in Seq(User) BY <1>0
      <3> QED BY <1>0, <1>1, <1>6, <3>1 DEF UserRec
    <2>4. w \in MsgRec /\ w.id = a.id
          BY <1>0, MsgFits DEF Kinds
    <2> HIDE DEF r
    <2>5. AdbTypes' /\ IdsFit'
      <3>1. user' \in [User -> UserRec] BY <1>0, <2>2, <2>3
      <3> HIDE DEF w
      <3> QED BY <1>0, <1>1, <1>2, <1>3, <2>2, <2>4, <3>1, MovesFit DEF AdbTypes
    <2>6. PICK z \in UserRec : z = r
          BY <2>3
    <2>7. Lines(z, u)'
      <3>1. PICK b \in UserRec : b = a BY <1>0
      <3>2. Printing(z, u)'
            BY <1>0, <1>1, <1>6, <2>1, <2>2, <2>3, <2>6, <3>1, ChunkReads
      <3>3. Own(z.got, u)
            BY <1>0, <1>2, <2>3, <2>6 DEF Own
      <3> QED BY <1>1, <1>2, <2>3, <2>6, <3>2, <3>3 DEF Lines, Own
    <2>8. Answered(z, u)
          BY <2>3, <2>6, TelevisionAssumption DEF Answered
    <2>9. lock \in {u, Nil} /\ lock' = IF z.at \in Talking THEN u ELSE Nil
          BY <1>1, <2>2, <2>3, <2>6 DEF Talking
    <2> QED BY <2>2, <2>5, <2>6, <2>7, <2>8, <2>9, MineStep
  <1>7. CASE m.id = a.id /\ a.at = "reading" /\ m.kind # "WRTE"
    <2>1. m.kind = "CLSE" /\ Len(a.got) = Chunks
          BY <1>0, <1>1, <1>7, HeadOwn
    <2> DEFINE w == Adb!Msg("CLSE", a.id, Nil)
    <2>2. Adb!Answers(u, "ok") /\ out' = (IF up THEN Append(out, w) ELSE out)
          BY <1>7, <2>1 DEF Adb!Reads, Adb!Own, Adb!Writes
    <2>3. PICK r \in UserRec : /\ user' = [user EXCEPT ![u] = r] /\ r.at = "idle" /\ r.answer = "ok"
                               /\ r.got = a.got
          BY <1>0, <2>2, AnswersIs
    <2>4. Answered(r, u) /\ lock' = Nil
          BY <1>2, <2>1, <2>2, <2>3 DEF Answered, Adb!Answers
    <2>5. w \in MsgRec /\ w.id = a.id
          BY <1>0, MsgFits DEF Kinds
    <2> HIDE DEF w
    <2>6. up' \in BOOLEAN
          BY <1>0, <1>1 DEF AdbTypes
    <2> QED BY <1>0, <1>1, <1>2, <2>2, <2>3, <2>4, <2>5, <2>6, ShellEnds
  <1> QED BY <1>1, <1>4, <1>5, <1>6, <1>7

\* What the box reads of a command's stream is its asking, or the word that a chunk was kept.
LEMMA BoxOwn ==
    ASSUME AdbTypes, NEW u \in User, NEW a \in UserRec, Lines(a, u), a.at \in {"opening", "reading"}, out # <<>>,
           Head(out).id = a.id
    PROVE  /\ NoneOf(Tail(out), a.id)
           /\ \/ Head(out).kind = "OPEN" /\ Head(out).of = u /\ Asked(a, u)
              \/ /\ Head(out).kind = "OKAY" /\ a.at = "reading" /\ Len(a.got) <= Chunks
                 /\ NoneOf(in, a.id) /\ TheStream(a.id, u, Chunks - Len(a.got), FALSE)
  <1>0. a.id \in Nat /\ out \in Seq(MsgRec)
        BY DEF AdbTypes, UserRec
  <1>1. \A k, o : Adb!Msg(k, a.id, o).kind = k /\ Adb!Msg(k, a.id, o).of = o
        BY DEF Adb!Msg
  <1>2. ~NoneOf(out, a.id)
        BY <1>0, LineReads
  <1>3. \A k, o : OneOf(out, a.id, k, o) => NoneOf(Tail(out), a.id) /\ Head(out).kind = k /\ Head(out).of = o
    <2>1. ASSUME NEW k, NEW o, OneOf(out, a.id, k, o)
          PROVE  Head(out) = Adb!Msg(k, a.id, o) /\ NoneOf(Tail(out), a.id)
          BY <1>0, <2>1, LineReads
    <2> QED BY <1>1, <2>1
  <1>4. CASE Asked(a, u) BY <1>2, <1>3, <1>4 DEF Asked
  <1>5. CASE Refused(a) BY <1>2, <1>5 DEF Refused
  <1>6. CASE Opened(a, u) BY <1>2, <1>6 DEF Opened
  <1>7. CASE Printing(a, u) BY <1>2, <1>3, <1>7 DEF Printing
  <1> QED BY <1>4, <1>5, <1>6, <1>7 DEF Lines

\* adbd takes a stream, or refuses it, or goes on printing.
LEMMA BoxFits ==
    ASSUME AdbInv, Adb!Adbd
    PROVE  AdbInv'
  <1> DEFINE m == Head(out)
             of == {s \in stream : s.id = m.id}
             new == [id |-> m.id, of |-> m.of, left |-> Chunks, acked |-> TRUE]
             acks == {[s EXCEPT !.acked = TRUE] : s \in of}
  <1>0. /\ AdbTypes /\ IdsFit /\ user \in [User -> UserRec] /\ in \in Seq(MsgRec) /\ out \in Seq(MsgRec)
        /\ nextId \in Nat /\ stream \subseteq StreamRec /\ Chunks \in Nat
        BY TelevisionAssumption DEF AdbInv, AdbTypes
  <1>1. up /\ out # <<>> /\ out' = Tail(out) /\ UNCHANGED <<user, lock, up, nextId>>
        BY DEF Adb!Adbd
  <1>2. m \in MsgRec /\ m.id < nextId /\ m.id \in Nat /\ m.of \in User \cup {Nil}
    <2>1. PICK x \in MsgRec : x = Head(out) BY <1>0, <1>1
    <2> QED BY <1>0, <1>1, <2>1, IdsGo DEF IdsFit, MsgRec
  <1>3. \A s \in stream : s \in StreamRec /\ s.id < nextId
        BY <1>0 DEF IdsFit
  <1>4. new \in StreamRec /\ new.id = m.id /\ new.of = m.of /\ new.left = Chunks /\ new.acked = TRUE
        BY <1>0, <1>2 DEF StreamRec
  <1>5. \A z \in acks : z \in StreamRec /\ z.id = m.id /\ z.acked = TRUE
        BY <1>0 DEF StreamRec
  <1>7. \/ in' = in
        \/ \E kind \in Kinds : in' = Append(in, Adb!Msg(kind, m.id, Nil))
        BY DEF Adb!Adbd, Kinds
  <1>8. \/ m.kind # "OPEN" /\ m.kind # "OKAY" /\ stream' = stream
        \/ m.kind # "OPEN" /\ m.kind # "OKAY" /\ stream' = stream \ of
        \/ m.kind = "OPEN" /\ in' = Append(in, Adb!Msg("OKAY", m.id, Nil)) /\ stream' = stream \cup {new}
        \/ m.kind = "OPEN" /\ in' = Append(in, Adb!Msg("CLSE", m.id, Nil)) /\ stream' = stream
        \/ m.kind = "OKAY" /\ in' = in /\ stream' = (stream \ of) \cup acks
        BY DEF Adb!Adbd
  <1> HIDE DEF m, new, acks
  <1>9. /\ \A s \in stream' : s \in StreamRec /\ s.id < nextId
        /\ \A s \in StreamRec : s.id # m.id => (s \in stream' <=> s \in stream)
        BY <1>2, <1>3, <1>4, <1>5, <1>8
  <1>10. \A k \in Kinds : Adb!Msg(k, m.id, Nil) \in MsgRec /\ Adb!Msg(k, m.id, Nil).id = m.id
         BY <1>2, MsgFits
  <1>11. AdbTypes' /\ IdsFit'
    <2>1. in' = in \/ \E w \in MsgRec : w.id < nextId /\ in' = Append(in, w)
          BY <1>2, <1>7, <1>10
    <2> QED BY <1>0, <1>1, <1>9, <2>1, MovesFit DEF AdbTypes
  <1>12. ASSUME NEW u \in User, user[u].at \in {"opening", "reading"} PROVE Lines(user[u], u)'
    <2>1. PICK a \in UserRec : a = user[u]
          BY <1>0
    <2>2. Lines(a, u) /\ a.at \in {"opening", "reading"} /\ a.id < nextId /\ a.id \in Nat /\ Own(a.got, u)
          BY <1>12, <2>1 DEF AdbInv, Lines, UserRec
    <2>3. CASE m.id # a.id
      <3>1. in' = in \/ \E w \in MsgRec : w.id # a.id /\ in' = Append(in, w)
            BY <1>7, <1>10, <2>3
      <3>2. \A s \in StreamRec : s.id = a.id => (s \in stream' <=> s \in stream)
            BY <1>9, <2>3
      <3>3. Lines(a, u)'
            BY <1>0, <1>1, <1>11, <2>2, <2>3, <3>1, <3>2, LineSame DEF m
      <3> QED BY <1>1, <2>1, <3>3 DEF Lines, Asked, Refused, Opened, Printing
    <2>4. CASE m.id = a.id
      <3>1. NoneOf(out', a.id)
            BY <1>0, <1>1, <2>2, <2>4, BoxOwn DEF m
      <3>2. CASE m.kind = "OPEN"
        <4>1. m.of = u /\ Asked(a, u)
              BY <1>0, <1>1, <2>2, <2>4, <3>2, BoxOwn DEF m
        <4>2. \A k \in Kinds : in' = Append(in, Adb!Msg(k, a.id, Nil)) => OneOf(in', a.id, k, Nil)
              BY <1>0, <1>10, <2>2, <2>4, <4>1, LineMoves DEF Asked
        <4>3. CASE in' = Append(in, Adb!Msg("OKAY", a.id, Nil)) /\ stream' = stream \cup {new}
          <5>1. OneOf(in', a.id, "OKAY", Nil)
                BY <4>2, <4>3 DEF Kinds
          <5>2. \E s \in stream' : /\ s.id = a.id /\ s.of = u /\ s.left = Chunks /\ s.acked = TRUE
                                   /\ \A z \in stream' : z.id = a.id => z = s
                BY <1>4, <2>4, <4>1, <4>3 DEF Asked, NoStream
          <5>3. TheStream(a.id, u, Chunks, TRUE)'
                BY <5>2 DEF TheStream
          <5>4. Opened(a, u)'
                BY <3>1, <4>1, <5>1, <5>3 DEF Opened, Asked
          <5> QED BY <1>1, <2>1, <2>2, <5>4 DEF Lines, Opened, Own, TheStream
        <4>4. CASE in' = Append(in, Adb!Msg("CLSE", a.id, Nil)) /\ stream' = stream
          <5>1. OneOf(in', a.id, "CLSE", Nil)
                BY <4>2, <4>4 DEF Kinds
          <5>2. Refused(a)'
                BY <3>1, <4>1, <4>4, <5>1 DEF Refused, Asked, NoStream
          <5> QED BY <1>1, <2>1, <2>2, <5>2 DEF Lines, Refused, Own
        <4> QED BY <1>8, <2>4, <3>2, <4>3, <4>4
      <3>3. CASE m.kind # "OPEN"
        <4>1. /\ m.kind = "OKAY" /\ a.at = "reading" /\ Len(a.got) <= Chunks
              /\ NoneOf(in, a.id) /\ TheStream(a.id, u, Chunks - Len(a.got), FALSE)
              BY <1>0, <1>1, <2>2, <2>4, <3>3, BoxOwn DEF m
        <4>2. in' = in /\ stream' = (stream \ of) \cup acks
              BY <1>8, <4>1
        <4>3. PICK s \in stream : /\ s.id = a.id /\ s.of = u /\ s.left = Chunks - Len(a.got)
                                  /\ \A z \in stream : z.id = a.id => z = s
              BY <4>1 DEF TheStream
        <4>4. acks = {[s EXCEPT !.acked = TRUE]}
          <5>1. of = {s} BY <2>4, <4>3
          <5> QED BY <5>1 DEF acks
        <4> DEFINE t == [s EXCEPT !.acked = TRUE]
        <4>5. t \in stream' /\ \A z \in stream' : z.id = a.id => z = t
              BY <2>4, <4>2, <4>4
        <4>6. t.id = a.id /\ t.of = u /\ t.left = Chunks - Len(a.got) /\ t.acked = TRUE
              BY <1>0, <4>3 DEF StreamRec
        <4> HIDE DEF t
        <4>7. TheStream(a.id, u, Chunks - Len(a.got), TRUE)'
              BY <4>5, <4>6 DEF TheStream
        <4>8. Printing(a, u)'
              BY <3>1, <4>1, <4>2, <4>7 DEF Printing
        <4> QED BY <1>1, <2>1, <2>2, <4>8 DEF Lines, Printing, Own, TheStream
      <3> QED BY <3>2, <3>3
    <2> QED BY <2>3, <2>4
  <1> QED BY <1>1, <1>11, <1>12, BoxStep

\* A chunk, or the end, goes on the line of its stream only.
LEMMA PrintsFits ==
    ASSUME AdbInv, NEW s \in stream, Adb!Prints(s)
    PROVE  AdbInv'
  <1> DEFINE next == [s EXCEPT !.left = s.left - 1, !.acked = FALSE]
             chunk == Adb!Msg("WRTE", s.id, s.of)
             end == Adb!Msg("CLSE", s.id, Nil)
  <1>0. /\ AdbTypes /\ IdsFit /\ user \in [User -> UserRec] /\ in \in Seq(MsgRec) /\ out \in Seq(MsgRec)
        /\ nextId \in Nat /\ stream \subseteq StreamRec /\ Chunks \in Nat
        BY TelevisionAssumption DEF AdbInv, AdbTypes
  <1>1. UNCHANGED <<user, lock, up, out, nextId>> /\ s.acked
        BY DEF Adb!Prints
  <1>2. /\ s \in StreamRec /\ s.id \in Nat /\ s.id < nextId /\ s.left \in Nat /\ s.of \in User \cup {Nil}
        /\ s.acked = TRUE
        BY <1>0, <1>1 DEF StreamRec, IdsFit
  <1>3. \/ s.left > 0 /\ in' = Append(in, chunk) /\ stream' = (stream \ {s}) \cup {next}
        \/ s.left = 0 /\ in' = Append(in, end) /\ stream' = stream \ {s}
        BY <1>2 DEF Adb!Prints
  <1>4. /\ chunk \in MsgRec /\ chunk.id = s.id /\ chunk.kind = "WRTE" /\ chunk.of = s.of
        /\ end \in MsgRec /\ end.id = s.id
        BY <1>2, MsgFits DEF Kinds
  <1>5. s.left > 0 => next \in StreamRec /\ next.id = s.id /\ next.of = s.of /\ next.left = s.left - 1 /\ next.acked = FALSE
    <2>1. ASSUME s.left > 0 PROVE s.left - 1 \in Nat BY <1>2, <2>1
    <2>2. ASSUME s.left - 1 \in Nat
          PROVE  next \in StreamRec /\ next.id = s.id /\ next.of = s.of /\ next.left = s.left - 1 /\ next.acked = FALSE
          BY <1>2, <2>2 DEF StreamRec
    <2> QED BY <2>1, <2>2
  <1> HIDE DEF next
  <1>6. /\ \A z \in stream' : z \in StreamRec /\ z.id < nextId
        /\ \A z \in StreamRec : z.id # s.id => (z \in stream' <=> z \in stream)
        BY <1>0, <1>2, <1>3, <1>5 DEF IdsFit
  <1>7. AdbTypes' /\ IdsFit'
    <2> HIDE DEF chunk, end
    <2>1. \E w \in MsgRec : w.id < nextId /\ in' = Append(in, w)
          BY <1>2, <1>3, <1>4
    <2> QED BY <1>0, <1>1, <1>6, <2>1, MovesFit DEF AdbTypes
  <1>8. ASSUME NEW u \in User, user[u].at \in {"opening", "reading"} PROVE Lines(user[u], u)'
    <2>1. PICK a \in UserRec : a = user[u]
          BY <1>0
    <2>2. /\ Lines(a, u) /\ a.at \in {"opening", "reading"} /\ a.id < nextId /\ a.id \in Nat /\ Own(a.got, u)
          /\ Len(a.got) \in Nat
          BY <1>8, <2>1 DEF AdbInv, Lines, UserRec
    <2>3. CASE s.id # a.id
      <3>1. \E w \in MsgRec : w.id # a.id /\ in' = Append(in, w)
        <4> HIDE DEF chunk, end
        <4> QED BY <1>3, <1>4, <2>3
      <3>2. \A z \in StreamRec : z.id = a.id => (z \in stream' <=> z \in stream)
            BY <1>6, <2>3
      <3>3. Lines(a, u)'
            BY <1>0, <1>1, <1>7, <2>2, <2>3, <3>1, <3>2, LineSame
      <3> QED BY <1>1, <2>1, <3>3 DEF Lines, Asked, Refused, Opened, Printing
    <2>4. CASE s.id = a.id
      <3>1. ~NoStream(a.id)
            BY <2>4 DEF NoStream
      <3>2. \A left, acked : TheStream(a.id, u, left, acked) =>
              left = s.left /\ acked = TRUE /\ s.of = u /\ \A z \in stream : z.id = a.id => z = s
            BY <1>2, <2>4 DEF TheStream
      <3>3. ASSUME \A z \in stream : z.id = a.id => z = s
            PROVE  /\ s.left = 0 => NoStream(a.id)'
                   /\ s.left > 0 /\ s.of = u => TheStream(a.id, u, s.left - 1, FALSE)'
        <4>1. ASSUME s.left = 0 PROVE NoStream(a.id)'
              BY <1>3, <3>3, <4>1 DEF NoStream
        <4>2. ASSUME s.left > 0, s.of = u PROVE TheStream(a.id, u, s.left - 1, FALSE)'
          <5>1. next \in stream' /\ \A z \in stream' : z.id = a.id => z = next
                BY <1>3, <3>3, <4>2
          <5> QED BY <1>5, <2>4, <4>2, <5>1 DEF TheStream
        <4> QED BY <4>1, <4>2
      <3>4. CASE Opened(a, u)
        <4>1. OneOf(in, a.id, "OKAY", Nil) /\ s.left = Chunks /\ s.of = u /\ \A z \in stream : z.id = a.id => z = s
              BY <3>1, <3>2, <3>4 DEF Opened
        <4>2. CASE s.left > 0
          <5>1. in' = Append(in, Adb!Msg("WRTE", a.id, u))
                BY <1>2, <1>3, <2>4, <4>1, <4>2
          <5>2. Adb!Msg("WRTE", a.id, u) \in MsgRec
                BY <1>4, <2>4, <4>1
          <5>3. TwoOf(in', a.id, "OKAY", Nil, "WRTE", u)
                BY <1>0, <2>2, <4>1, <5>1, <5>2, LineMoves
          <5>4. TheStream(a.id, u, Chunks - 1, FALSE)'
                BY <3>3, <4>1, <4>2
          <5>5. Opened(a, u)'
                BY <1>1, <3>4, <4>1, <4>2, <5>3, <5>4 DEF Opened
          <5> QED BY <1>1, <2>1, <2>2, <5>5 DEF Lines, Opened, Own, TheStream, NoStream
        <4>3. CASE s.left = 0
          <5>1. in' = Append(in, Adb!Msg("CLSE", a.id, Nil))
                BY <1>3, <2>4, <4>3
          <5>2. Adb!Msg("CLSE", a.id, Nil) \in MsgRec
                BY <1>4, <2>4
          <5>3. TwoOf(in', a.id, "OKAY", Nil, "CLSE", Nil)
                BY <1>0, <2>2, <4>1, <5>1, <5>2, LineMoves
          <5>4. Opened(a, u)'
                BY <1>1, <3>3, <3>4, <4>1, <4>3, <5>3 DEF Opened
          <5> QED BY <1>1, <2>1, <2>2, <5>4 DEF Lines, Opened, Own, TheStream, NoStream
        <4> QED BY <1>2, <4>2, <4>3
      <3>5. CASE Printing(a, u)
        <4>1. /\ NoneOf(in, a.id) /\ NoneOf(out, a.id) /\ s.left = Chunks - Len(a.got) /\ s.of = u
              /\ \A z \in stream : z.id = a.id => z = s
              BY <3>1, <3>2, <3>5 DEF Printing
        <4>2. CASE s.left > 0
          <5>1. in' = Append(in, Adb!Msg("WRTE", a.id, u))
                BY <1>2, <1>3, <2>4, <4>1, <4>2
          <5>2. Adb!Msg("WRTE", a.id, u) \in MsgRec
                BY <1>4, <2>4, <4>1
          <5>3. OneOf(in', a.id, "WRTE", u)
                BY <1>0, <2>2, <4>1, <5>1, <5>2, LineMoves
          <5>4. TheStream(a.id, u, Chunks - Len(a.got) - 1, FALSE)'
                BY <3>3, <4>1, <4>2
          <5>5. Len(a.got) < Chunks
                BY <1>0, <2>2, <4>1, <4>2
          <5>6. Printing(a, u)'
                BY <1>1, <3>5, <4>1, <5>3, <5>4, <5>5 DEF Printing
          <5> QED BY <1>1, <2>1, <2>2, <5>6 DEF Lines, Printing, Own, TheStream, NoStream
        <4>3. CASE s.left = 0
          <5>1. in' = Append(in, Adb!Msg("CLSE", a.id, Nil))
                BY <1>3, <2>4, <4>3
          <5>2. Adb!Msg("CLSE", a.id, Nil) \in MsgRec
                BY <1>4, <2>4
          <5>3. OneOf(in', a.id, "CLSE", Nil)
                BY <1>0, <2>2, <4>1, <5>1, <5>2, LineMoves
          <5>4. Len(a.got) = Chunks
                BY <1>0, <2>2, <4>1, <4>3
          <5>5. Printing(a, u)'
                BY <1>1, <3>3, <3>5, <4>1, <4>3, <5>3, <5>4 DEF Printing
          <5> QED BY <1>1, <2>1, <2>2, <5>5 DEF Lines, Printing, Own, TheStream, NoStream
        <4> QED BY <1>2, <4>2, <4>3
      <3> QED BY <2>2, <3>1, <3>4, <3>5 DEF Lines, Asked, Refused
    <2> QED BY <2>3, <2>4
  <1> QED BY <1>1, <1>7, <1>8, BoxStep

\* A connection that dies loses what the box has yet to read.
LEMMA CutFits ==
    ASSUME AdbInv, Adb!Cut
    PROVE  AdbInv'
  <1>0. AdbTypes /\ IdsFit /\ stream \subseteq StreamRec
        BY DEF AdbInv, AdbTypes
  <1>1. up' = FALSE /\ out' = <<>> /\ UNCHANGED <<user, lock, in, nextId, stream>>
        BY DEF Adb!Cut
  <1>2. AdbTypes' /\ IdsFit'
        BY <1>0, <1>1, MovesFit DEF AdbTypes, IdsFit
  <1>3. \A n : NoneOf(<<>>, n)
    <2>1. Len(<<>>) = 0 OBVIOUS
    <2> QED BY <2>1 DEF NoneOf
  <1>4. ASSUME NEW u \in User, user[u].at \in {"opening", "reading"} PROVE Lines(user[u], u)'
    <2>1. PICK a : a = user[u]
          OBVIOUS
    <2>2. Lines(a, u) /\ a.at \in {"opening", "reading"}
          BY <1>4, <2>1 DEF AdbInv
    <2>3. Asked(a, u) => Asked(a, u)'
          BY <1>1, <1>3 DEF Asked, NoStream
    <2>4. Refused(a) => Refused(a)'
          BY <1>1, <1>3 DEF Refused, NoStream
    <2>5. Opened(a, u) => Opened(a, u)'
          BY <1>1, <1>3 DEF Opened, NoStream, TheStream
    <2>6. Printing(a, u) => Printing(a, u)'
          BY <1>1, <1>3 DEF Printing, NoStream, TheStream
    <2>7. Lines(a, u)'
          BY <1>1, <2>2, <2>3, <2>4, <2>5, <2>6 DEF Lines, Own
    <2> QED BY <1>1, <2>1, <2>7 DEF Lines, Asked, Refused, Opened, Printing, TheStream, NoStream
  <1> QED BY <1>1, <1>2, <1>4, BoxStep

\* Every step of the connection.
LEMMA AdbNext == AdbInv /\ Adb!Next => AdbInv'
  <1> SUFFICES ASSUME AdbInv, Adb!Next PROVE AdbInv'
      OBVIOUS
  <1>1. ASSUME NEW u \in User, Adb!Shell(u) \/ Adb!DialFails(u) PROVE AdbInv'
        BY <1>1, UserAside
  <1>2. ASSUME NEW u \in User, Adb!Start(u) PROVE AdbInv'
        BY <1>2, UserStarts
  <1>3. ASSUME NEW u \in User, Adb!ReadFails(u) \/ Adb!Refuses(u) PROVE AdbInv'
        BY <1>3, BrokenFits DEF Adb!ReadFails, Adb!Refuses
  <1>4. ASSUME NEW u \in User, Adb!Handshake(u) PROVE AdbInv'
        BY <1>4, HandshakeFits
  <1>5. ASSUME NEW u \in User, Adb!Reads(u) PROVE AdbInv'
        BY <1>5, ShellReads
  <1>6. ASSUME NEW u \in User, Adb!Leave(u) PROVE AdbInv'
        BY <1>6, UserLeaves
  <1>7. ASSUME NEW s \in stream, Adb!Prints(s) PROVE AdbInv'
        BY <1>7, PrintsFits
  <1> QED BY <1>1, <1>2, <1>3, <1>4, <1>5, <1>6, <1>7, BoxFits, CutFits DEF Adb!Next, Adb!Works

\* A shell that answered well holds its own command's chunks, all of them.
LEMMA AdbHolds == AdbInv => Adb!AnswersAreOwn
  <1> SUFFICES ASSUME AdbInv, NEW u \in User, user[u].answer = "ok"
               PROVE  user[u].got = [i \in 1 .. Chunks |-> u]
      BY DEF Adb!AnswersAreOwn
  <1>1. user[u].got \in Seq(User) /\ Own(user[u].got, u) /\ Len(user[u].got) = Chunks
        BY DEF AdbInv, AdbTypes, UserRec, Answered
  <1> QED BY <1>1 DEF Own


-----------------------------------------------------------------------------
(* The five parts together.                                                *)

MCInv == TvInv /\ PlugInv /\ SesInv /\ AtvInv /\ AdbInv

\* A part that does not move keeps what was proved of it.
LEMMA Still ==
    /\ UNCHANGED philips /\ TvInv => TvInv'
    /\ UNCHANGED meross /\ PlugInv => PlugInv'
    /\ UNCHANGED session /\ SesInv => SesInv'
    /\ UNCHANGED atv /\ AtvInv => AtvInv'
    /\ UNCHANGED adb /\ AdbInv => AdbInv'
  <1>1. ASSUME UNCHANGED philips, TvInv PROVE TvInv'
    <2>1. UNCHANGED <<panel, net, shown, ask>>
          BY <1>1 DEF philips
    <2> QED BY <1>1, <2>1 DEF TvInv
  <1>2. ASSUME UNCHANGED meross, PlugInv PROVE PlugInv'
    <2>1. UNCHANGED <<relay, cached, call, told>>
          BY <1>2 DEF meross
    <2> QED BY <1>2, <2>1 DEF PlugInv, AllMet, Plug!InFlight, Plug!ToldAsItWas
  <1>3. ASSUME UNCHANGED session, SesInv PROVE SesInv'
    <2>1. UNCHANGED <<sess, said, incoming, commands, heard, tv, accepted, did>>
          BY <1>3 DEF session
    <2> QED BY <1>3, <2>1 DEF SesInv, SesTypes, Ses!KeysInOrder, Opening, Only, KeysFit, Sent, IsKey
  <1>4. ASSUME UNCHANGED atv, AtvInv PROVE AtvInv'
    <2>1. UNCHANGED <<host, device, remote, pending, failed, remoteLock, task, paired, late, strays>>
          BY <1>4 DEF atv
    <2>2. \A places : Excused(places)' <=> Excused(places)
          BY <2>1 DEF Excused
    <2> QED BY <1>4, <2>1, <2>2 DEF AtvInv, AtvTypes, RemoteFits, FailedFits, LateFits, DeviceFits, PendingFits, PairedFits
  <1>5. ASSUME UNCHANGED adb, AdbInv PROVE AdbInv'
    <2>1. UNCHANGED <<user, lock, up, out, in, nextId, stream>>
          BY <1>5 DEF adb
    <2>2. AdbTypes' /\ IdsFit'
          BY <1>5, <2>1 DEF AdbInv, AdbTypes, IdsFit
    <2>3. \A u \in User : Lines(user[u], u)'
          BY <1>5, <2>1 DEF AdbInv, Lines, Asked, Refused, Opened, Printing, TheStream, NoStream
    <2> QED BY <1>5, <2>1, <2>2, <2>3 DEF AdbInv, Answered
  <1> QED BY <1>1, <1>2, <1>3, <1>4, <1>5

\* What the steps of the Philips set, the plug, the session, the manager and the ADB connection keep
\* holds in every state of the five parts.
THEOREM ThInv == Spec => []MCInv
  <1>1. Init => MCInv
        BY TvInit, PlugInit, SesInit, AtvInit, AdbInit DEF Init, MCInv
  <1>2. MCInv /\ [Next]_vars => MCInv'
    <2> SUFFICES ASSUME MCInv, [Next]_vars PROVE MCInv'
        OBVIOUS
    <2>1. CASE UNCHANGED vars
          BY <2>1, Still DEF vars, MCInv
    <2>2. CASE Adb!Next /\ UNCHANGED <<atv, session, philips, meross>>
          BY <2>2, Still, AdbNext DEF MCInv
    <2>3. CASE Atv!Next /\ UNCHANGED <<adb, session, philips, meross>>
          BY <2>3, Still, AtvNext DEF MCInv
    <2>4. CASE Ses!Next /\ UNCHANGED <<adb, atv, philips, meross>>
          BY <2>4, Still, SesNext DEF MCInv
    <2>5. CASE Tv!Next /\ UNCHANGED <<adb, atv, session, meross>>
          BY <2>5, Still, TvNext DEF MCInv
    <2>6. CASE Plug!PlugNext /\ UNCHANGED <<adb, atv, session, philips>>
          BY <2>6, Still, PlugNext DEF MCInv
    <2> QED BY <2>1, <2>2, <2>3, <2>4, <2>5, <2>6 DEF Next
  <1> QED BY <1>1, <1>2, PTL DEF Spec

\* Once a change of address is over, what is kept is the new box's, and a box just paired is not
\* passed over for failures from before (androidtv.rs: set_config, shell, pair_start, pair_finish),
\* whatever the number of tasks, boxes and changes.
THEOREM ThFollowsAddress == Spec => []FollowsAddress
  <1>1. MCInv => FollowsAddress
        BY AtvHolds DEF MCInv, FollowsAddress
  <1> QED BY <1>1, ThInv, PTL

\* The TV carries out the keys pressed, in order and none missing in between (atvremote.rs: Session,
\* serve), whatever the number of keys and the room in the channels.
THEOREM ThKeysInOrder == Spec => []KeysInOrder
  <1>1. MCInv => KeysInOrder
        BY DEF MCInv, SesInv, KeysInOrder
  <1> QED BY <1>1, ThInv, PTL

\* The power button never switches on a set that is on, unless its reading could not know better
\* (tv.rs: power, power_from_answer, SwitchState::resolve), whatever the number of callers, calls and polls.
THEOREM ThTogglesSeeTheSet == Spec => []TogglesSeeTheSet
  <1>1. MCInv => TogglesSeeTheSet
        BY DEF MCInv, TvInv, Justified, TogglesSeeTheSet, Tv!TogglesSeeTheSet
  <1> QED BY <1>1, ThInv, PTL

\* Nobody is told of the plug what it was at no moment of their call, or of one it overlapped with
\* (meross.rs: read_on, get_status, toggle, list_devices), whatever the number of callers and calls.
THEOREM ThToldAsItWas == Spec => []ToldAsItWas
  <1>1. MCInv => ToldAsItWas
        BY DEF MCInv, PlugInv, ToldAsItWas
  <1> QED BY <1>1, ThInv, PTL

\* A shell that answers well holds all its own command printed and nothing of another's, also on a
\* connection that dropped requests left in the middle of their output (adb.rs: shell, shell_capped;
\* androidtv.rs: shell_on), whatever the number of users, chunks and dropped requests.
THEOREM ThAnswersAreOwn == Spec => []AnswersAreOwn
  <1>1. MCInv => AnswersAreOwn
        BY AdbHolds DEF MCInv, AnswersAreOwn
  <1> QED BY <1>1, ThInv, PTL

=============================================================================
