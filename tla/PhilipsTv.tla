----------------------------- MODULE PhilipsTv -----------------------------
(***************************************************************************)
(* The Philips television: backend/src/tv.rs.                              *)
(*                                                                         *)
(* The set's little HTTP server dies of bursts, so every request passes a  *)
(* gate that serialises and spaces them; power goes over infrared, which   *)
(* never answers, and is read back from what a TCP connect and powerstate  *)
(* tell.  Time is counted in ticks: `Gap` of them is MIN_REQUEST_GAP.      *)
(* Left out: volumes, keys, Ambilight and what a request carries, the      *)
(* RC5 toggle bit, the settings (the blaster may be missing: a send that   *)
(* fails), and the DIAL fallback of route_to_box.                          *)
(***************************************************************************)
EXTENDS Naturals, FiniteSets

CONSTANTS
    Caller,     \* those who ask: the dashboard, a key's task, a scene
    Gap,        \* MIN_REQUEST_GAP, in ticks
    Polls,      \* bound on the polls of await_api and of the settling
    Requests,   \* how many requests each plain call makes: [call -> Nat]
    MaxAsks, MaxLosses, MaxCrashes, MaxHands,   \* bounds on calls, lost probes and dropped calls, crashes, hand switching
    Nil

VARIABLES
    panel,      \* the set is on
    net,        \* what a connect to the API port finds: "down", "refused", "answers"
    crashed,    \* JointSPACE is dead until the mains are pulled
    shown,      \* what powerstate says, which lags the panel
    gate,       \* who holds the gate, or Nil
    last,       \* ticks since the gate's timestamp, up to Gap
    ask,        \* what each caller is at
    asks, losses, crashes, hands

tvset == <<panel, net, crashed, shown>>
\* at: where it is; for: the call; phase: what the power reading is for; order: the code to send;
\* left: requests or polls left; was, excuse: the panel at the reading, and whether the reading
\* could not know better (history).
Quiet == [at |-> "idle", for |-> Nil, phase |-> Nil, order |-> Nil, left |-> 0, was |-> FALSE, excuse |-> FALSE]

PowerCall == {"toggle", "on", "off", "ensure"}
PlainCall == DOMAIN Requests

Init ==
    /\ panel \in BOOLEAN /\ shown = panel
    /\ net = IF panel THEN "answers" ELSE "down"
    /\ crashed = FALSE
    /\ gate = Nil /\ last = Gap
    /\ ask = [c \in Caller |-> Quiet]
    /\ asks = 0 /\ losses = 0 /\ crashes = 0 /\ hands = 0

bounds == <<asks, losses, crashes, hands>>
timing == <<gate, last>>

At(c, place) == ask' = [ask EXCEPT ![c].at = place]
Ends(c) == ask' = [ask EXCEPT ![c] = Quiet]

-----------------------------------------------------------------------------
(* Calls.                                                                  *)

\* tv_power, ensure_on, status, and the calls that only talk to the server.
Asks(c, call) ==
    /\ ask[c].at = "idle" /\ asks < MaxAsks
    /\ asks' = asks + 1
    /\ ask' = [ask EXCEPT ![c] =
         CASE call \in {"on", "off"} -> [Quiet EXCEPT !.at = "send", !.for = call, !.order = call]
           [] call \in {"toggle", "ensure", "status"} -> [Quiet EXCEPT !.at = "probe", !.for = call, !.phase = "resolve"]
           [] OTHER -> [Quiet EXCEPT !.at = "gate", !.for = call, !.phase = "plain", !.left = Requests[call]]]
    /\ UNCHANGED <<tvset, timing, losses, crashes, hands>>

\* What a reading of the power leads to: SwitchState::resolve, ensure_on, status, power_on.
Reads(c, on, excuse) ==
    LET a == IF ask[c].for = "toggle" THEN [ask[c] EXCEPT !.was = panel, !.excuse = excuse] ELSE ask[c] IN
    ask' = [ask EXCEPT ![c] =
        CASE a.phase = "resolve" /\ a.for = "toggle" -> [a EXCEPT !.at = "send", !.order = IF on THEN "off" ELSE "on"]
          [] a.phase = "resolve" /\ a.for = "ensure" -> IF on THEN Quiet ELSE [a EXCEPT !.at = "send", !.order = "on"]
          [] a.phase = "resolve" /\ a.for \notin {"toggle", "ensure"} ->
               IF on THEN [a EXCEPT !.at = "gate", !.phase = "plain", !.left = Requests["status"]] ELSE Quiet
          [] a.phase = "settle" ->
               IF on \/ a.left = 0 THEN [a EXCEPT !.at = "probe", !.phase = "final"] ELSE [a EXCEPT !.at = "probe", !.left = @ - 1]
          [] OTHER -> [a EXCEPT !.at = "route"]]

\* Mutant: a refused connect is read as deep standby.
ProbeSaysOff(c) ==
    /\ ask[c].at = "probe"
    /\ IF net = "answers" THEN At(c, "gate") ELSE Reads(c, FALSE, net = "down")
    /\ UNCHANGED <<tvset, timing, bounds>>

\* power(): one TCP connect.  Silence is deep standby, a refusal a set that is up.
Probe(c) ==
    /\ ask[c].at = "probe"
    /\ IF net = "answers" THEN At(c, "gate") ELSE Reads(c, net = "refused", net = "down")
    /\ UNCHANGED <<tvset, timing, bounds>>

\* A connect the network loses.
ProbeLost(c) ==
    /\ ask[c].at = "probe" /\ losses < MaxLosses
    /\ losses' = losses + 1
    /\ Reads(c, FALSE, TRUE)
    /\ UNCHANGED <<tvset, timing, asks, crashes, hands>>

-----------------------------------------------------------------------------
(* The gate: acquire, then one request.                                    *)

Locks(c) ==
    /\ ask[c].at = "gate" /\ gate = Nil
    /\ gate' = c
    /\ At(c, "gap")
    /\ UNCHANGED <<tvset, last, bounds>>

\* The wait is over: the time is noted and the request leaves.
Hits(c) ==
    /\ ask[c].at = "gap" /\ last >= Gap
    /\ last' = 0
    /\ At(c, "hit")
    /\ UNCHANGED <<tvset, gate, bounds>>

\* power_from_answer: what powerstate says, standby when it says neither, or an error: a set that
\* took the connection and falters is up.  A plain call ends with its last request, or with one
\* that fails.
HitEnds(c) ==
    /\ ask[c].at = "hit"
    /\ gate' = Nil
    /\ IF ask[c].phase = "plain"
         THEN \/ ask[c].left > 1 /\ ask' = [ask EXCEPT ![c].at = "gate", ![c].left = @ - 1]
              \/ Ends(c)
         ELSE \/ net = "answers" /\ Reads(c, shown, shown # panel)
              \/ net = "answers" /\ Reads(c, FALSE, TRUE)
              \/ Reads(c, TRUE, FALSE)
    /\ UNCHANGED <<tvset, last, bounds>>

-----------------------------------------------------------------------------
(* Power over infrared: send_power_code, power_on, power_off.              *)

\* The set hears the code, or does not; or the blaster fails.
Sends(c) ==
    /\ ask[c].at = "send"
    /\ \/ /\ panel' \in {panel, ask[c].order = "on"}
          /\ IF ask[c].order = "on"
               THEN ask' = [ask EXCEPT ![c] = [Quiet EXCEPT !.at = "await", !.left = Polls]] ELSE Ends(c)
       \/ Ends(c) /\ UNCHANGED panel
    /\ UNCHANGED <<net, crashed, shown, timing, bounds>>

\* await_api: until the port answers or the budget is spent, and On is reported then.
Awaits(c) ==
    /\ ask[c].at = "await"
    /\ LET a == ask[c] IN
         ask' = [ask EXCEPT ![c] =
           IF net = "answers" THEN [a EXCEPT !.at = "probe", !.phase = "settle", !.left = Polls]
           ELSE IF a.left = 0 THEN [a EXCEPT !.at = "route"] ELSE [a EXCEPT !.left = @ - 1]]
    /\ UNCHANGED <<tvset, timing, bounds>>

\* route_to_box, when asked: the box's One Touch Play switches the set on as well.
Routes(c) ==
    /\ ask[c].at = "route"
    /\ panel' \in {panel, TRUE}
    /\ Ends(c)
    /\ UNCHANGED <<net, crashed, shown, timing, bounds>>

\* A request dropped at an await; its gate is let go.
Dropped(c) ==
    /\ ask[c].at # "idle" /\ losses < MaxLosses
    /\ losses' = losses + 1
    /\ gate' = IF gate = c THEN Nil ELSE gate
    /\ Ends(c)
    /\ UNCHANGED <<tvset, last, asks, crashes, hands>>

-----------------------------------------------------------------------------
(* The set and the people around it (external).                            *)

\* It joins the network once on, its server after that; it leaves it when off for long.
Wakes ==
    /\ \/ panel /\ net = "down" /\ net' = "refused"
       \/ net = "refused" /\ panel /\ ~crashed /\ net' = "answers"
       \/ ~panel /\ net # "down" /\ net' = "down"
    /\ UNCHANGED <<panel, crashed, shown, timing, ask, bounds>>

Shows ==
    /\ shown # panel
    /\ shown' = panel
    /\ UNCHANGED <<panel, net, crashed, timing, ask, bounds>>

Crashes ==
    /\ net = "answers" /\ crashes < MaxCrashes
    /\ crashes' = crashes + 1
    /\ crashed' = TRUE /\ net' = "refused"
    /\ UNCHANGED <<panel, shown, timing, ask, asks, losses, hands>>

Hands ==
    /\ hands < MaxHands
    /\ hands' = hands + 1
    /\ \/ panel' = ~panel /\ UNCHANGED <<net, crashed>>
       \/ crashed /\ panel' = FALSE /\ net' = "down" /\ crashed' = FALSE
    /\ UNCHANGED <<shown, timing, ask, asks, losses, crashes>>

Tick ==
    /\ last < Gap
    /\ last' = last + 1
    /\ UNCHANGED <<tvset, gate, ask, bounds>>

-----------------------------------------------------------------------------

Next ==
    \/ \E c \in Caller :
         \/ \E call \in PowerCall \cup PlainCall : Asks(c, call)
         \/ Probe(c) \/ ProbeLost(c) \/ Locks(c) \/ Hits(c) \/ HitEnds(c)
         \/ Sends(c) \/ Awaits(c) \/ Routes(c) \/ Dropped(c)
    \/ Wakes \/ Shows \/ Crashes \/ Hands \/ Tick

-----------------------------------------------------------------------------
(* Properties.                                                             *)

\* The power button never switches on a set that is on, its server dead or not, unless the
\* network swallowed the probe, the set had not joined it yet, or powerstate lagged or said
\* neither (tv.rs:416-445, 678-692).
TogglesSeeTheSet ==
    \A c \in Caller : ask[c].for = "toggle" /\ ask[c].at = "send" /\ ask[c].order = "on" => ~ask[c].was \/ ask[c].excuse

=============================================================================
