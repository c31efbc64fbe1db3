----------------------------- MODULE MerossPlug -----------------------------
(***************************************************************************)
(* One Meross plug: backend/src/meross.rs.                                 *)
(*                                                                         *)
(* Every call asks the plug over HTTP, one exchange or several, and leaves *)
(* what it learnt in a cached state all calls share; no lock spans an      *)
(* exchange.  Left out: what the answers say beyond on or off, the         *)
(* signature, `last_ping`.                                                 *)
(***************************************************************************)
EXTENDS Naturals, FiniteSets

CONSTANTS
    Caller,     \* those who ask: the dashboard, the key tasks
    MaxCalls, MaxFaults, MaxPresses,    \* bounds on calls, faults of the line, presses of the plug's button
    Nil

VARIABLES
    relay,      \* the plug is on
    old,        \* it knows Toggle only
    cached,     \* MerossCachedState
    call,       \* what each caller is at
    told,       \* the last answer that told the plug's state, and what the plug was meanwhile (history)
    calls, faults, presses

\* at: where it is; for: the call; ask: the namespace asked; want: the order; saw: what it knows of
\* the plug; fresh: its own reading came; was: what the plug was since the call, or one it met,
\* began (history).
Quiet == [at |-> "idle", for |-> Nil, ask |-> Nil, want |-> FALSE, saw |-> FALSE, fresh |-> FALSE, was |-> {}]

Reading == {"list", "is_on", "status", "flip"}
Order == {"on", "off"}
Call == Reading \cup Order \cup {"other"}

plug == <<relay, old>>
bounds == <<calls, faults, presses>>

PlugInit ==
    /\ relay \in BOOLEAN /\ old \in BOOLEAN
    /\ cached = [online |-> FALSE, on |-> FALSE]
    /\ call = [c \in Caller |-> Quiet]
    /\ told = Nil
    /\ calls = 0 /\ faults = 0 /\ presses = 0

InFlight == {c \in Caller : call[c].at # "idle"}

\* Everyone in flight sees the plug become `on`.
Meets(on) == [c \in Caller |-> IF c \in InFlight THEN [call[c] EXCEPT !.was = @ \cup {on}] ELSE call[c]]

\* is_on, list_devices, get_status, a key that flips the plug, toggle, and the calls that learn
\* nothing of its state.
Asks(c, for) ==
    /\ call[c].at = "idle" /\ calls < MaxCalls
    /\ calls' = calls + 1
    /\ call' = [call EXCEPT ![c] =
         [Quiet EXCEPT !.at = "asked", !.for = for, !.want = (for = "on"), !.saw = (for = "on"),
            !.ask = IF for \in Reading THEN "All" ELSE IF for \in Order THEN "ToggleX" ELSE "Other",
            !.was = {relay} \cup UNION {call[d].was : d \in InFlight}]]
    /\ UNCHANGED <<plug, cached, told, faults, presses>>

\* What a call does next with an answer to what it asked.
Goes(a) ==
    CASE a.for = "status" /\ a.ask = "All" -> [a EXCEPT !.ask = "Electricity"]
      [] a.for = "status" /\ a.ask = "Electricity" -> [a EXCEPT !.ask = "Runtime"]
      [] OTHER -> [a EXCEPT !.at = "seen"]

\* Mutant: a plug that does not know ToggleX is taken to have obeyed.
TakesAnyAnswer(c) ==
    /\ call[c].at = "asked"
    /\ LET a == call[c]
           obeys == a.ask = "Toggle" \/ (a.ask = "ToggleX" /\ ~old)
           on == IF obeys THEN a.want ELSE relay
       IN  /\ relay' = on
           /\ call' = [Meets(on) EXCEPT ![c] =
                [Goes(IF a.ask = "All" THEN [a EXCEPT !.saw = relay, !.fresh = TRUE] ELSE a) EXCEPT !.was = @ \cup {on}]]
    /\ UNCHANGED <<old, cached, told, bounds>>

\* The plug takes the request, carries it out and answers: its state, or that it does not know
\* ToggleX, and Toggle is asked.
Takes(c) ==
    /\ call[c].at = "asked"
    /\ LET a == call[c]
           obeys == a.ask = "Toggle" \/ (a.ask = "ToggleX" /\ ~old)
           on == IF obeys THEN a.want ELSE relay
           after == IF a.ask = "ToggleX" /\ old THEN [a EXCEPT !.ask = "Toggle"]
                    ELSE Goes(IF a.ask = "All" THEN [a EXCEPT !.saw = relay, !.fresh = TRUE] ELSE a)
       IN  /\ relay' = on
           /\ call' = [Meets(on) EXCEPT ![c] = [after EXCEPT !.was = @ \cup {on}]]
    /\ UNCHANGED <<old, cached, told, bounds>>

\* What a call does next without an answer it can use: a list shows the cached state, a status goes
\* on without what it could not learn, the others answer an error.
Without(a) ==
    CASE a.for = "list" -> [a EXCEPT !.at = "snapshot"]
      [] a.for = "status" /\ a.ask # "All" -> Goes(a)
      [] OTHER -> Quiet

\* An answer that is a refusal, or no payload of this kind: an error, and the plug stays as it was
\* marked.  (The payload of ToggleX is not looked at.)
OddAnswer(c) ==
    /\ call[c].at = "asked" /\ call[c].ask # "ToggleX" /\ faults < MaxFaults
    /\ faults' = faults + 1
    /\ call' = [call EXCEPT ![c] = Without(@)]
    /\ UNCHANGED <<plug, cached, told, calls, presses>>

\* No answer in time, or not a plug's; the plug may have obeyed all the same.
NoAnswer(c) ==
    /\ call[c].at = "asked" /\ faults < MaxFaults
    /\ faults' = faults + 1
    /\ \E obeys \in BOOLEAN :
         LET on == IF obeys /\ call[c].ask \in {"ToggleX", "Toggle"} THEN call[c].want ELSE relay
         IN  /\ relay' = on
             /\ call' = [Meets(on) EXCEPT ![c].at = "failed"]
    /\ UNCHANGED <<old, cached, told, calls, presses>>

\* request: the plug is marked offline.
MarksOffline(c) ==
    /\ call[c].at = "failed"
    /\ cached' = [cached EXCEPT !.online = FALSE]
    /\ call' = [call EXCEPT ![c] = Without([@ EXCEPT !.at = "asked"])]
    /\ UNCHANGED <<plug, told, bounds>>

Tells(c, on) == told' = [on |-> on, was |-> call[c].was]

\* A key that flips the plug orders the other state than it read.
Flips(a) == [a EXCEPT !.at = "asked", !.ask = "ToggleX", !.want = ~a.saw, !.saw = ~a.saw]

\* seen, and what each call does after it: a flip orders the other state, a list reads the cached
\* state, the others answer what they asked for or learnt.
Seen(c) ==
    /\ call[c].at = "seen"
    /\ LET a == call[c] IN
         /\ cached' = [online |-> TRUE, on |-> IF a.for = "other" THEN cached.on ELSE a.saw]
         /\ call' = [call EXCEPT ![c] =
              CASE a.for = "list" -> [a EXCEPT !.at = "snapshot"]
                [] a.for = "flip" /\ a.ask = "All" -> Flips(a)
                [] OTHER -> Quiet]
         /\ IF a.for \in {"is_on", "status"} \cup Order \/ (a.for = "flip" /\ a.ask # "All")
              THEN Tells(c, a.saw) ELSE UNCHANGED told
    /\ UNCHANGED <<plug, bounds>>

\* list_devices shows the cached state, whoever wrote it last.
Snapshot(c) ==
    /\ call[c].at = "snapshot"
    /\ IF cached.online /\ call[c].fresh THEN Tells(c, cached.on) ELSE UNCHANGED told
    /\ call' = [call EXCEPT ![c] = Quiet]
    /\ UNCHANGED <<plug, cached, bounds>>

\* A request is dropped between two steps (the client hung up, the time limit): never a key's task.
Dropped(c) ==
    /\ c \in InFlight /\ call[c].for # "flip" /\ faults < MaxFaults
    /\ faults' = faults + 1
    /\ call' = [call EXCEPT ![c] = Quiet]
    /\ UNCHANGED <<plug, cached, told, calls, presses>>

\* A hand on the plug's button.
Pressed ==
    /\ presses < MaxPresses
    /\ presses' = presses + 1
    /\ relay' = ~relay
    /\ call' = Meets(~relay)
    /\ UNCHANGED <<old, cached, told, calls, faults>>

PlugNext ==
    \/ Pressed
    \/ \E c \in Caller :
         \/ \E for \in Call : Asks(c, for)
         \/ Takes(c) \/ OddAnswer(c) \/ NoAnswer(c) \/ MarksOffline(c)
         \/ Seen(c) \/ Snapshot(c) \/ Dropped(c)

\* A caller told the plug is on, or off, is told what it was at some moment since its call began, or
\* since one it overlapped with began: never what an order that was not carried out asked for, and
\* never an old reading, though a status writes what it read three exchanges ago and a list answers
\* from the state all calls write (meross.rs:read_on, get_status, toggle, list_devices).
ToldAsItWas == told # Nil => told.on \in told.was

=============================================================================
