------------------------------ MODULE HueLamp ------------------------------
(***************************************************************************)
(* One Hue lamp over Bluetooth, backend/src/hue/mod.rs: its record in      *)
(* `lamps`, the blacklist, and everyone who touches them between awaits:   *)
(* the periodic scan and a scan asked for (which a dropped request ends    *)
(* anywhere), the poll, a command, a request that forgets the lamp, the    *)
(* adapter's events and the lamp's notifications.                          *)
(*                                                                         *)
(* The record's lock is held for one step; ble_lock for one exchange.      *)
(* Left out: the lamp's light, its name and addresses (a scan knows it by  *)
(* any of them), reachable and last_seen, which are only shown, and the    *)
(* saves (SavedState).                                                     *)
(***************************************************************************)
EXTENDS Naturals, Sequences

CONSTANTS
    MaxFailures,   \* MAX_NEW_LAMP_FAILURES (3 in the code)
    MaxEvents      \* bound on the adapter events not yet handled

ASSUME HueLampAssumption == MaxFailures \in Nat \ {0} /\ MaxEvents \in Nat \ {0}

VARIABLES
    near,      \* the lamp is powered, in reach and answers
    linkUp,    \* the Bluetooth link
    events,    \* adapter events on their way, oldest first
    known,     \* the lamp is in `lamps`
    lamp,      \* its LampRuntime
    black,     \* it is in `blacklisted_addresses`
    scan,      \* where each scan is
    poll,      \* where the poll is, with the characteristics it copied
    cmd,       \* where a command is
    forget,    \* where the request to forget the lamp is (there is one)
    raced,     \* history: the lamp was there, or about to be, when its blacklisting ended
    dropped    \* history: the claim `connecting` is one a dropped scan left behind

vars == <<near, linkUp, events, known, lamp, black, scan, poll, cmd, forget, raced, dropped>>

\* The scan that start_background_tasks repeats, and one a request asked for.
Scan == {"periodic", "asked"}

Place == {"idle", "seen", "queued", "linking", "reading", "finishing", "failing", "removing", "parting", "extending"}

LampRec == [connected : BOOLEAN, connecting : BOOLEAN, peripheral : BOOLEAN, chars : BOOLEAN,
            listener : BOOLEAN, once : BOOLEAN, failures : 0 .. MaxFailures]

\* LampRuntime::new; `once` is the kept has_connected_once.
NewLamp(once) ==
    [connected |-> FALSE, connecting |-> FALSE, peripheral |-> FALSE, chars |-> FALSE,
     listener |-> FALSE, once |-> once, failures |-> 0]

TypeOK ==
    /\ near \in BOOLEAN
    /\ linkUp \in BOOLEAN
    /\ events \in Seq({"connected", "disconnected"})
    /\ known \in BOOLEAN
    /\ lamp \in LampRec
    /\ black \in BOOLEAN
    /\ scan \in [Scan -> Place]
    /\ poll \in {"idle", "reading", "reading nothing", "failed"}
    /\ cmd \in {"idle", "written"}
    /\ forget \in {"idle", "parting", "extending", "done"}
    /\ raced \in BOOLEAN
    /\ dropped \in BOOLEAN

\* A lamp kept from an earlier run, or none.
Init ==
    /\ near \in BOOLEAN
    /\ linkUp = FALSE
    /\ events = <<>>
    /\ known \in BOOLEAN
    /\ lamp \in {NewLamp(once) : once \in {FALSE, known}}
    /\ black = FALSE
    /\ scan = [s \in Scan |-> "idle"]
    /\ poll = "idle"
    /\ cmd = "idle"
    /\ forget = "idle"
    /\ raced = FALSE
    /\ dropped = FALSE

world == <<near, linkUp, events>>
others == <<poll, cmd, forget>>

-----------------------------------------------------------------------------
(* The record.                                                             *)

\* Mutant: the claim stays.
ReleaseKeepsClaim(l) ==
    [l EXCEPT !.connected = FALSE, !.chars = FALSE, !.listener = FALSE]

\* LampRuntime::release: not connected, no characteristics, the listener aborted.
Release(l) ==
    [l EXCEPT !.connected = FALSE, !.connecting = FALSE, !.chars = FALSE, !.listener = FALSE]

\* What changes the record of a lamp that may be gone by now.
Set(l) ==
    /\ lamp' = IF known THEN l ELSE lamp
    /\ dropped' = (dropped /\ lamp'.connecting)

\* The link falls or rises, and the adapter says so; the oldest events are handled first, so the
\* bound leaves out only how far they lag.
Link(up) ==
    /\ Len(events) < MaxEvents
    /\ linkUp' = up
    /\ events' = IF up = linkUp THEN events
                 ELSE Append(events, IF up THEN "connected" ELSE "disconnected")

-----------------------------------------------------------------------------
(* A scan.                                                                 *)

Step(s, there) == scan' = [scan EXCEPT ![s] = there]

\* Mutant: the blacklist is not looked at.
ScanSeesAny(s) ==
    /\ scan[s] = "idle"
    /\ near
    /\ Step(s, "seen")
    /\ UNCHANGED <<world, known, lamp, black, others, raced, dropped>>

\* The radio listened and lists the lamp; the blacklist is read, and let go.
ScanSees(s) ==
    /\ scan[s] = "idle"
    /\ near
    /\ ~black
    /\ Step(s, "seen")
    /\ UNCHANGED <<world, known, lamp, black, others, raced, dropped>>

\* Not listed, or blacklisted: a lamp not connected loses its peripheral.
ScanMisses(s) ==
    /\ scan[s] = "idle"
    /\ ~near \/ black
    /\ known /\ ~lamp.connected
    /\ Set([lamp EXCEPT !.peripheral = FALSE])
    /\ UNCHANGED <<world, known, black, scan, others, raced>>

\* The record is updated, or made; a lamp not connected is queued to be.
ScanKeeps(s) ==
    /\ scan[s] = "seen"
    /\ known' = TRUE
    /\ lamp' = [(IF known THEN lamp ELSE NewLamp(FALSE)) EXCEPT !.peripheral = TRUE]
    /\ Step(s, IF lamp'.connected \/ lamp'.connecting THEN "idle" ELSE "queued")
    /\ UNCHANGED <<world, black, others, raced, dropped>>

\* connect_lamp: the claim, unless someone else has it or the lamp is gone.
ConnectClaim(s) ==
    /\ scan[s] = "queued"
    /\ IF known /\ ~lamp.connected /\ ~lamp.connecting
         THEN /\ lamp' = [lamp EXCEPT !.connecting = TRUE]
              /\ Step(s, IF lamp.peripheral THEN "linking" ELSE "failing")
         ELSE /\ Step(s, "idle")
              /\ UNCHANGED lamp
    /\ UNCHANGED <<world, known, black, others, raced, dropped>>

\* establish_connection: the link, unless it is up already, and the services.
ConnectLinks(s) ==
    /\ scan[s] = "linking"
    /\ near
    /\ Link(TRUE)
    /\ Step(s, "reading")
    /\ UNCHANGED <<near, known, lamp, black, others, raced, dropped>>

\* The state is read and the listener started, in place of an earlier one, if the lamp notifies.
ConnectReads(s) ==
    /\ scan[s] = "reading"
    /\ linkUp
    /\ \E notifies \in BOOLEAN : Set([lamp EXCEPT !.listener = @ \/ notifies])
    /\ Step(s, "finishing")
    /\ UNCHANGED <<world, known, black, others, raced>>

\* The lamp does not answer.
ConnectFails(s) ==
    /\ \/ scan[s] = "linking" /\ ~near
       \/ scan[s] = "reading" /\ ~linkUp
    /\ Step(s, "failing")
    /\ UNCHANGED <<world, known, lamp, black, others, raced, dropped>>

\* finish_successful_connection.
ConnectDone(s) ==
    /\ scan[s] = "finishing"
    /\ Set([lamp EXCEPT !.connected = TRUE, !.connecting = FALSE, !.peripheral = TRUE,
                        !.chars = TRUE, !.failures = 0, !.once = TRUE])
    /\ Step(s, "idle")
    /\ UNCHANGED <<world, known, black, others, raced>>

\* mark_connect_failure: released and counted (the count is read of a lamp that never connected);
\* a new lamp that keeps failing is blacklisted.
ConnectFailed(s) ==
    /\ scan[s] = "failing"
    /\ LET failures == IF lamp.once THEN 0 ELSE lamp.failures + 1
       IN  /\ Set([Release(lamp) EXCEPT !.failures = IF failures > MaxFailures THEN MaxFailures ELSE failures])
           /\ Step(s, IF known /\ failures >= MaxFailures THEN "removing" ELSE "idle")
    /\ UNCHANGED <<world, known, black, others, raced>>

Attempting(s) == scan[s] \in {"linking", "reading", "finishing", "failing"}

\* The request is dropped at an await; what it claimed stays claimed.
ScanDropped ==
    /\ scan["asked"] # "idle"
    /\ Step("asked", "idle")
    /\ dropped' = \/ dropped
                  \/ lamp.connecting /\ Attempting("asked") /\ ~Attempting("periodic")
    /\ UNCHANGED <<world, known, lamp, black, others, raced>>

-----------------------------------------------------------------------------
(* blacklist_lamp, by a request or by a scan: the lamp is removed, then the *)
(* link dropped, then the addresses are blacklisted.                        *)

Removed ==
    /\ known' = FALSE
    /\ lamp' = NewLamp(FALSE)
    /\ dropped' = FALSE

\* disconnect_peripheral, best effort.
Parted ==
    \/ linkUp /\ Link(FALSE)
    \/ UNCHANGED <<linkUp, events>>

\* Whether a scan that read the blacklist before has taken the lamp back, or is about to.
Extended ==
    /\ black' = TRUE
    /\ raced' = (raced \/ known \/ \E s \in Scan : scan[s] = "seen")

ForgetStart ==
    /\ forget = "idle"
    /\ known
    /\ Removed
    /\ forget' = "parting"
    /\ UNCHANGED <<world, black, scan, poll, cmd, raced>>

ForgetParts ==
    /\ forget = "parting"
    /\ Parted
    /\ forget' = "extending"
    /\ UNCHANGED <<near, known, lamp, black, scan, poll, cmd, raced, dropped>>

ForgetEnds ==
    /\ forget = "extending"
    /\ Extended
    /\ forget' = "done"
    /\ UNCHANGED <<world, known, lamp, scan, poll, cmd, dropped>>

ForgetDropped ==
    /\ forget \in {"parting", "extending"}
    /\ forget' = "done"
    /\ UNCHANGED <<world, known, lamp, black, scan, poll, cmd, raced, dropped>>

ScanForgets(s) ==
    /\ scan[s] = "removing"
    /\ IF known THEN Removed /\ Step(s, "parting")
       ELSE Step(s, "idle") /\ UNCHANGED <<known, lamp, dropped>>
    /\ UNCHANGED <<world, black, others, raced>>

ScanParts(s) ==
    /\ scan[s] = "parting"
    /\ Parted
    /\ Step(s, "extending")
    /\ UNCHANGED <<near, known, lamp, black, others, raced, dropped>>

ScanExtends(s) ==
    /\ scan[s] = "extending"
    /\ Extended
    /\ Step(s, "idle")
    /\ UNCHANGED <<world, known, lamp, others, dropped>>

-----------------------------------------------------------------------------
(* The poll, a command, notifications and the adapter's events.            *)

\* refresh_lamp_state copies the characteristics, if the lamp is connected.
PollStart ==
    /\ poll = "idle"
    /\ known /\ lamp.connected /\ lamp.peripheral
    /\ poll' = IF lamp.chars THEN "reading" ELSE "reading nothing"
    /\ UNCHANGED <<world, known, lamp, black, scan, cmd, forget, raced, dropped>>

\* read_state: with no characteristics there is nothing to read, and nothing to fail.
PollReads ==
    /\ poll = "reading nothing" \/ (poll = "reading" /\ linkUp)
    /\ Set([lamp EXCEPT !.connected = TRUE])
    /\ poll' = "idle"
    /\ UNCHANGED <<world, known, black, scan, cmd, forget, raced>>

\* Mutant: a failed read is left for the next poll.
PollFailsQuietly ==
    /\ poll = "reading" /\ ~linkUp
    /\ poll' = "idle"
    /\ UNCHANGED <<world, known, lamp, black, scan, cmd, forget, raced, dropped>>

\* mark_runtime_disconnected, in a lock of its own.
PollFails ==
    /\ poll = "reading" /\ ~linkUp
    /\ poll' = "failed"
    /\ UNCHANGED <<world, known, lamp, black, scan, cmd, forget, raced, dropped>>

PollReleases ==
    /\ poll = "failed"
    /\ Set(Release(lamp))
    /\ poll' = "idle"
    /\ UNCHANGED <<world, known, black, scan, cmd, forget, raced>>

\* connected_target, and the write (without a response): one that fails changes nothing.
CommandWrites ==
    /\ cmd = "idle"
    /\ known /\ lamp.connected /\ lamp.peripheral /\ lamp.chars
    /\ linkUp
    /\ cmd' = "written"
    /\ UNCHANGED <<world, known, lamp, black, scan, poll, forget, raced, dropped>>

\* update_state_after_write.
CommandDone ==
    /\ cmd = "written"
    /\ Set([lamp EXCEPT !.connected = TRUE])
    /\ cmd' = "idle"
    /\ UNCHANGED <<world, known, black, scan, poll, forget, raced>>

\* The request is dropped while it waits for the lock.
CommandDropped ==
    /\ cmd = "written"
    /\ cmd' = "idle"
    /\ UNCHANGED <<world, known, lamp, black, scan, poll, forget, raced, dropped>>

\* A listener that was not aborted hears the lamp.  (What it then refreshes is the poll's step.)
Notified ==
    /\ known /\ lamp.listener
    /\ linkUp
    /\ Set([lamp EXCEPT !.connected = TRUE])
    /\ UNCHANGED <<world, known, black, scan, others, raced>>

\* handle_adapter_event.
Event ==
    /\ events # <<>>
    /\ events' = Tail(events)
    /\ Set(IF Head(events) = "connected" THEN [lamp EXCEPT !.connected = TRUE, !.connecting = FALSE]
           ELSE Release(lamp))
    /\ UNCHANGED <<near, linkUp, known, black, scan, others, raced>>

-----------------------------------------------------------------------------

\* The lamp is switched off at the wall, with its link, or comes back.
Leaves ==
    /\ near
    /\ near' = FALSE
    /\ IF linkUp THEN Link(FALSE) ELSE UNCHANGED <<linkUp, events>>
    /\ UNCHANGED <<known, lamp, black, scan, others, raced, dropped>>

Returns ==
    /\ ~near
    /\ near' = TRUE
    /\ UNCHANGED <<linkUp, events, known, lamp, black, scan, others, raced, dropped>>

Scans(s) ==
    \/ ScanSees(s) \/ ScanMisses(s) \/ ScanKeeps(s)
    \/ ConnectClaim(s) \/ ConnectLinks(s) \/ ConnectReads(s) \/ ConnectFails(s) \/ ConnectDone(s) \/ ConnectFailed(s)
    \/ ScanForgets(s) \/ ScanParts(s) \/ ScanExtends(s)

Polls == PollStart \/ PollReads \/ PollFails \/ PollReleases

Next ==
    \/ \E s \in Scan : Scans(s)
    \/ ScanDropped
    \/ ForgetStart \/ ForgetParts \/ ForgetEnds \/ ForgetDropped
    \/ Polls
    \/ CommandWrites \/ CommandDone \/ CommandDropped
    \/ Notified
    \/ Event
    \/ Leaves \/ Returns

\* The scan and the poll are repeated for ever, and a scan once asked for goes on unless it is
\* dropped; so do the removals; events are handled as they come.
Fairness ==
    /\ WF_vars(Scans("periodic"))
    /\ WF_vars(scan["asked"] # "idle" /\ Scans("asked"))
    /\ WF_vars(ForgetParts) /\ WF_vars(ForgetEnds)
    /\ WF_vars(Polls)
    /\ WF_vars(Event)

Spec == Init /\ [][Next]_vars /\ Fairness

-----------------------------------------------------------------------------
(* Properties.                                                             *)

\* A lamp forgotten for good comes back only through a scan that had read the blacklist before
\* its addresses were on it: removing the lamp, dropping the link and blacklisting are three
\* steps in that order (mod.rs:385-402, 506-512).
TakenBackOnlyByRace == known /\ black => raced

\* A lamp shown connected over a link that is gone does not stay so: the adapter's event or the
\* poll's next read finds out, whatever late commands and notifications write (mod.rs:561-576).
GhostsFade == (known /\ lamp.connected /\ lamp.chars /\ ~linkUp) ~> (~known \/ ~lamp.connected \/ ~lamp.chars \/ linkUp)

Live == known /\ lamp.connected /\ lamp.chars /\ linkUp

\* Connected by a late write or an event, without the characteristics commands and reads need.
Deaf == known /\ lamp.connected /\ ~lamp.chars

\* A lamp that stays in reach is connected again and again (mod.rs:1-2, 690), or ends in one
\* of three ways: forgotten, its claim left behind by a dropped scan, or deaf.
ConnectsOrStuck == []<>(Live \/ ~near) \/ <>[](black \/ dropped \/ Deaf)

=============================================================================
