----------------------------- MODULE TuyaWorker -----------------------------
(***************************************************************************)
(* The connection of one Tuya device: connect_device and disconnect_device *)
(* of backend/src/tuya/mod.rs against the workers and the supervisors of   *)
(* backend/src/tuya/worker.rs, on several threads.                         *)
(*                                                                         *)
(* `runtime` (who holds a worker's handle) is behind an RwLock; `link` is  *)
(* a watch channel anyone changes at any moment, so a step that copies it  *)
(* and a later one that changes it are two steps.  Dropping a handle stops *)
(* its worker, whenever the worker gets to notice.                         *)
(* Left out: the retry count, which only sets the length of the back-off.  *)
(***************************************************************************)
EXTENDS Naturals, FiniteSets

CONSTANTS
    Caller,      \* requests that connect or disconnect the device
    MaxWorker,   \* bound on the workers ever started
    MaxPanic,    \* bound on the workers that panic
    Nil

Worker == 1 .. MaxWorker

VARIABLES
    up,         \* whether the device answers
    lock,       \* who holds the write lock on `runtime`
    handle,     \* RuntimeDeviceState.worker: the worker whose handle is kept
    link,       \* Link: whose session, and how it is
    born,       \* workers started so far
    run,        \* where each worker is
    wake,       \* workers with a notification not yet consumed
    stopped,    \* workers whose handle was dropped
    panicked,   \* workers that panicked
    sup,        \* where each worker's supervisor is
    pc,         \* where each caller is
    seen,       \* the link as each connect_device copied it
    waitsFor,   \* the worker each disconnect_device waits for
    given,      \* history: workers a disconnect_device gave up waiting for
    wanted,     \* history: the last request was to connect
    overtaken   \* history: a disconnect came between a supervisor's check and its connect

vars == <<up, lock, handle, link, born, run, wake, stopped, panicked, sup, pc, seen, waitsFor, given, wanted, overtaken>>

LinkRec == [worker : Worker \cup {Nil}, connected : BOOLEAN, connecting : BOOLEAN]

NoLink == [worker |-> Nil, connected |-> FALSE, connecting |-> FALSE]

\* A supervisor runs connect_device as a request does.
Actor == Caller \cup Worker

TypeOK ==
    /\ up \in BOOLEAN
    /\ lock \in Actor \cup {Nil}
    /\ handle \in Worker \cup {Nil}
    /\ link \in LinkRec
    /\ born \in 0 .. MaxWorker
    /\ run \in [Worker -> {"unborn", "connecting", "serving", "closing", "backoff", "gone"}]
    /\ wake \subseteq Worker
    /\ stopped \subseteq Worker
    /\ panicked \subseteq Worker
    /\ sup \in [Worker -> {"watching", "sleeping", "checked", "claiming", "done"}]
    /\ pc \in [Caller -> {"idle", "claiming", "waiting"}]
    /\ seen \in [Actor -> LinkRec]
    /\ waitsFor \in [Caller -> Worker \cup {Nil}]
    /\ given \subseteq Worker
    /\ wanted \in BOOLEAN
    /\ overtaken \in BOOLEAN

Init ==
    /\ up \in BOOLEAN
    /\ lock = Nil
    /\ handle = Nil
    /\ link = NoLink
    /\ born = 0
    /\ run = [u \in Worker |-> "unborn"]
    /\ wake = {}
    /\ stopped = {}
    /\ panicked = {}
    /\ sup = [u \in Worker |-> "watching"]
    /\ pc = [c \in Caller |-> "idle"]
    /\ seen = [a \in Actor |-> NoLink]
    /\ waitsFor = [c \in Caller |-> Nil]
    /\ given = {}
    /\ wanted = FALSE
    /\ overtaken = FALSE

Alive(u) == run[u] \notin {"unborn", "gone"}

callers == <<pc, seen, waitsFor, given>>
history == <<wanted, overtaken>>

-----------------------------------------------------------------------------
(* connect_device.                                                         *)

\* The bound: requests leave a worker for each supervisor that may still start one.
Spare == born + Cardinality({u \in panicked : sup[u] # "done"}) + (MaxPanic - Cardinality(panicked)) < MaxWorker

\* Mutant: the lock is let go between the look and the claim.
LookUnlocked(a) ==
    /\ lock = Nil
    /\ lock' = Nil
    /\ seen' = [seen EXCEPT ![a] = link]

\* The write lock, and a copy of the link.
Look(a) ==
    /\ lock = Nil
    /\ lock' = a
    /\ seen' = [seen EXCEPT ![a] = link]

\* A handle whose worker the copy does not name is dropped.
Kept(a) == IF handle # Nil /\ seen[a].worker # handle THEN Nil ELSE handle

\* One under way, a nudge to one that waits, or a new one.  The lock goes.
Claim(a) ==
    /\ \/ /\ Kept(a) # Nil
          /\ seen[a].connected \/ seen[a].connecting
          /\ UNCHANGED <<handle, link, born, run, wake, stopped>>
       \/ /\ Kept(a) # Nil
          /\ ~seen[a].connected /\ ~seen[a].connecting
          /\ link' = [link EXCEPT !.connecting = TRUE]
          /\ wake' = wake \cup {handle}
          /\ UNCHANGED <<handle, born, run, stopped>>
       \/ /\ Kept(a) = Nil
          /\ born' = born + 1
          /\ run' = [run EXCEPT ![born + 1] = "connecting"]
          /\ link' = [link EXCEPT !.worker = born + 1, !.connecting = TRUE]
          /\ handle' = born + 1
          /\ stopped' = stopped \cup ({handle} \ {Nil})
          /\ UNCHANGED wake
    /\ lock' = Nil
    /\ seen' = [seen EXCEPT ![a] = NoLink]
    /\ UNCHANGED <<up, panicked, waitsFor, given>>

\* What the request then waits for (connected, or no longer connecting, or STATUS_TIMEOUT)
\* only chooses its answer.
ConnectStart(c) ==
    /\ pc[c] = "idle"
    /\ Spare
    /\ Look(c)
    /\ pc' = [pc EXCEPT ![c] = "claiming"]
    /\ UNCHANGED <<up, panicked, handle, link, born, run, wake, stopped, sup, waitsFor, given, history>>

ConnectClaim(c) ==
    /\ pc[c] = "claiming"
    /\ Claim(c)
    /\ pc' = [pc EXCEPT ![c] = "idle"]
    /\ wanted' = TRUE
    /\ overtaken' = FALSE
    /\ UNCHANGED sup

-----------------------------------------------------------------------------
(* disconnect_device.                                                      *)

Disconnect(c) ==
    /\ pc[c] = "idle"
    /\ lock = Nil
    /\ link' = NoLink
    /\ handle' = Nil
    /\ stopped' = stopped \cup ({handle} \ {Nil})
    /\ waitsFor' = [waitsFor EXCEPT ![c] = handle]
    /\ pc' = [pc EXCEPT ![c] = IF handle = Nil THEN "idle" ELSE "waiting"]
    /\ wanted' = FALSE
    /\ overtaken' = (\E u \in Worker : sup[u] = "checked")
    /\ UNCHANGED <<up, panicked, lock, born, run, wake, sup, seen, given>>

\* `exited` resolves.
Disconnected(c) ==
    /\ pc[c] = "waiting"
    /\ run[waitsFor[c]] = "gone"
    /\ waitsFor' = [waitsFor EXCEPT ![c] = Nil]
    /\ pc' = [pc EXCEPT ![c] = "idle"]
    /\ UNCHANGED <<up, panicked, lock, handle, link, born, run, wake, stopped, sup, seen, given, history>>

\* STATUS_TIMEOUT, or the request is dropped.
GiveUp(c) ==
    /\ pc[c] = "waiting"
    /\ given' = given \cup {waitsFor[c]}
    /\ waitsFor' = [waitsFor EXCEPT ![c] = Nil]
    /\ pc' = [pc EXCEPT ![c] = "idle"]
    /\ UNCHANGED <<up, panicked, lock, handle, link, born, run, wake, stopped, sup, seen, history>>

-----------------------------------------------------------------------------
(* The worker.                                                             *)

\* `update_own_link`: no change unless u still owns the link.
OwnLink(u, connected, connecting) ==
    IF link.worker = u THEN [link EXCEPT !.connected = connected, !.connecting = connecting]
    ELSE link

Becomes(u, there) == run' = [run EXCEPT ![u] = there]

\* device.connect() answers: the session serves heartbeats, pushed values and commands.
SessionOpens(u) ==
    /\ run[u] = "connecting"
    /\ up
    /\ link' = OwnLink(u, TRUE, FALSE)
    /\ Becomes(u, "serving")
    /\ UNCHANGED <<up, panicked, lock, handle, born, wake, stopped, sup, callers, history>>

\* It fails, or STATUS_TIMEOUT.
SessionFails(u) ==
    /\ run[u] = "connecting"
    /\ ~up
    /\ link' = OwnLink(u, FALSE, FALSE)
    /\ Becomes(u, "backoff")
    /\ UNCHANGED <<up, panicked, lock, handle, born, wake, stopped, sup, callers, history>>

\* A heartbeat or the channel fails, for whatever reason.
SessionBreaks(u) ==
    /\ run[u] = "serving"
    /\ link' = OwnLink(u, FALSE, FALSE)
    /\ Becomes(u, "closing")
    /\ UNCHANGED <<up, panicked, lock, handle, born, wake, stopped, sup, callers, history>>

SessionCloses(u) ==
    /\ run[u] = "closing"
    /\ Becomes(u, "backoff")
    /\ UNCHANGED <<up, panicked, lock, handle, link, born, wake, stopped, sup, callers, history>>

\* The back-off has passed.  A nudge that came at the same time stays to be consumed.
BackoffEnds(u) ==
    /\ run[u] = "backoff"
    /\ link' = OwnLink(u, link.connected, TRUE)
    /\ Becomes(u, "connecting")
    /\ UNCHANGED <<up, panicked, lock, handle, born, wake, stopped, sup, callers, history>>

Nudged(u) ==
    /\ run[u] = "backoff"
    /\ u \in wake
    /\ wake' = wake \ {u}
    /\ Becomes(u, "connecting")
    /\ UNCHANGED <<up, panicked, lock, handle, link, born, stopped, sup, callers, history>>

\* `WorkerExit::drop`: the link u still owned is cleared.
LinkWithout(u) == IF link.worker = u THEN NoLink ELSE link

\* The worker notices that its handle is gone; its session is dropped, which closes the socket.
Stops(u) ==
    /\ Alive(u)
    /\ u \in stopped
    /\ link' = LinkWithout(u)
    /\ Becomes(u, "gone")
    /\ sup' = [sup EXCEPT ![u] = "done"]
    /\ UNCHANGED <<up, panicked, lock, handle, born, wake, stopped, callers, history>>

Panic(u) ==
    /\ run[u] \in {"connecting", "serving", "closing"}
    /\ Cardinality(panicked) < MaxPanic
    /\ panicked' = panicked \cup {u}
    /\ link' = LinkWithout(u)
    /\ Becomes(u, "gone")
    /\ sup' = [sup EXCEPT ![u] = "sleeping"]
    /\ UNCHANGED <<up, lock, handle, born, wake, stopped, callers, history>>

-----------------------------------------------------------------------------
(* The supervisor of a worker that panicked.                               *)

\* Mutant: whatever happened meanwhile.
StillDeadAnyway(u) == TRUE

\* Mutant: the link is asked, which the dead worker has cleared.
StillDeadByLink(u) == link.worker = u

StillDead(u) == handle = u

\* The back-off, then a look at the handle under the read lock.
SupCheck(u) ==
    /\ sup[u] = "sleeping"
    /\ lock = Nil
    /\ sup' = [sup EXCEPT ![u] = IF StillDead(u) THEN "checked" ELSE "done"]
    /\ UNCHANGED <<up, panicked, lock, handle, link, born, run, wake, stopped, callers, history>>

\* connect_device, with a lock of its own.
SupConnect(u) ==
    /\ sup[u] = "checked"
    /\ Look(u)
    /\ sup' = [sup EXCEPT ![u] = "claiming"]
    /\ UNCHANGED <<up, panicked, handle, link, born, run, wake, stopped, pc, waitsFor, given, history>>

SupClaim(u) ==
    /\ sup[u] = "claiming"
    /\ Claim(u)
    /\ sup' = [sup EXCEPT ![u] = "done"]
    /\ UNCHANGED <<pc, history>>

-----------------------------------------------------------------------------

Answers ==
    /\ up' = ~up
    /\ UNCHANGED <<panicked, lock, handle, link, born, run, wake, stopped, sup, callers, history>>

\* What a worker task does by itself once it is polled.
Works(u) == SessionOpens(u) \/ SessionFails(u) \/ SessionCloses(u) \/ BackoffEnds(u) \/ Nudged(u) \/ Stops(u)

Next ==
    \/ \E c \in Caller : \/ ConnectStart(c)
                         \/ ConnectClaim(c)
                         \/ Disconnect(c)
                         \/ Disconnected(c)
                         \/ GiveUp(c)
    \/ \E u \in Worker : \/ Works(u)
                         \/ SessionBreaks(u)
                         \/ Panic(u)
                         \/ SupCheck(u)
                         \/ SupConnect(u)
                         \/ SupClaim(u)
    \/ Answers

\* Whoever holds the lock goes on to its claim; a supervisor queues for the lock.
Claims == (\E c \in Caller : ConnectClaim(c)) \/ (\E u \in Worker : SupClaim(u))
Supervises == \E u \in Worker : SupCheck(u) \/ SupConnect(u)

\* The runtime polls every task that can go on; tokio's RwLock is fair, so a supervisor that
\* queues for it gets it in the end.
Fairness == WF_vars(Claims) /\ SF_vars(Supervises) /\ \A u \in Worker : WF_vars(Works(u))

Spec == Init /\ [][Next]_vars /\ Fairness

-----------------------------------------------------------------------------
(* Properties.                                                             *)

\* Two sessions never fight over the device on their own: a worker that lives without being
\* the one whose handle is kept was told to stop by a disconnect_device that still waits for
\* it, or gave up waiting (mod.rs:337-340, 393-404).
NoFight ==
    \A u \in Worker : Alive(u) /\ u # handle
        => u \in given \/ \E c \in Caller : pc[c] = "waiting" /\ waitsFor[c] = u

\* A device shown connected has a session: its owner serves it and nobody told it to stop, so
\* a cancelled worker finishing late never marks a disconnected device connected
\* (worker.rs:154-155).
ConnectedIsReal ==
    link.connected => /\ link.worker # Nil
                      /\ link.worker = handle
                      /\ run[handle] = "serving"
                      /\ handle \notin stopped

\* A supervisor brings back no device someone disconnected, unless the disconnect came between
\* its check and its connect_device.
DisconnectHolds == handle # Nil => wanted \/ overtaken

\* A device that answers and that nobody disconnected is connected again and again, whatever
\* breaks (sessions, panics), and whoever waits in connect_device is answered before the timeout:
\* a device shown connecting ends up connected or not connecting (mod.rs:382-391).
Recovers ==
    /\ []<>(link.connected \/ handle = Nil \/ ~up)
    /\ link.connecting ~> (link.connected \/ ~link.connecting)

=============================================================================
