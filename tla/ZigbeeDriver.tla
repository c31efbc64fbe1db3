---------------------------- MODULE ZigbeeDriver ----------------------------
(***************************************************************************)
(* The Zigbee driver of backend/src/zigbee/driver.rs: one task owns the    *)
(* dongle and serves a bounded queue of commands, rebuilds the pipeline    *)
(* when the link fails, and is supervised; callers of Driver::send check   *)
(* the lifecycle, wait for room in the queue, then wait for a reply, and   *)
(* may give up at each of the two.                                         *)
(*                                                                         *)
(* A caller's slot in Req is used again once nothing of it is queued.      *)
(* What a command does, and to which lamp, is left out: only what its end  *)
(* says about the link.                                                    *)
(***************************************************************************)
EXTENDS Naturals, Sequences

CONSTANTS
    Req,           \* callers of Driver::send
    QueueCap,      \* room in the command queue (32 in the code)
    MaxErrors,     \* MAX_CONSECUTIVE_ERRORS (5 in the code)
    MaxAttempts,   \* MAX_RECONNECT_ATTEMPTS (10 in the code)
    MaxPanic,      \* bound on the panics of the driver
    Nil

ASSUME ZigbeeDriverAssumption ==
    /\ QueueCap \in Nat \ {0} /\ MaxErrors \in Nat \ {0}
    /\ MaxAttempts \in Nat /\ MaxPanic \in Nat
    /\ Nil \notin Req

VARIABLES
    port,       \* a serial port is set (ZIGBEE_SERIAL_PORT)
    dongle,     \* the dongle is plugged in and answers
    life,       \* Shared.lifecycle
    drv,        \* where the driver task and its supervisor are
    queue,      \* the command queue, oldest first
    current,    \* the command being run
    req,        \* where each caller is
    errors,     \* EzspContext.errors
    attempts,   \* run_driver's attempts, no further than the first that reports Failed
    panics,     \* panics so far
    synced,     \* no time limit cut an exchange with the dongle on this pipeline
    lapsed      \* history: a time limit that is only logged may have cut one

vars == <<port, dongle, life, drv, queue, current, req, errors, attempts, panics, synced, lapsed>>

\* The event loop between two commands, or in one.
Open == {"serving", "running"}

TypeOK ==
    /\ port \in BOOLEAN
    /\ dongle \in BOOLEAN
    /\ life \in {"starting", "ready", "failed"}
    /\ drv \in Open \cup {"off", "opening", "broken", "backoff", "crashed", "draining", "resting", "gone"}
    /\ queue \in Seq(Req)
    /\ current \in Req \cup {Nil}
    /\ req \in [Req -> {"idle", "enqueuing", "waiting", "gaveup"}]
    /\ errors \in 0 .. MaxErrors
    /\ attempts \in 0 .. MaxAttempts + 1
    /\ panics \in 0 .. MaxPanic
    /\ synced \in BOOLEAN
    /\ lapsed \in BOOLEAN

Init ==
    /\ port \in BOOLEAN
    /\ dongle \in BOOLEAN
    /\ life = "starting"
    /\ drv = "off"
    /\ queue = <<>>
    /\ current = Nil
    /\ req = [r \in Req |-> "idle"]
    /\ errors = 0
    /\ attempts = 0
    /\ panics = 0
    /\ synced = TRUE
    /\ lapsed = FALSE

pipeline == <<errors, attempts, synced, lapsed>>
callers == <<queue, req>>

-----------------------------------------------------------------------------
(* Driver::send.                                                           *)

\* Starts the task on first use; a lifecycle other than Ready is the answer.
SendCheck(r) ==
    /\ req[r] = "idle"
    /\ drv' = IF drv = "off" THEN "opening" ELSE drv
    /\ req' = IF life = "ready" THEN [req EXCEPT ![r] = "enqueuing"] ELSE req
    /\ UNCHANGED <<port, dongle, life, queue, current, panics, pipeline>>

Enqueue(r) ==
    /\ req[r] = "enqueuing"
    /\ Len(queue) < QueueCap
    /\ queue' = Append(queue, r)
    /\ req' = [req EXCEPT ![r] = "waiting"]
    /\ UNCHANGED <<port, dongle, life, drv, current, panics, pipeline>>

\* COMMAND_ENQUEUE_TIMEOUT, or the request is dropped: nothing was queued.
EnqueueTimeout(r) ==
    /\ req[r] = "enqueuing"
    /\ req' = [req EXCEPT ![r] = "idle"]
    /\ UNCHANGED <<port, dongle, life, drv, queue, current, panics, pipeline>>

\* COMMAND_REPLY_TIMEOUT, or the request is dropped: the command stays where it is, its reply
\* channel closed.
GiveUp(r) ==
    /\ req[r] = "waiting"
    /\ req' = [req EXCEPT ![r] = "gaveup"]
    /\ UNCHANGED <<port, dongle, life, drv, queue, current, panics, pipeline>>

-----------------------------------------------------------------------------
(* run_driver.                                                             *)

\* drain_pending_requests: every command in the queue is answered.
DrainPending ==
    /\ queue' = <<>>
    /\ req' = [r \in Req |-> IF \E i \in 1 .. Len(queue) : queue[i] = r THEN "idle" ELSE req[r]]

NoPort ==
    /\ drv = "opening"
    /\ ~port
    /\ life' = "failed"
    /\ drv' = "gone"
    /\ DrainPending
    /\ UNCHANGED <<port, dongle, current, panics, pipeline>>

\* A time limit that is only logged cuts an exchange half-way: the availability check's, its
\* restore sweep's, a callback's drained after a Touchlink join or while a network forms.
CutAndLogged ==
    /\ synced' = FALSE
    /\ lapsed' = TRUE

\* A callback drained while the network forms may be cut.
BringUp ==
    /\ drv = "opening"
    /\ port
    /\ dongle
    /\ life' = "ready"
    /\ drv' = "serving"
    /\ errors' = 0
    /\ attempts' = 0
    /\ \/ synced' = TRUE /\ lapsed' = FALSE
       \/ CutAndLogged
    /\ UNCHANGED <<port, dongle, current, panics, callers>>

\* backoff_before_retry: Failed once the attempts are past the limit.
Backoff ==
    /\ attempts' = IF attempts > MaxAttempts THEN attempts ELSE attempts + 1
    /\ life' = IF attempts' > MaxAttempts THEN "failed" ELSE "starting"
    /\ drv' = "backoff"

\* The serial port, the negotiation or the network: an error, or a time limit.
BringUpFails ==
    /\ drv = "opening"
    /\ port
    /\ ~dongle
    /\ Backoff
    /\ UNCHANGED <<port, dongle, current, panics, callers, errors, synced, lapsed>>

\* Mutant: past the limit it stops trying.
BackoffGivesUp ==
    /\ drv = "backoff"
    /\ drv' = IF attempts > MaxAttempts THEN "gone" ELSE "opening"
    /\ UNCHANGED <<port, dongle, life, current, panics, callers, pipeline>>

BackoffEnds ==
    /\ drv = "backoff"
    /\ drv' = "opening"
    /\ UNCHANGED <<port, dongle, life, current, panics, callers, pipeline>>

\* Mutant: the caller is not asked whether it still waits.
TakeAnyway ==
    /\ drv = "serving"
    /\ queue # <<>>
    /\ queue' = Tail(queue)
    /\ current' = Head(queue)
    /\ drv' = "running"
    /\ UNCHANGED <<port, dongle, life, req, panics, pipeline>>

\* The event loop takes the oldest command; one whose caller gave up is skipped.
Take ==
    /\ drv = "serving"
    /\ queue # <<>>
    /\ queue' = Tail(queue)
    /\ IF req[Head(queue)] = "gaveup"
         THEN /\ req' = [req EXCEPT ![Head(queue)] = "idle"]
              /\ UNCHANGED <<current, drv>>
         ELSE /\ current' = Head(queue)
              /\ drv' = "running"
              /\ UNCHANGED req
    /\ UNCHANGED <<port, dongle, life, panics, pipeline>>

\* The command ends, its caller answered if it still waits.
Ends(there) ==
    /\ drv = "running"
    /\ req' = [req EXCEPT ![current] = "idle"]
    /\ current' = Nil
    /\ drv' = there
    /\ UNCHANGED <<port, dongle, life, queue, panics, attempts>>

\* A callback drained after a Touchlink join may be cut.
RunOk ==
    /\ dongle
    /\ Ends("serving")
    /\ errors' = 0
    /\ \/ UNCHANGED <<synced, lapsed>>
       \/ CutAndLogged

\* Refused before it reached the dongle: counts for nothing.
RunRefused ==
    /\ Ends("serving")
    /\ UNCHANGED <<errors, synced, lapsed>>

\* The dongle failed it: several in a row mean a broken link.
RunSuspect ==
    /\ dongle
    /\ errors' = errors + 1
    /\ Ends(IF errors + 1 >= MaxErrors THEN "broken" ELSE "serving")
    /\ UNCHANGED <<synced, lapsed>>

\* The transport failed under it.
RunBroken ==
    /\ Ends("broken")
    /\ UNCHANGED <<errors, synced, lapsed>>

\* Mutant: the caller is told and the loop goes on.
RunTimeoutGoesOn ==
    /\ Ends("serving")
    /\ synced' = FALSE
    /\ UNCHANGED <<errors, lapsed>>

\* The command's time limit: the exchange is dropped half-way.
RunTimeout ==
    /\ Ends("broken")
    /\ synced' = FALSE
    /\ UNCHANGED <<errors, lapsed>>

\* A tick finds the link dead, or cuts a keep-alive, a callback or an interview that hangs.
ChoreFails ==
    /\ drv = "serving"
    /\ drv' = "broken"
    /\ synced' \in {synced, FALSE}
    /\ UNCHANGED <<port, dongle, life, current, panics, callers, errors, attempts, lapsed>>

\* The availability check or its restore sweep runs out of time and the loop goes on.
AvailabilityTimesOut ==
    /\ drv = "serving"
    /\ CutAndLogged
    /\ UNCHANGED <<port, dongle, life, drv, current, panics, callers, errors, attempts>>

\* Mutant: the lifecycle stays as it was.
TearDownSilently ==
    /\ drv = "broken"
    /\ drv' = "backoff"
    /\ UNCHANGED <<port, dongle, life, current, panics, callers, pipeline>>

\* The pipeline is torn down; the lifecycle says so only then.
TearDown ==
    /\ drv = "broken"
    /\ Backoff
    /\ UNCHANGED <<port, dongle, current, panics, callers, errors, synced, lapsed>>

-----------------------------------------------------------------------------
(* supervise_driver.                                                       *)

\* A panic drops the pipeline, and the command being run with its reply channel.
Panic ==
    /\ drv \in Open \cup {"opening"}
    /\ panics < MaxPanic
    /\ panics' = panics + 1
    /\ req' = IF current = Nil THEN req ELSE [req EXCEPT ![current] = "idle"]
    /\ current' = Nil
    /\ drv' = "crashed"
    /\ UNCHANGED <<port, dongle, life, queue, pipeline>>

SupMark ==
    /\ drv = "crashed"
    /\ life' = "failed"
    /\ drv' = "draining"
    /\ UNCHANGED <<port, dongle, current, panics, callers, pipeline>>

\* A caller not yet in the queue may enter it afterwards.
Drain ==
    /\ drv = "draining"
    /\ DrainPending
    /\ drv' = "resting"
    /\ UNCHANGED <<port, dongle, life, current, panics, pipeline>>

\* run_driver starts over.
RestEnds ==
    /\ drv = "resting"
    /\ life' = "starting"
    /\ drv' = "opening"
    /\ attempts' = 0
    /\ UNCHANGED <<port, dongle, current, panics, callers, errors, synced, lapsed>>

-----------------------------------------------------------------------------

Plug ==
    /\ dongle' = ~dongle
    /\ UNCHANGED <<port, life, drv, current, panics, callers, pipeline>>

Runs == RunOk \/ RunRefused \/ RunSuspect \/ RunBroken \/ RunTimeout

\* What the driver and its supervisor do by themselves.
Works == BringUp \/ BringUpFails \/ BackoffEnds \/ Runs \/ TearDown \/ SupMark \/ Drain \/ RestEnds

Next ==
    \/ \E r \in Req : SendCheck(r) \/ Enqueue(r) \/ EnqueueTimeout(r) \/ GiveUp(r)
    \/ NoPort
    \/ Works
    \/ Take
    \/ ChoreFails
    \/ AvailabilityTimesOut
    \/ Panic
    \/ Plug

\* Every step of the driver is bounded by a time limit or a sleep.  select! picks at random
\* among its ready branches, so a waiting command is taken in the end; the queue gives its room
\* to whoever waits longest.
Fairness ==
    /\ WF_vars(Works)
    /\ SF_vars(Take)
    /\ \A r \in Req : SF_vars(Enqueue(r))

Spec == Init /\ [][Next]_vars /\ Fairness

-----------------------------------------------------------------------------
(* Properties.                                                             *)

\* A command starts only while its caller waits for it: one left behind by a caller who gave up,
\* and may have asked again, never runs (driver.rs:346-352).
NoSurprise == [][current' # Nil /\ current' # current => req[current'] = "waiting"]_vars

\* The lifecycle lets requests in exactly while someone will serve them: Ready over an open
\* pipeline, and otherwise only until the failure just met is reported; a request does not
\* queue behind a radio that is down (driver.rs:42-51, 419-437).
ReadyMeansServing ==
    /\ drv \in Open => life = "ready"
    /\ life = "ready" => drv \in Open \cup {"broken", "crashed"}

\* A pipeline whose exchange a time limit cut half-way is used again only where that limit's end
\* is no more than logged: in the availability check and its restore sweep, after a Touchlink
\* join and while a network forms (driver.rs:32-34: "a desynchronised EZSP channel is never
\* reused").  The limits of a command, a keep-alive, an interview and a tick's callbacks end it.
InSyncUnlessLapsed == drv \in Open => synced \/ lapsed

\* A dongle that stays plugged in is served again, however often it failed before (the radio
\* never needs a process restart, driver.rs:48-50), and with the dongle there who waits is
\* answered, panics and rebuilds included.
RadioServes ==
    /\ []<>(life = "ready" \/ ~dongle \/ ~port \/ drv = "off")
    /\ \A r \in Req : req[r] \in {"enqueuing", "waiting"} ~> (req[r] \in {"idle", "gaveup"} \/ ~dongle)

=============================================================================
