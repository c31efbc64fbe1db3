----------------------------- MODULE LinksProofs -----------------------------
(***************************************************************************)
(* The two links that are served, break and are rebuilt: the dongle's,     *)
(* then a Tuya device's.                                                   *)
(***************************************************************************)
EXTENDS MCLinks, TLAPS

-----------------------------------------------------------------------------
(***************************************************************************)
(* The Zigbee driver, for any number of callers, any room in its queue,    *)
(* any limits and any number of panics.  LinkInv (the lifecycle, the       *)
(* pipeline and its error count) is inductive by itself; QueueInv relates  *)
(* the queue to the callers and rests on it.                               *)
(***************************************************************************)

\* A pipeline in use is below the error limit, which TypeOK needs of the next error.
LinkInv ==
    /\ TypeOK
    /\ ReadyMeansServing
    /\ InSyncUnlessLapsed
    /\ drv \in Open => errors < MaxErrors

\* A command queued or running has a caller who waits or gave up, and is there once.
QueueInv ==
    /\ current # Nil <=> drv = "running"
    /\ \A i \in 1 .. Len(queue) : req[queue[i]] \in {"waiting", "gaveup"}
    /\ \A i \in 1 .. Len(queue) : queue[i] # current
    /\ \A i, j \in 1 .. Len(queue) : queue[i] = queue[j] => i = j
    /\ current # Nil => req[current] \in {"waiting", "gaveup"}

DriverInv == LinkInv /\ QueueInv

\* Before the first use, whatever the port and the dongle.
LEMMA InitDriverInv == Init => DriverInv
  <1> SUFFICES ASSUME Init PROVE DriverInv
      OBVIOUS
  <1> USE DEF Init
  <1>1. synced \in BOOLEAN /\ lapsed \in BOOLEAN
        BY Zenon
  <1>2. TypeOK
        BY <1>1, ZigbeeDriverAssumption DEF TypeOK, Open
  <1>3. ReadyMeansServing /\ InSyncUnlessLapsed /\ QueueInv
        BY DEF ReadyMeansServing, InSyncUnlessLapsed, QueueInv, Open
  <1> QED BY <1>2, <1>3 DEF DriverInv, LinkInv, Open

\* The steps of a command that ends keep the types of what they change.
LEMMA EndsType ==
  ASSUME LinkInv, QueueInv, NEW there \in {"serving", "broken"}, Ends(there)
  PROVE  /\ req' \in [Req -> {"idle", "enqueuing", "waiting", "gaveup"}]
         /\ current' = Nil /\ drv' = there /\ drv = "running" /\ life = "ready"
         /\ UNCHANGED <<port, dongle, life, queue, panics, attempts>>
  BY DEF Ends, LinkInv, TypeOK, ReadyMeansServing, QueueInv, Open

\* The driver's steps keep the lifecycle, the pipeline and the error count right.
LEMMA NextLink == DriverInv /\ [Next]_vars => LinkInv'
  <1> SUFFICES ASSUME DriverInv, [Next]_vars PROVE LinkInv'
      OBVIOUS
  <1> USE ZigbeeDriverAssumption DEF DriverInv, LinkInv, TypeOK, ReadyMeansServing, InSyncUnlessLapsed, Open
  <1>1. ASSUME NEW r \in Req, SendCheck(r) \/ Enqueue(r) \/ EnqueueTimeout(r) \/ GiveUp(r) PROVE LinkInv'
    <2>1. /\ UNCHANGED <<port, dongle, life, current, panics, pipeline>>
          /\ drv' = drv \/ (drv = "off" /\ drv' = "opening")
          BY <1>1 DEF SendCheck, Enqueue, EnqueueTimeout, GiveUp, pipeline
    <2>2. queue' \in Seq(Req)
          BY <1>1 DEF SendCheck, Enqueue, EnqueueTimeout, GiveUp
    <2>3. req' \in [Req -> {"idle", "enqueuing", "waiting", "gaveup"}]
          BY <1>1 DEF SendCheck, Enqueue, EnqueueTimeout, GiveUp
    <2> QED BY <2>1, <2>2, <2>3 DEF pipeline
  <1>2. CASE NoPort BY <1>2 DEF NoPort, DrainPending, pipeline
  <1>3. CASE BringUp
    <2>1. (synced' = TRUE \/ lapsed' = TRUE) /\ synced' \in BOOLEAN /\ lapsed' \in BOOLEAN
          BY Zenon, <1>3 DEF BringUp, CutAndLogged
    <2>2. InSyncUnlessLapsed' BY Zenon, <2>1
    <2>3. TypeOK' BY <1>3, <2>1 DEF BringUp, callers
    <2>4. ReadyMeansServing' /\ errors' < MaxErrors BY <1>3 DEF BringUp
    <2> QED BY <2>2, <2>3, <2>4
  <1>4. CASE BringUpFails BY <1>4 DEF BringUpFails, Backoff, callers
  <1>5. CASE BackoffEnds BY <1>5 DEF BackoffEnds, callers, pipeline
  <1>6. CASE RunOk
    <2>1. Ends("serving") /\ errors' = 0 BY <1>6 DEF RunOk
    <2>2. (synced' = synced /\ lapsed' = lapsed) \/ (synced' = FALSE /\ lapsed' = TRUE)
          BY <1>6 DEF RunOk, CutAndLogged
    <2>3. synced \in BOOLEAN /\ lapsed \in BOOLEAN /\ (synced = TRUE \/ lapsed = TRUE)
          BY Zenon, <2>1, EndsType
    <2>4. synced' \in BOOLEAN /\ lapsed' \in BOOLEAN /\ (synced' = TRUE \/ lapsed' = TRUE)
          BY Zenon, <2>2, <2>3
    <2>5. TypeOK' BY <2>1, <2>4, EndsType
    <2> QED BY <2>1, <2>4, <2>5, EndsType
  <1>7. CASE RunRefused
    <2>1. Ends("serving") /\ errors' = errors /\ synced' = synced /\ lapsed' = lapsed BY <1>7 DEF RunRefused
    <2> QED BY <2>1, EndsType
  <1>8. CASE RunSuspect
    <2>1. errors' = errors + 1 /\ synced' = synced /\ lapsed' = lapsed BY <1>8 DEF RunSuspect
    <2>2. CASE errors + 1 >= MaxErrors
      <3>1. Ends("broken") BY <1>8, <2>2 DEF RunSuspect
      <3> QED BY <2>1, <2>2, <3>1, EndsType
    <2>3. CASE ~(errors + 1 >= MaxErrors)
      <3>1. Ends("serving") BY <1>8, <2>3 DEF RunSuspect
      <3> QED BY <2>1, <2>3, <3>1, EndsType
    <2> QED BY <2>2, <2>3
  <1>9. CASE RunBroken \/ RunTimeout
    <2>1. Ends("broken") /\ errors' = errors /\ synced' \in {synced, FALSE} /\ lapsed' = lapsed
          BY <1>9 DEF RunBroken, RunTimeout
    <2> QED BY <2>1, EndsType
  <1>10. CASE TearDown BY <1>10 DEF TearDown, Backoff, callers
  <1>11. CASE SupMark BY <1>11 DEF SupMark, callers, pipeline
  <1>12. CASE Drain BY <1>12 DEF Drain, DrainPending, pipeline
  <1>13. CASE RestEnds BY <1>13 DEF RestEnds, callers
  <1>14. CASE Take BY <1>14 DEF Take, pipeline
  <1>15. CASE ChoreFails BY <1>15 DEF ChoreFails, callers
  <1>16. CASE AvailabilityTimesOut BY <1>16 DEF AvailabilityTimesOut, CutAndLogged, callers
  <1>17. CASE Panic BY <1>17 DEF Panic, pipeline
  <1>18. CASE Plug BY <1>18 DEF Plug, callers, pipeline
  <1>19. CASE UNCHANGED vars BY <1>19 DEF vars
  <1> QED BY <1>1, <1>2, <1>3, <1>4, <1>5, <1>6, <1>7, <1>8, <1>9, <1>10, <1>11, <1>12, <1>13,
             <1>14, <1>15, <1>16, <1>17, <1>18, <1>19 DEF Next, Works, Runs

\* A command that ends leaves the others queued as they were.
LEMMA EndsQueue ==
  ASSUME LinkInv, QueueInv, NEW there \in {"serving", "broken"}, Ends(there)
  PROVE  QueueInv'
  <1>1. /\ drv = "running" /\ current \in Req /\ queue \in Seq(Req) /\ current' = Nil /\ drv' # "running"
        /\ queue' = queue /\ req' = [req EXCEPT ![current] = "idle"]
        /\ req \in [Req -> {"idle", "enqueuing", "waiting", "gaveup"}]
        BY EndsType DEF Ends, LinkInv, TypeOK, QueueInv
  <1>2. \A i \in 1 .. Len(queue) : queue[i] \in Req /\ queue[i] # current
        BY <1>1 DEF QueueInv
  <1>3. \A i \in 1 .. Len(queue) : queue'[i] # current'
        BY <1>1, <1>2, ZigbeeDriverAssumption
  <1>4. \A i \in 1 .. Len(queue) : req'[queue'[i]] = req[queue[i]]
        BY <1>1, <1>2
  <1> QED BY <1>1, <1>3, <1>4 DEF QueueInv

\* Callers enter, give up and are answered; the queue and the callers keep agreeing.
LEMMA NextQueue == DriverInv /\ [Next]_vars => QueueInv'
  <1> SUFFICES ASSUME DriverInv, [Next]_vars PROVE QueueInv'
      OBVIOUS
  <1> USE ZigbeeDriverAssumption DEF DriverInv, LinkInv, TypeOK, QueueInv, Open
  <1>1. ASSUME NEW r \in Req, SendCheck(r) \/ EnqueueTimeout(r) \/ GiveUp(r) PROVE QueueInv'
    <2>1. /\ UNCHANGED <<queue, current>> /\ (drv' = "running" <=> drv = "running")
          /\ \A q \in Req : req[q] \in {"waiting", "gaveup"} => req'[q] \in {"waiting", "gaveup"}
          BY <1>1 DEF SendCheck, EnqueueTimeout, GiveUp
    <2> QED BY <2>1
  <1>2. ASSUME NEW r \in Req, Enqueue(r) PROVE QueueInv'
    <2>1. /\ queue' = Append(queue, r) /\ req[r] = "enqueuing"
          /\ req' = [req EXCEPT ![r] = "waiting"]
          /\ UNCHANGED <<current, drv>>
          BY <1>2 DEF Enqueue
    <2>2. /\ Len(queue') = Len(queue) + 1 /\ queue'[Len(queue) + 1] = r
          /\ \A i \in 1 .. Len(queue) : queue'[i] = queue[i]
          BY <2>1
    <2>3. \A i \in 1 .. Len(queue) : queue[i] # r
          BY <2>1
    <2> QED BY <2>1, <2>2, <2>3
  <1>3. CASE NoPort \/ Drain
    <2>1. queue' = <<>> /\ current' = current /\ drv' # "running" /\ drv # "running"
          BY <1>3 DEF NoPort, Drain, DrainPending
    <2> QED BY <2>1
  <1>4. CASE BringUp \/ BringUpFails \/ BackoffEnds \/ TearDown \/ SupMark \/ RestEnds \/ ChoreFails
             \/ AvailabilityTimesOut \/ Plug
    <2>1. /\ UNCHANGED <<queue, req, current>>
          /\ drv = "running" <=> drv' = "running"
          BY <1>4 DEF BringUp, BringUpFails, Backoff, BackoffEnds, TearDown, SupMark, RestEnds, ChoreFails,
                      AvailabilityTimesOut, Plug, callers
    <2> QED BY <2>1
  <1>5. CASE Runs
    <2>1. \E there \in {"serving", "broken"} : Ends(there)
          BY <1>5 DEF Runs, RunOk, RunRefused, RunSuspect, RunBroken, RunTimeout
    <2> QED BY <2>1, EndsQueue
  <1>6. CASE Take
    <2>1. /\ queue # <<>> /\ queue' = Tail(queue) /\ drv = "serving" /\ current = Nil
          BY <1>6 DEF Take
    <2>2. /\ Len(queue') = Len(queue) - 1
          /\ \A i \in 1 .. Len(queue') : queue'[i] = queue[i + 1] /\ queue'[i] # Head(queue)
          /\ Head(queue) = queue[1] /\ Head(queue) \in Req
          BY <2>1
    <2>3. CASE req[Head(queue)] = "gaveup"
      <3>1. req' = [req EXCEPT ![Head(queue)] = "idle"] /\ UNCHANGED <<current, drv>>
            BY <1>6, <2>3 DEF Take
      <3> QED BY <2>1, <2>2, <3>1
    <2>4. CASE req[Head(queue)] # "gaveup"
      <3>1. current' = Head(queue) /\ drv' = "running" /\ req' = req
            BY <1>6, <2>4 DEF Take
      <3>2. req[Head(queue)] \in {"waiting", "gaveup"}
            BY <2>1, <2>2
      <3> QED BY <2>1, <2>2, <3>1, <3>2
    <2> QED BY <2>3, <2>4
  <1>7. CASE Panic
    <2>1. queue' = queue /\ current' = Nil /\ drv' = "crashed"
          BY <1>7 DEF Panic
    <2>2. \A i \in 1 .. Len(queue) : req'[queue[i]] = req[queue[i]]
          BY <1>7 DEF Panic
    <2>3. \A i \in 1 .. Len(queue) : queue[i] \in Req
          OBVIOUS
    <2> QED BY <2>1, <2>2, <2>3
  <1>8. CASE UNCHANGED vars BY <1>8 DEF vars
  <1> QED BY <1>1, <1>2, <1>3, <1>4, <1>5, <1>6, <1>7, <1>8 DEF Next, Works

\* The invariant holds throughout.
THEOREM ThDriverInv == Spec => []DriverInv
  <1>1. DriverInv /\ [Next]_vars => DriverInv' BY NextLink, NextQueue DEF DriverInv
  <1> QED BY InitDriverInv, <1>1, PTL DEF Spec

\* The lifecycle lets requests in only while someone will serve them or is about to say so
\* (Shared.lifecycle of driver.rs), for any number of callers and any limits.
THEOREM ThReadyMeansServing == Spec => []ReadyMeansServing
  <1>1. DriverInv => ReadyMeansServing BY DEF DriverInv, LinkInv
  <1> QED BY ThDriverInv, <1>1, PTL

\* Every exchange a time limit cuts ends the pipeline (serve and on_tick of driver.rs), but where
\* the limit's end is only logged: availability check, Touchlink join, forming network.
THEOREM ThInSyncUnlessLapsed == Spec => []InSyncUnlessLapsed
  <1>1. DriverInv => InSyncUnlessLapsed BY DEF DriverInv, LinkInv
  <1> QED BY ThDriverInv, <1>1, PTL

\* A command whose caller gave up never runs (serve of driver.rs), whatever the queue went
\* through.
THEOREM ThNoSurprise == Spec => NoSurprise
  <1>1. ASSUME DriverInv, [Next]_vars, current' # Nil, current' # current PROVE req[current'] = "waiting"
    <2> USE <1>1
    <2>1. CASE Take
      <3>1. Head(queue) = queue[1] /\ 1 \in 1 .. Len(queue)
            BY <2>1 DEF Take, DriverInv, LinkInv, TypeOK
      <3> QED BY <2>1, <3>1 DEF Take, DriverInv, QueueInv
    <2>2. CASE Runs
          BY <2>2 DEF Runs, RunOk, RunRefused, RunSuspect, RunBroken, RunTimeout, Ends
    <2>3. CASE [Next]_vars /\ ~Take /\ ~Runs
          BY <2>3 DEF Next, Works, vars, SendCheck, Enqueue, EnqueueTimeout, GiveUp, NoPort, BringUp, BringUpFails,
                      BackoffEnds, TearDown, SupMark, Drain, RestEnds, ChoreFails, AvailabilityTimesOut, Panic, Plug
    <2> QED BY <2>1, <2>2, <2>3
  <1>2. DriverInv /\ [Next]_vars => [current' # Nil /\ current' # current => req[current'] = "waiting"]_vars
        BY <1>1
  <1> QED BY ThDriverInv, <1>2, PTL DEF Spec, NoSurprise

-----------------------------------------------------------------------------
(***************************************************************************)
(* A Tuya device, for any number of callers, workers, supervisors and      *)
(* panics: nothing here needs the bound on workers.                        *)
(***************************************************************************)

LinkType == [worker : Nat \cup {Nil}, connected : BOOLEAN, connecting : BOOLEAN]

TuyaTypes ==
    /\ handle \in Nat \cup {Nil}
    /\ link \in LinkType
    /\ born \in Nat
    /\ run \in [Tuya!Worker -> {"unborn", "connecting", "serving", "closing", "backoff", "gone"}]
    /\ sup \in [Tuya!Worker -> {"watching", "sleeping", "checked", "claiming", "done"}]
    /\ pc \in [Caller -> {"idle", "claiming", "waiting"}]
    /\ seen \in [Tuya!Actor -> LinkType]
    /\ waitsFor \in [Caller -> Nat \cup {Nil}]
    /\ wanted \in BOOLEAN /\ overtaken \in BOOLEAN

\* Whoever is between its look and its claim holds the lock, and the link it copied still names the
\* same worker, or none since that worker went.
LookedAt(a) == lock = a /\ link.worker \in {seen[a].worker, Nil}

LockInv ==
    /\ \A c \in Caller : pc[c] = "claiming" => LookedAt(c)
    /\ \A u \in Tuya!Worker : sup[u] = "claiming" => LookedAt(u)

\* The handle is of a worker that was started and never told to stop; the link names it or nobody,
\* and names it as long as it lives.
HandleInv ==
    /\ \A u \in stopped : u \in Nat /\ u <= born
    /\ handle # Nil => handle <= born /\ handle \notin stopped
    /\ link.worker # Nil => link.worker = handle
    /\ \A u \in Tuya!Worker : Tuya!Alive(u) /\ u = handle => link.worker = u

\* A session is open as long as it is shown connected.
ServedInv == link.connected => link.worker # Nil /\ \E u \in Tuya!Worker : u = handle /\ run[u] = "serving"

\* A supervisor that is to connect the device found it wanted, or was overtaken.
WantedInv ==
    handle # Nil \/ (\E u \in Tuya!Worker : sup[u] \in {"checked", "claiming"}) => wanted \/ overtaken

TuyaInv == TuyaTypes /\ LockInv /\ HandleInv /\ ServedInv /\ WantedInv /\ Tuya!NoFight

\* Nothing is connected at first.
LEMMA TuyaInitInv == Tuya!Init => TuyaInv
  <1> SUFFICES ASSUME Tuya!Init PROVE TuyaInv
      OBVIOUS
  <1> USE LinksAssumption DEF Tuya!Init, Tuya!NoLink
  <1>1. TuyaTypes
        BY DEF TuyaTypes, LinkType
  <1>2. LockInv /\ HandleInv /\ ServedInv /\ WantedInv /\ Tuya!NoFight
        BY DEF LockInv, HandleInv, ServedInv, WantedInv, Tuya!NoFight, Tuya!Alive
  <1> QED BY <1>1, <1>2 DEF TuyaInv


-----------------------------------------------------------------------------
(* The steps.                                                              *)

\* A claim keeps the worker that the link names, or starts one when there is none.
LEMMA ClaimSets ==
  ASSUME TuyaInv, NEW a \in Tuya!Actor, LookedAt(a), Tuya!Claim(a)
  PROVE  /\ handle' \in Nat /\ link' \in LinkType /\ born' \in Nat /\ seen' \in [Tuya!Actor -> LinkType]
         /\ run' \in [Tuya!Worker -> {"unborn", "connecting", "serving", "closing", "backoff", "gone"}]
         /\ lock' = Nil /\ UNCHANGED <<waitsFor, given>>
         /\ HandleInv' /\ ServedInv'
         /\ \A u \in Tuya!Worker : Tuya!Alive(u)' /\ u # handle' => Tuya!Alive(u) /\ u # handle
  <1> USE DEF TuyaInv
  <1>1. lock' = Nil /\ seen' = [seen EXCEPT ![a] = Tuya!NoLink] /\ UNCHANGED <<waitsFor, given>>
        BY DEF Tuya!Claim
  <1>2. Tuya!NoLink \in LinkType /\ seen' \in [Tuya!Actor -> LinkType]
        BY <1>1 DEF TuyaTypes, LinkType, Tuya!NoLink
  <1>3. handle \in Nat \cup {Nil} /\ link \in LinkType /\ born \in Nat /\ seen[a] \in LinkType
        BY DEF TuyaTypes
  <1>4. CASE Tuya!Kept(a) # Nil
    <2>1. handle # Nil /\ Tuya!Kept(a) = handle
          BY <1>4 DEF Tuya!Kept
    <2>2. /\ UNCHANGED <<handle, born, run, stopped>>
          /\ link' = link \/ (link' = [link EXCEPT !.connecting = TRUE] /\ ~seen[a].connected)
          BY <1>4 DEF Tuya!Claim
    <2>3. link' \in LinkType /\ link'.worker = link.worker /\ link'.connected = link.connected
          BY <1>3, <2>2 DEF LinkType
    <2>4. HandleInv' /\ ServedInv'
          BY <2>2, <2>3 DEF HandleInv, ServedInv, Tuya!Alive
    <2> QED BY <1>1, <1>2, <1>3, <2>1, <2>2, <2>3, <2>4 DEF TuyaTypes, Tuya!Alive
  <1>5. CASE Tuya!Kept(a) = Nil
    <2>1. /\ born' = born + 1 /\ handle' = born + 1 /\ run' = [run EXCEPT ![born + 1] = "connecting"]
          /\ link' = [link EXCEPT !.worker = born + 1, !.connecting = TRUE]
          /\ stopped' = stopped \cup ({handle} \ {Nil})
          BY <1>5 DEF Tuya!Claim
    <2>2. link' \in LinkType /\ link'.worker = born + 1 /\ link'.connected = link.connected
      <3>1. born + 1 \in Nat
            BY <1>3
      <3> QED BY <1>3, <2>1, <3>1 DEF LinkType
    <2>3. ASSUME NEW u \in Tuya!Worker, u = handle, Tuya!Alive(u) PROVE FALSE
      <3>1. link.worker = handle /\ handle # Nil
            BY <2>3, LinksAssumption DEF HandleInv, Tuya!Worker
      <3>2. seen[a].worker = handle
            BY <3>1 DEF LookedAt
      <3> QED BY <1>5, <3>1, <3>2 DEF Tuya!Kept
    <2>4. ~link.connected
          BY <2>3 DEF ServedInv, Tuya!Alive
    <2>5. /\ run' \in [Tuya!Worker -> {"unborn", "connecting", "serving", "closing", "backoff", "gone"}]
          /\ \A u \in Tuya!Worker : u # born + 1 => run'[u] = run[u]
          BY <2>1 DEF TuyaTypes
    <2>6. HandleInv'
          BY <1>3, <2>1, <2>2, LinksAssumption DEF HandleInv
    <2>7. ServedInv'
          BY <1>3, <2>2, <2>4 DEF ServedInv, LinkType
    <2>8. \A u \in Tuya!Worker : Tuya!Alive(u)' /\ u # handle' => Tuya!Alive(u) /\ u # handle
          BY <2>1, <2>3, <2>5 DEF Tuya!Alive
    <2> QED BY <1>1, <1>2, <1>3, <2>1, <2>2, <2>5, <2>6, <2>7, <2>8
  <1> QED BY <1>4, <1>5

\* A claim of a request or of a supervisor.
LEMMA ClaimKeeps ==
  ASSUME TuyaInv,
         \/ \E c \in Caller : Tuya!ConnectClaim(c)
         \/ \E u \in Tuya!Worker : Tuya!SupClaim(u)
  PROVE  TuyaInv'
  <1> USE LinksAssumption DEF TuyaInv
  <1>1. ASSUME NEW c \in Caller, Tuya!ConnectClaim(c) PROVE TuyaInv'
    <2>1. /\ pc[c] = "claiming" /\ Tuya!Claim(c) /\ pc' = [pc EXCEPT ![c] = "idle"] /\ UNCHANGED sup
          /\ wanted' = TRUE /\ overtaken' = FALSE
          BY <1>1 DEF Tuya!ConnectClaim
    <2>2. c \in Tuya!Actor /\ LookedAt(c)
          BY <2>1 DEF LockInv, Tuya!Actor
    <2>3. /\ handle' \in Nat /\ link' \in LinkType /\ born' \in Nat /\ seen' \in [Tuya!Actor -> LinkType]
          /\ run' \in [Tuya!Worker -> {"unborn", "connecting", "serving", "closing", "backoff", "gone"}]
          /\ lock' = Nil /\ UNCHANGED <<waitsFor, given>> /\ HandleInv' /\ ServedInv'
          /\ \A u \in Tuya!Worker : Tuya!Alive(u)' /\ u # handle' => Tuya!Alive(u) /\ u # handle
          BY <2>1, <2>2, ClaimSets
    <2>4. TuyaTypes'
          BY <2>1, <2>3 DEF TuyaTypes
    <2>5. LockInv'
      <3>1. \A d \in Caller : pc[d] = "claiming" => d = c
            BY <2>2 DEF LockInv, LookedAt
      <3>2. \A u \in Tuya!Worker : sup[u] # "claiming"
            BY <2>2 DEF LockInv, LookedAt, Tuya!Worker
      <3> QED BY <2>1, <3>1, <3>2 DEF LockInv, TuyaTypes
    <2>6. WantedInv'
          BY <2>1 DEF WantedInv
    <2>7. Tuya!NoFight'
          BY <2>1, <2>3 DEF Tuya!NoFight, TuyaTypes
    <2> QED BY <2>3, <2>4, <2>5, <2>6, <2>7
  <1>2. ASSUME NEW v \in Tuya!Worker, Tuya!SupClaim(v) PROVE TuyaInv'
    <2>1. /\ sup[v] = "claiming" /\ Tuya!Claim(v) /\ sup' = [sup EXCEPT ![v] = "done"]
          /\ UNCHANGED <<pc, wanted, overtaken>>
          BY <1>2 DEF Tuya!SupClaim, Tuya!history
    <2>2. v \in Tuya!Actor /\ LookedAt(v)
          BY <2>1 DEF LockInv, Tuya!Actor
    <2>3. /\ handle' \in Nat /\ link' \in LinkType /\ born' \in Nat /\ seen' \in [Tuya!Actor -> LinkType]
          /\ run' \in [Tuya!Worker -> {"unborn", "connecting", "serving", "closing", "backoff", "gone"}]
          /\ lock' = Nil /\ UNCHANGED <<waitsFor, given>> /\ HandleInv' /\ ServedInv'
          /\ \A u \in Tuya!Worker : Tuya!Alive(u)' /\ u # handle' => Tuya!Alive(u) /\ u # handle
          BY <2>1, <2>2, ClaimSets
    <2>4. TuyaTypes'
          BY <2>1, <2>3 DEF TuyaTypes
    <2>5. LockInv'
          BY <2>1, <2>2 DEF LockInv, LookedAt, TuyaTypes, Tuya!Worker
    <2>6. WantedInv'
          BY <2>1 DEF WantedInv
    <2>7. Tuya!NoFight'
          BY <2>1, <2>3 DEF Tuya!NoFight, TuyaTypes
    <2> QED BY <2>3, <2>4, <2>5, <2>6, <2>7
  <1> QED BY <1>1, <1>2

\* A look takes the lock and copies the link.
LEMMA LookKeeps ==
  ASSUME TuyaInv,
         \/ \E c \in Caller : Tuya!ConnectStart(c)
         \/ \E u \in Tuya!Worker : Tuya!SupConnect(u)
  PROVE  TuyaInv'
  <1> USE LinksAssumption DEF TuyaInv
  <1>1. /\ UNCHANGED <<handle, link, born, run, stopped, waitsFor, given, wanted, overtaken>>
        /\ lock = Nil
        /\ \/ \E c \in Caller : pc[c] = "idle" /\ Tuya!Look(c) /\ pc' = [pc EXCEPT ![c] = "claiming"] /\ UNCHANGED sup
           \/ \E u \in Tuya!Worker : sup[u] = "checked" /\ Tuya!Look(u) /\ sup' = [sup EXCEPT ![u] = "claiming"] /\ UNCHANGED pc
        BY DEF Tuya!ConnectStart, Tuya!SupConnect, Tuya!Look, Tuya!history
  <1>2. TuyaTypes'
        BY <1>1 DEF TuyaTypes, Tuya!Look
  <1>3. (\A c \in Caller : pc[c] # "claiming") /\ (\A u \in Tuya!Worker : sup[u] # "claiming")
        BY <1>1 DEF LockInv, LookedAt, Tuya!Worker
  <1>4. LockInv'
        BY <1>1, <1>3 DEF LockInv, LookedAt, TuyaTypes, Tuya!Look, Tuya!Actor
  <1>5. HandleInv' /\ ServedInv'
        BY <1>1 DEF HandleInv, ServedInv, Tuya!Alive
  <1>6. WantedInv'
        BY <1>1 DEF WantedInv, TuyaTypes
  <1>7. Tuya!NoFight'
        BY <1>1 DEF Tuya!NoFight, Tuya!Alive, TuyaTypes
  <1> QED BY <1>2, <1>4, <1>5, <1>6, <1>7

\* A disconnect waits for the worker it stops.
LEMMA DisconnectKeeps ==
  ASSUME TuyaInv, NEW c \in Caller, Tuya!Disconnect(c)
  PROVE  TuyaInv'
  <1> USE LinksAssumption DEF TuyaInv
  <1>1. /\ pc[c] = "idle" /\ lock = Nil /\ link' = Tuya!NoLink /\ handle' = Nil
        /\ stopped' = stopped \cup ({handle} \ {Nil})
        /\ waitsFor' = [waitsFor EXCEPT ![c] = handle]
        /\ pc' = [pc EXCEPT ![c] = IF handle = Nil THEN "idle" ELSE "waiting"]
        /\ wanted' = FALSE /\ overtaken' = (\E u \in Tuya!Worker : sup[u] = "checked")
        /\ UNCHANGED <<lock, born, run, sup, seen, given>>
        BY DEF Tuya!Disconnect
  <1>2. Tuya!NoLink \in LinkType /\ Tuya!NoLink.worker = Nil /\ ~Tuya!NoLink.connected
        BY DEF LinkType, Tuya!NoLink
  <1>3. TuyaTypes'
        BY <1>1, <1>2 DEF TuyaTypes
  <1>4. (\A d \in Caller : pc[d] # "claiming") /\ (\A u \in Tuya!Worker : sup[u] # "claiming")
        BY <1>1 DEF LockInv, LookedAt, Tuya!Worker
  <1>5. LockInv'
        BY <1>1, <1>4 DEF LockInv, TuyaTypes
  <1>6. HandleInv'
        BY <1>1, <1>2 DEF HandleInv, TuyaTypes, Tuya!Worker
  <1>7. ServedInv' /\ WantedInv'
        BY <1>1, <1>2, <1>4 DEF ServedInv, WantedInv
  <1>8. Tuya!NoFight'
    <2> SUFFICES ASSUME NEW u \in Tuya!Worker, Tuya!Alive(u)
                 PROVE  u \in given \/ \E d \in Caller : pc'[d] = "waiting" /\ waitsFor'[d] = u
        BY <1>1 DEF Tuya!NoFight, Tuya!Alive
    <2>1. CASE u = handle
          BY <1>1, <2>1 DEF TuyaTypes, Tuya!Worker
    <2>2. CASE u # handle
          BY <1>1, <2>2 DEF Tuya!NoFight, TuyaTypes
    <2> QED BY <2>1, <2>2
  <1> QED BY <1>3, <1>5, <1>6, <1>7, <1>8

\* A disconnect is over when its worker is gone, or gives up waiting.
LEMMA WaitKeeps ==
  ASSUME TuyaInv, NEW c \in Caller, Tuya!Disconnected(c) \/ Tuya!GiveUp(c)
  PROVE  TuyaInv'
  <1> USE LinksAssumption DEF TuyaInv
  <1>1. /\ pc[c] = "waiting" /\ pc' = [pc EXCEPT ![c] = "idle"] /\ waitsFor' = [waitsFor EXCEPT ![c] = Nil]
        /\ UNCHANGED <<lock, handle, link, born, run, stopped, sup, seen, wanted, overtaken>>
        /\ \/ run[waitsFor[c]] = "gone" /\ UNCHANGED given
           \/ given' = given \cup {waitsFor[c]}
        BY DEF Tuya!Disconnected, Tuya!GiveUp, Tuya!history
  <1>2. TuyaTypes'
        BY <1>1 DEF TuyaTypes
  <1>3. LockInv' /\ HandleInv' /\ ServedInv' /\ WantedInv'
        BY <1>1 DEF LockInv, LookedAt, HandleInv, ServedInv, WantedInv, Tuya!Alive, TuyaTypes
  <1>4. Tuya!NoFight'
        BY <1>1 DEF Tuya!NoFight, Tuya!Alive, TuyaTypes
  <1> QED BY <1>2, <1>3, <1>4


\* A worker that goes on: only the one that the link names may mark it connected, and it serves then.
LEMMA MoveKeeps ==
  ASSUME TuyaInv, NEW u \in Tuya!Worker, Tuya!Alive(u),
         NEW there \in {"connecting", "serving", "closing", "backoff"}, Tuya!Becomes(u, there),
         link' \in LinkType, link'.worker = link.worker,
         link'.connected => (link.worker = u /\ there = "serving") \/ (link.connected /\ (run[u] # "serving" \/ link.worker # u)),
         UNCHANGED <<lock, handle, born, stopped, sup, seen, pc, waitsFor, given, wanted, overtaken>>
  PROVE  TuyaInv'
  <1> USE DEF TuyaInv
  <1>1. run' = [run EXCEPT ![u] = there]
        BY DEF Tuya!Becomes
  <1>2. TuyaTypes'
        BY <1>1 DEF TuyaTypes
  <1>3. \A v \in Tuya!Worker : Tuya!Alive(v)' <=> Tuya!Alive(v)
        BY <1>1 DEF Tuya!Alive, TuyaTypes
  <1>4. LockInv' /\ WantedInv'
        BY DEF LockInv, LookedAt, WantedInv
  <1>5. HandleInv'
        BY <1>3 DEF HandleInv
  <1>6. ServedInv'
        BY <1>1, LinksAssumption DEF ServedInv, HandleInv, TuyaTypes, Tuya!Worker
  <1>7. Tuya!NoFight'
        BY <1>3 DEF Tuya!NoFight
  <1> QED BY <1>2, <1>4, <1>5, <1>6, <1>7

\* A worker that goes clears the link it owns.
LEMMA GoneKeeps ==
  ASSUME TuyaInv, NEW u \in Tuya!Worker, Tuya!Becomes(u, "gone"), link' = Tuya!LinkWithout(u),
         NEW s \in {"sleeping", "done"}, sup' = [sup EXCEPT ![u] = s],
         UNCHANGED <<lock, handle, born, stopped, seen, pc, waitsFor, given, wanted, overtaken>>
  PROVE  TuyaInv'
  <1> USE LinksAssumption DEF TuyaInv
  <1>1. run' = [run EXCEPT ![u] = "gone"]
        BY DEF Tuya!Becomes
  <1>2. /\ link' \in LinkType /\ link'.worker \in {link.worker, Nil} /\ link'.worker # u
        /\ link' = link \/ (link.worker = u /\ ~link'.connected)
        BY DEF Tuya!LinkWithout, Tuya!NoLink, LinkType, TuyaTypes, Tuya!Worker
  <1>3. TuyaTypes'
        BY <1>1, <1>2 DEF TuyaTypes
  <1>4. \A v \in Tuya!Worker : Tuya!Alive(v)' <=> Tuya!Alive(v) /\ v # u
        BY <1>1 DEF Tuya!Alive, TuyaTypes
  <1>5. LockInv'
        BY <1>2 DEF LockInv, LookedAt, TuyaTypes
  <1>6. HandleInv'
    <2>1. \A v \in Tuya!Worker : Tuya!Alive(v)' /\ v = handle => link' = link
          BY <1>2, <1>4 DEF HandleInv
    <2> QED BY <1>2, <1>4, <2>1 DEF HandleInv
  <1>7. ServedInv'
        BY <1>1, <1>2 DEF ServedInv, HandleInv, TuyaTypes
  <1>8. WantedInv'
        BY DEF WantedInv, TuyaTypes
  <1>9. Tuya!NoFight'
        BY <1>4 DEF Tuya!NoFight
  <1> QED BY <1>3, <1>5, <1>6, <1>7, <1>8, <1>9

\* Each step of a worker.
LEMMA WorkerKeeps ==
  ASSUME TuyaInv, NEW u \in Tuya!Worker, Tuya!Works(u) \/ Tuya!SessionBreaks(u) \/ Tuya!Panic(u)
  PROVE  TuyaInv'
  <1>1. link \in LinkType
        BY DEF TuyaInv, TuyaTypes
  <1>2. ASSUME NEW connected \in BOOLEAN, NEW connecting \in BOOLEAN
        PROVE  LET l == Tuya!OwnLink(u, connected, connecting) IN
               /\ l \in LinkType /\ l.worker = link.worker
               /\ link.worker = u => l.connected = connected
               /\ link.worker # u => l.connected = link.connected
        BY <1>1 DEF Tuya!OwnLink, LinkType
  <1> USE DEF Tuya!Alive, Tuya!callers, Tuya!history
  <1>3. CASE Tuya!SessionOpens(u)
        BY <1>2, <1>3, MoveKeeps DEF Tuya!SessionOpens
  <1>4. CASE Tuya!SessionFails(u)
        BY <1>2, <1>4, MoveKeeps DEF Tuya!SessionFails
  <1>5. CASE Tuya!SessionBreaks(u)
        BY <1>2, <1>5, MoveKeeps DEF Tuya!SessionBreaks
  <1>6. CASE Tuya!SessionCloses(u)
        BY <1>1, <1>6, MoveKeeps DEF Tuya!SessionCloses
  <1>7. CASE Tuya!BackoffEnds(u)
    <2>1. link.connected \in BOOLEAN
          BY <1>1 DEF LinkType
    <2> QED BY <1>2, <1>7, <2>1, MoveKeeps DEF Tuya!BackoffEnds
  <1>8. CASE Tuya!Nudged(u)
        BY <1>1, <1>8, MoveKeeps DEF Tuya!Nudged
  <1>9. CASE Tuya!Stops(u)
        BY <1>9, GoneKeeps DEF Tuya!Stops
  <1>10. CASE Tuya!Panic(u)
        BY <1>10, GoneKeeps DEF Tuya!Panic
  <1> QED BY <1>3, <1>4, <1>5, <1>6, <1>7, <1>8, <1>9, <1>10 DEF Tuya!Works

\* A supervisor connects the device when the handle is still its worker's: nobody disconnected it.
LEMMA CheckKeeps ==
  ASSUME TuyaInv, NEW u \in Tuya!Worker, Tuya!SupCheck(u)
  PROVE  TuyaInv'
  <1> USE LinksAssumption DEF TuyaInv
  <1>1. /\ lock = Nil /\ UNCHANGED <<lock, handle, link, born, run, stopped, seen, pc, waitsFor, given, wanted, overtaken>>
        /\ \E s \in {"checked", "done"} : sup' = [sup EXCEPT ![u] = s] /\ (s = "checked" => handle = u)
        BY DEF Tuya!SupCheck, Tuya!StillDead, Tuya!callers, Tuya!history
  <1>2. TuyaTypes'
        BY <1>1 DEF TuyaTypes
  <1>3. LockInv' /\ HandleInv' /\ ServedInv' /\ Tuya!NoFight'
        BY <1>1 DEF LockInv, LookedAt, HandleInv, ServedInv, Tuya!NoFight, Tuya!Alive, TuyaTypes
  <1>4. WantedInv'
        BY <1>1 DEF WantedInv, TuyaTypes, Tuya!Worker
  <1> QED BY <1>2, <1>3, <1>4

\* What the invariant speaks of.
held == <<lock, handle, link, born, run, stopped, sup, pc, seen, waitsFor, given, wanted, overtaken>>

\* A step that leaves alone what the invariant speaks of keeps it.
LEMMA HeldKeeps == TuyaInv /\ UNCHANGED held => TuyaInv'
  BY DEF held, TuyaInv, TuyaTypes, LockInv, LookedAt, HandleInv, ServedInv, WantedInv, Tuya!NoFight, Tuya!Alive

\* Every step of the device keeps the invariant.
LEMMA TuyaNextInv == TuyaInv /\ Tuya!Next => TuyaInv'
  <1>1. Tuya!Answers => UNCHANGED held
        BY DEF Tuya!Answers, held, Tuya!callers, Tuya!history
  <1> QED BY <1>1, HeldKeeps, LookKeeps, ClaimKeeps, DisconnectKeeps, WaitKeeps, WorkerKeeps, CheckKeeps DEF Tuya!Next

-----------------------------------------------------------------------------
(* The theorems.                                                           *)

\* The inductive invariant.
THEOREM ThInv == MCSpec => []TuyaInv
  <1>1. MCInit => TuyaInv
        BY TuyaInitInv DEF MCInit
  <1>2. TuyaInv /\ [MCNext]_mcVars => TuyaInv'
    <2>1. UNCHANGED tuyaVars => UNCHANGED held
          BY DEF tuyaVars, held
    <2>2. MCNext \/ UNCHANGED mcVars => Tuya!Next \/ UNCHANGED tuyaVars
          BY DEF MCNext, InDriver, InTuya, mcVars
    <2> QED BY <2>1, <2>2, HeldKeeps, TuyaNextInv
  <1> QED BY <1>1, <1>2, PTL DEF MCSpec

\* Two sessions never fight over a device, and one shown connected has a session (tuya/mod.rs,
\* connect_device and disconnect_device; tuya/worker.rs, update_own_link and WorkerExit): whatever is
\* slow, cancelled or panics.
THEOREM ThOneSession == MCSpec => []OneSession
  <1>1. TuyaInv => OneSession
    <2> SUFFICES ASSUME TuyaInv PROVE Tuya!ConnectedIsReal
        BY DEF OneSession, TuyaInv
    <2>1. link.connected => /\ link.worker # Nil /\ link.worker = handle
                            /\ run[handle] = "serving" /\ handle \notin stopped
          BY DEF TuyaInv, ServedInv, HandleInv
    <2> QED BY <2>1 DEF Tuya!ConnectedIsReal
  <1> QED BY <1>1, ThInv, PTL

\* A supervisor brings back no device that someone disconnected, unless the disconnect came between
\* its check and its connect_device (tuya/worker.rs, supervise).
THEOREM ThDisconnectHolds == MCSpec => []DisconnectHolds
  <1>1. TuyaInv => DisconnectHolds
        BY DEF TuyaInv, WantedInv, DisconnectHolds, Tuya!DisconnectHolds
  <1> QED BY <1>1, ThInv, PTL

=============================================================================
