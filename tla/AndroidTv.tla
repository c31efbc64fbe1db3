----------------------------- MODULE AndroidTv -----------------------------
(***************************************************************************)
(* The Android TV box's manager: backend/src/androidtv.rs, and the         *)
(* sessions and pairings of atvremote.rs as it sees them.                  *)
(*                                                                         *)
(* Two connections are kept, each in a slot behind a lock that is held     *)
(* across a connect: `device` (AdbLink) and `remote` (AtvSession); a       *)
(* pairing waits in a third for its code.  Tasks use them while the        *)
(* address may change and requests may be dropped.  A task is a list of    *)
(* calls: "remote" (remote_or_adb), "shell", "session" (the badge of       *)
(* `status`), "push" (the upload of an APK).  Left out: the port, the      *)
(* signing key (made once), the contents of answers.                       *)
(***************************************************************************)
EXTENDS Naturals, Sequences, FiniteSets

CONSTANTS
    Task,          \* requests and keys
    Box,           \* addresses
    MaxChanges,    \* bound on changes of address
    MaxCalls,      \* bound on other requests
    MaxLost,       \* bound on dropped requests
    MaxDeaths,     \* bound on connections that die
    Nil

VARIABLES
    host,          \* config.host
    device,        \* the box the kept ADB connection goes to, or Nil
    remote,        \* the kept session: [box, open], or Nil
    pending,       \* the box a pairing waits at, or Nil
    failed,        \* remote_failed_at, not yet over: why the connect failed, or Nil
    deviceLock, remoteLock,   \* who holds them, or Nil
    permit,        \* who installs an APK, or Nil
    task,          \* what each task is at
    paired,        \* the boxes that accept this host's certificate
    files,         \* boxes with an uploaded APK
    late,          \* tasks that read the address, and it has changed since (history)
    strays,        \* history: what was stored or left though the address had changed
    changes, calls, lost, deaths

atv == <<host, device, remote, pending, failed, deviceLock, remoteLock, permit, task, paired, files, late, strays,
         changes, calls, lost, deaths>>

\* todo, the calls left; to, the box read from the configuration; knew, whether it accepted us
\* when the connect began.
Rests == [at |-> "idle", todo |-> <<>>, to |-> Nil, sess |-> Nil, knew |-> FALSE]

\* wake: the key, then one_touch_play.
Kinds == {<<"remote">>, <<"remote", "shell">>, <<"shell", "session">>, <<"push", "shell", "shell">>}

Init ==
    /\ host \in Box
    /\ device = Nil /\ remote = Nil /\ pending = Nil /\ failed = Nil
    /\ deviceLock = Nil /\ remoteLock = Nil /\ permit = Nil
    /\ task = [t \in Task |-> Rests]
    /\ paired \in SUBSET Box /\ files = {} /\ late = {} /\ strays = {}
    /\ changes = 0 /\ calls = 0 /\ lost = 0 /\ deaths = 0

slots == <<device, remote, pending, failed>>
world == <<paired, files>>
bounds == <<changes, calls, lost, deaths>>

To(t, place) == task' = [task EXCEPT ![t].at = place]

\* The call is over: the next one, or the end.
Done(t) ==
    LET rest == Tail(task[t].todo) IN
    IF rest = <<>> THEN [Rests EXCEPT !.at = "idle"] ELSE [Rests EXCEPT !.at = Head(rest), !.todo = rest]
Passes(t) == task' = [task EXCEPT ![t] = Done(t)]
Forgets(t) == late' = late \ {t}

\* An error ends the request, except that an install is cleaned up and a badge just says no.
Fails(t) ==
    LET rest == Tail(task[t].todo) IN
    task' = [task EXCEPT ![t] = IF rest = <<>> \/ (permit = t /\ rest = <<"shell">>) THEN Done(t) ELSE Rests]

Release(t) == permit' = IF permit = t /\ task'[t].at = "idle" THEN Nil ELSE permit

-----------------------------------------------------------------------------
(* Requests come in.                                                       *)

\* install_permit: one APK at a time.
Begin(t, kind) ==
    /\ task[t].at = "idle" /\ calls < MaxCalls
    /\ kind[1] = "push" => permit = Nil
    /\ task' = [task EXCEPT ![t] = [Rests EXCEPT !.at = kind[1], !.todo = kind]]
    /\ permit' = IF kind[1] = "push" THEN t ELSE permit
    /\ calls' = calls + 1
    /\ UNCHANGED <<host, slots, deviceLock, remoteLock, world, late, strays, changes, lost, deaths>>

\* The box of the address as it is now.
ReadsHost(t, place) == task' = [task EXCEPT ![t].at = place, ![t].to = host]

-----------------------------------------------------------------------------
(* remote_session.                                                         *)

SessionOpen == remote # Nil /\ remote.open

\* Mutant: the host is read before the lock is asked for.
SessionLocksLate(t) ==
    /\ task[t].at \in {"remote", "session"}
    /\ \/ /\ task[t].to = Nil
          /\ task' = [task EXCEPT ![t].to = host]
          /\ UNCHANGED remoteLock
       \/ /\ task[t].to # Nil /\ remoteLock = Nil
          /\ IF SessionOpen THEN task' = [task EXCEPT ![t].at = "use", ![t].sess = remote] /\ UNCHANGED remoteLock
             ELSE IF failed # Nil THEN To(t, "none") /\ UNCHANGED remoteLock
             ELSE /\ remoteLock' = t
                  /\ task' = [task EXCEPT ![t].at = "connecting", ![t].knew = (task[t].to \in paired)]
    /\ Forgets(t)
    /\ UNCHANGED <<host, slots, deviceLock, permit, world, strays, bounds>>

\* Under the lock: the open session, or none while it backs off, or a connect (and the lock kept).
SessionLocks(t) ==
    /\ task[t].at \in {"remote", "session"} /\ remoteLock = Nil
    /\ IF SessionOpen THEN task' = [task EXCEPT ![t].at = "use", ![t].sess = remote] /\ UNCHANGED remoteLock
       ELSE IF failed # Nil THEN To(t, "none") /\ UNCHANGED remoteLock
       ELSE /\ remoteLock' = t
            /\ task' = [task EXCEPT ![t].at = "connecting", ![t].to = host, ![t].knew = (host \in paired)]
    /\ Forgets(t)
    /\ UNCHANGED <<host, slots, deviceLock, permit, world, strays, bounds>>

\* Only a box that accepts this host opens a session; any connect may fail.
Connects(t) ==
    /\ task[t].at = "connecting"
    /\ \/ /\ task[t].knew
          /\ remote' = [box |-> task[t].to, open |-> TRUE]
          /\ failed' = Nil
          /\ task' = [task EXCEPT ![t].at = "use", ![t].sess = remote']
       \/ /\ failed' = [box |-> task[t].to, knew |-> task[t].knew]
          /\ To(t, "none") /\ UNCHANGED remote
    /\ remoteLock' = Nil
    /\ Forgets(t)
    /\ UNCHANGED <<host, device, pending, deviceLock, permit, world, strays, bounds>>

\* REMOTE_RETRY_AFTER.
BackOffEnds ==
    /\ failed # Nil
    /\ failed' = Nil
    /\ UNCHANGED <<host, device, remote, pending, deviceLock, remoteLock, permit, task, world, late, strays, bounds>>

\* A session in hand: the badge is all `status` wants; a key is queued on it, or it has closed.
\* (One taken out of the slot lives on in the hands of those who use it.)
Uses(t) ==
    /\ task[t].at = "use"
    /\ \/ Passes(t)
       \/ Head(task[t].todo) # "session" /\ remote # task[t].sess /\ To(t, "clear")
    /\ Release(t)
    /\ UNCHANGED <<host, slots, deviceLock, remoteLock, world, late, strays, bounds>>

\* remote_or_adb clears the slot and falls back.
Clears(t) ==
    /\ task[t].at = "clear" /\ remoteLock = Nil
    /\ remote' = Nil
    /\ To(t, "shell")
    /\ UNCHANGED <<host, device, pending, failed, deviceLock, remoteLock, permit, world, late, strays, bounds>>

NoSession(t) ==
    /\ task[t].at = "none"
    /\ IF Head(task[t].todo) = "session" THEN Passes(t) ELSE To(t, "shell")
    /\ UNCHANGED <<host, slots, deviceLock, remoteLock, permit, world, late, strays, bounds>>

-----------------------------------------------------------------------------
(* shell, and the upload of an APK on a connection of its own.             *)

ShellReads(t) ==
    /\ task[t].at \in {"shell", "push"}
    /\ ReadsHost(t, IF task[t].at = "shell" THEN "ready" ELSE "pushing")
    /\ UNCHANGED <<host, slots, deviceLock, remoteLock, permit, world, late, strays, bounds>>

Pushes(t) ==
    /\ task[t].at = "pushing"
    /\ \/ files' = files \cup {task[t].to} /\ Passes(t)
       \/ UNCHANGED files /\ task' = [task EXCEPT ![t] = Rests]
    /\ Release(t)
    /\ Forgets(t)
    /\ UNCHANGED <<host, slots, deviceLock, remoteLock, paired, strays, bounds>>

ShellLocks(t) ==
    /\ task[t].at = "ready" /\ deviceLock = Nil
    /\ deviceLock' = t
    /\ To(t, "shelling")
    /\ UNCHANGED <<host, slots, remoteLock, permit, world, late, strays, bounds>>

\* The kept connection serves, whichever box it goes to; a dead one is replaced by one to the
\* address read before the lock.
ShellEnds(t) ==
    /\ task[t].at = "shelling"
    /\ deviceLock' = Nil
    /\ \/ /\ device' = IF device # Nil THEN device ELSE task[t].to
          /\ strays' = IF device = Nil /\ t \in late THEN strays \cup {"device"} ELSE strays
          /\ files' = IF permit = t /\ task[t].todo = <<"shell">> THEN files \ {device'} ELSE files
          /\ Passes(t)
       \/ device' = Nil /\ UNCHANGED <<strays, files>> /\ Fails(t)
    /\ Release(t)
    /\ Forgets(t)
    /\ UNCHANGED <<host, remote, pending, failed, remoteLock, paired, bounds>>

\* The box sleeps or restarts.
Dies ==
    /\ deaths < MaxDeaths /\ deaths' = deaths + 1
    /\ \/ device # Nil /\ deviceLock = Nil /\ device' = Nil /\ UNCHANGED remote
       \/ SessionOpen /\ remote' = [remote EXCEPT !.open = FALSE] /\ UNCHANGED device
    /\ UNCHANGED <<host, pending, failed, deviceLock, remoteLock, permit, task, world, late, strays, changes, calls, lost>>

-----------------------------------------------------------------------------
(* Pairing.                                                                *)

PairStart(t) ==
    /\ task[t].at = "idle" /\ calls < MaxCalls
    /\ calls' = calls + 1
    /\ ReadsHost(t, "pairing")
    /\ UNCHANGED <<host, slots, deviceLock, remoteLock, permit, world, late, strays, changes, lost, deaths>>

PairStarted(t) ==
    /\ task[t].at = "pairing"
    /\ task' = [task EXCEPT ![t] = Rests]
    /\ \/ /\ pending' = task[t].to
          /\ strays' = IF t \in late THEN strays \cup {"pending"} ELSE strays
       \/ UNCHANGED <<pending, strays>>
    /\ Forgets(t)
    /\ UNCHANGED <<host, device, remote, failed, deviceLock, remoteLock, permit, world, bounds>>

\* The pairing is taken: a wrong code ends it.
PairFinish(t) ==
    /\ task[t].at = "idle" /\ calls < MaxCalls /\ pending # Nil
    /\ calls' = calls + 1
    /\ pending' = Nil
    /\ task' = [task EXCEPT ![t] = [Rests EXCEPT !.at = "proving", !.to = pending]]
    /\ UNCHANGED <<host, device, remote, failed, deviceLock, remoteLock, permit, world, late, strays, changes, lost, deaths>>

PairProves(t) ==
    /\ task[t].at = "proving"
    /\ \/ paired' = paired \cup {task[t].to} /\ To(t, "proved")
       \/ task' = [task EXCEPT ![t] = Rests] /\ UNCHANGED paired
    /\ UNCHANGED <<host, slots, deviceLock, remoteLock, permit, files, late, strays, bounds>>

\* The session is cleared once the connects under way are over, then the back-off.
PairDone(t) ==
    /\ \/ task[t].at = "proved" /\ remoteLock = Nil /\ remote' = Nil /\ To(t, "clearing") /\ UNCHANGED failed
       \/ task[t].at = "clearing" /\ failed' = Nil /\ task' = [task EXCEPT ![t] = Rests] /\ UNCHANGED remote
    /\ Forgets(t)
    /\ UNCHANGED <<host, device, pending, deviceLock, remoteLock, permit, world, strays, bounds>>

-----------------------------------------------------------------------------
(* set_config: the address, then one slot after the other.                 *)

ChangeSteps == {"drop_device", "drop_remote", "drop_pending", "drop_failed"}
Changing == \E t \in Task : task[t].at \in ChangeSteps

SetConfig(t, box) ==
    /\ task[t].at = "idle" /\ changes < MaxChanges /\ box # host
    /\ changes' = changes + 1
    /\ host' = box
    /\ To(t, "drop_device")
    /\ late' = late \cup {u \in Task : task[u].to # Nil}
    /\ UNCHANGED <<slots, deviceLock, remoteLock, permit, world, strays, calls, lost, deaths>>

DropSlot(t) ==
    /\ \/ /\ task[t].at = "drop_device" /\ deviceLock = Nil /\ device' = Nil
          /\ To(t, "drop_remote") /\ UNCHANGED <<remote, pending, failed>>
       \/ /\ task[t].at = "drop_remote" /\ remoteLock = Nil /\ remote' = Nil
          /\ To(t, "drop_pending") /\ UNCHANGED <<device, pending, failed>>
       \/ /\ task[t].at = "drop_pending" /\ pending' = Nil
          /\ To(t, "drop_failed") /\ UNCHANGED <<device, remote, failed>>
       \/ /\ task[t].at = "drop_failed" /\ failed' = Nil
          /\ To(t, "idle") /\ UNCHANGED <<device, remote, pending>>
    /\ UNCHANGED <<host, deviceLock, remoteLock, permit, world, late, strays, bounds>>

\* The request is dropped: its locks and its permit go, what it had begun stays.
Dropped(t) ==
    /\ task[t].at # "idle" /\ lost < MaxLost
    /\ lost' = lost + 1
    /\ task' = [task EXCEPT ![t] = Rests]
    /\ deviceLock' = IF deviceLock = t THEN Nil ELSE deviceLock
    /\ remoteLock' = IF remoteLock = t THEN Nil ELSE remoteLock
    /\ permit' = IF permit = t THEN Nil ELSE permit
    /\ strays' = strays \cup IF task[t].at \in ChangeSteps \cup {"proved", "clearing"} THEN {"halfway"} ELSE {}
    /\ Forgets(t)
    /\ UNCHANGED <<host, slots, world, changes, calls, deaths>>

-----------------------------------------------------------------------------

Next ==
    \/ \E t \in Task :
         \/ \E kind \in Kinds : Begin(t, kind)
         \/ SessionLocks(t) \/ Connects(t) \/ Uses(t) \/ Clears(t) \/ NoSession(t)
         \/ ShellReads(t) \/ Pushes(t) \/ ShellLocks(t) \/ ShellEnds(t)
         \/ PairStart(t) \/ PairStarted(t) \/ PairFinish(t) \/ PairProves(t) \/ PairDone(t)
         \/ (\E box \in Box : SetConfig(t, box)) \/ DropSlot(t) \/ Dropped(t)
    \/ BackOffEnds \/ Dies

-----------------------------------------------------------------------------
(* Properties.                                                             *)

\* Once a change of address is over, what is kept is the new box's, unless a change was dropped
\* half-way; a connection or a pairing of the old one only when its maker had read the address
\* before (androidtv.rs:214-223 against :274-281, :349-354).
FollowsAddress ==
    ~Changing /\ "halfway" \notin strays =>
        /\ remote # Nil => remote.box = host
        /\ failed # Nil => failed.box = host
        /\ device \in {Nil, host} \/ "device" \in strays
        /\ pending \in {Nil, host} \/ "pending" \in strays

\* A box that was just paired is not passed over because of the failures from before: no
\* back-off outlives the pairing (androidtv.rs:363-366).
PairedIsUsed ==
    failed # Nil /\ ~failed.knew /\ "halfway" \notin strays =>
        \/ failed.box \notin paired
        \/ \E t \in Task : task[t].at \in {"proved", "clearing"}

=============================================================================
