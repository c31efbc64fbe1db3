------------------------------ MODULE Blaster ------------------------------
(***************************************************************************)
(* The Broadlink blaster, backend/src/broadlink.rs: one operation at a     *)
(* time, each on a blocking thread that cannot be stopped, and the climate *)
(* state, which is all the house knows of an air conditioner that never    *)
(* answers.                                                                *)
(*                                                                         *)
(* A command is "on" (any structured state but off), "off", or a learnt    *)
(* code, whose effect on the unit is unknown.  Left out: IR frames, names, *)
(* tags and dates of codes, and the climate file (SavedState).             *)
(***************************************************************************)
EXTENDS Naturals, FiniteSets

CONSTANTS
    Caller,     \* who calls the manager
    Dropped,    \* those among them whose call may be dropped: requests
    MaxDrops,   \* bound on dropped calls
    Code,       \* commands a remote can teach
    Nil

VARIABLES
    call,       \* what each caller is at
    holder,     \* who holds operation_lock: a caller, "thread", or Nil
    threads,    \* the blocking threads that talk to the blaster
    codes,      \* the saved codes' commands
    devices,    \* discovered_devices is filled
    climate,    \* climate_state
    ac,         \* whether the air conditioner is on
    astray,     \* history: why climate may differ from ac (see PictureIsTrue)
    drops       \* calls dropped so far

blaster == <<call, holder, threads, codes, devices, climate, ac, astray, drops>>

State == {"on", "off"}
Op == {"discover", "refresh", "provision", "learn", "send", "climate"}

Busy == {"asking", "talking", "saving", "recording"}
CallRec == [at : Busy \cup {"ok", "failed"}, op : Op, cmd : State \cup Code \cup {Nil}, fresh : BOOLEAN]

\* A thread's caller waits for it, or a task keeps the lock for it, or nobody knows of it.
Thread == [by : Caller, op : Op, cmd : State \cup Code \cup {Nil}, tie : {"waited", "kept", "orphan"}]

Free(c) == call[c].at \in {"ok", "failed"}
Idle == [at |-> "ok", op |-> "send", cmd |-> Nil, fresh |-> FALSE]

\* StoredClimateState: `power`, and whether settings to resume are known.
ClimateRec == [power : BOOLEAN, settings : BOOLEAN]

ASSUME BlasterAssumption ==
    /\ Dropped \subseteq Caller
    /\ "thread" \notin Caller
    /\ Code \cap State = {}
    /\ Nil \notin {"thread"} \cup Caller \cup State \cup Code \cup ClimateRec
    /\ MaxDrops \in Nat

BlasterInit ==
    /\ call = [c \in Caller |-> Idle]
    /\ holder = Nil
    /\ threads = {}
    /\ codes = {}
    /\ devices = FALSE
    /\ climate = Nil
    /\ ac \in BOOLEAN
    /\ astray = TRUE
    /\ drops = 0

BlasterTypeOK ==
    /\ call \in [Caller -> CallRec]
    /\ holder \in Caller \cup {"thread", Nil}
    /\ threads \subseteq Thread
    /\ codes \subseteq Code
    /\ devices \in BOOLEAN
    /\ climate \in ClimateRec \cup {Nil}
    /\ ac \in BOOLEAN
    /\ astray \in BOOLEAN
    /\ drops \in 0 .. MaxDrops

At(c, place) ==
    call' = [call EXCEPT ![c] = IF place \in Busy THEN [@ EXCEPT !.at = place] ELSE [Idle EXCEPT !.at = place]]

\* What a toggle and a page read: no state known is off.
IsOn == climate # Nil /\ climate.power

-----------------------------------------------------------------------------
(* A call, up to its thread.                                               *)

\* A code is looked up before the lock is asked for; a cached discovery needs no lock
\* ("refresh" is a discovery with force_refresh).
Ask(c, op, cmd) ==
    /\ Free(c)
    /\ LET known == cmd \in codes \cup State \cup {Nil}
           at == CASE ~known -> "failed"
                   [] known /\ op = "discover" /\ devices -> "ok"
                   [] OTHER -> "asking"
       IN  call' = [call EXCEPT ![c] = IF at \in Busy THEN [at |-> at, op |-> op, cmd |-> cmd, fresh |-> FALSE]
                                       ELSE [Idle EXCEPT !.at = at]]
    /\ UNCHANGED <<holder, threads, codes, devices, climate, ac, astray, drops>>

\* The lock, then the thread; someone may have discovered meanwhile.
Locks(c) ==
    /\ call[c].at = "asking"
    /\ holder = Nil
    /\ IF call[c].op = "discover" /\ devices
         THEN At(c, "ok") /\ UNCHANGED <<holder, threads>>
         ELSE /\ holder' = c
              /\ threads' = threads \cup {[by |-> c, op |-> call[c].op, cmd |-> call[c].cmd, tie |-> "waited"]}
              /\ At(c, "talking")
    /\ UNCHANGED <<codes, devices, climate, ac, astray, drops>>

\* An address or a packet that does not parse: refused under the lock, and the lock let go.
Refused(c) ==
    /\ call[c].at = "asking"
    /\ holder = Nil
    /\ At(c, "failed")
    /\ UNCHANGED <<holder, threads, codes, devices, climate, ac, astray, drops>>

-----------------------------------------------------------------------------
(* The thread's end.                                                       *)

\* Mutant: the guard of a learning that timed out is never dropped.
EndsHeld(t) ==
    /\ threads' = threads \ {t}
    /\ holder' = IF t.tie = "waited" THEN Nil ELSE holder

Ends(t) ==
    /\ threads' = threads \ {t}
    /\ holder' = IF t.tie = "orphan" THEN holder ELSE Nil

\* What is left to do after the thread, for a caller that waits for it.
Then(t) ==
    CASE t.op = "learn" -> "saving"
      [] t.op = "climate" -> "recording"
      [] OTHER -> "ok"

\* The air conditioner hears a state; whoever sent one before has yet to record an older one.
Hears(t) ==
    /\ ac' = (t.cmd = "on")
    /\ call' = [c \in Caller |->
                  IF c = t.by /\ t.tie = "waited" THEN [call[c] EXCEPT !.at = Then(t), !.fresh = TRUE]
                  ELSE [call[c] EXCEPT !.fresh = FALSE]]
    /\ astray' = (astray \/ t.tie = "orphan")

\* Done; a learnt code may do anything to the air conditioner.
ThreadEnds(t) ==
    /\ t \in threads
    /\ Ends(t)
    /\ IF t.op = "climate" /\ t.cmd \in State THEN Hears(t)
       ELSE /\ IF t.op \in {"send", "climate"} THEN ac' \in BOOLEAN ELSE UNCHANGED ac
            /\ call' = [c \in Caller |->
                          LET known == [call[c] EXCEPT !.fresh = @ /\ ac' = ac]
                          IN  IF c # t.by \/ t.tie # "waited" THEN known
                              ELSE IF Then(t) \in Busy THEN [known EXCEPT !.at = Then(t)] ELSE Idle]
            /\ astray' = (astray \/ ac' # ac)
    /\ devices' = (devices \/ (t.op \in {"discover", "refresh"} /\ t.tie = "waited"))
    /\ UNCHANGED <<codes, climate, drops>>

\* The blaster does not answer, or nobody pressed a key to learn.  (A discovery that finds its
\* port taken answers with what is cached, and caches nothing.)  When only the answer to a send
\* was lost, its frame went out, and nobody records it.
ThreadFails(t) ==
    /\ t \in threads
    /\ Ends(t)
    /\ \/ UNCHANGED ac
       \/ /\ t.op \in {"send", "climate"}
          /\ ac' \in IF t.cmd \in State THEN {t.cmd = "on"} ELSE BOOLEAN
    /\ \E at \in IF t.op \in {"discover", "refresh"} THEN {"ok", "failed"} ELSE {"failed"} :
           call' = [c \in Caller |-> IF c = t.by /\ t.tie = "waited" THEN [Idle EXCEPT !.at = at]
                                     ELSE [call[c] EXCEPT !.fresh = @ /\ ac' = ac]]
    /\ astray' = (astray \/ ac' # ac)
    /\ UNCHANGED <<codes, devices, climate, drops>>

Tied(c, tie) == {IF t.by = c /\ t.tie = "waited" THEN [t EXCEPT !.tie = tie] ELSE t : t \in threads}

\* Mutant: the blaster is let go while it still learns.
LearnTimesOutFree(c) ==
    /\ call[c].at = "talking" /\ call[c].op = "learn"
    /\ holder' = Nil
    /\ threads' = Tied(c, "kept")
    /\ At(c, "failed")
    /\ UNCHANGED <<codes, devices, climate, ac, astray, drops>>

\* learn_ir gives up: the thread goes on, and a task keeps the lock until it ends.
LearnTimesOut(c) ==
    /\ call[c].at = "talking" /\ call[c].op = "learn"
    /\ holder' = "thread"
    /\ threads' = Tied(c, "kept")
    /\ At(c, "failed")
    /\ UNCHANGED <<codes, devices, climate, ac, astray, drops>>

-----------------------------------------------------------------------------
(* After the thread.                                                       *)

\* save_code, when it was asked for.
Save(c) ==
    /\ call[c].at = "saving"
    /\ \E learnt \in SUBSET Code : Cardinality(learnt) <= 1 /\ codes' = codes \cup learnt
    /\ At(c, "ok")
    /\ UNCHANGED <<holder, threads, devices, climate, ac, astray, drops>>

\* Mutant: an off forgets that the unit is off.
RecordKeepsPower(c) ==
    /\ call[c].at = "recording"
    /\ climate' = IF call[c].cmd \in Code THEN climate
                  ELSE [power |-> TRUE, settings |-> TRUE]
    /\ astray' = IF call[c].cmd \in Code THEN astray ELSE ~call[c].fresh
    /\ At(c, "ok")
    /\ UNCHANGED <<holder, threads, codes, devices, ac, drops>>

\* record_climate_state, or record_raw_climate_command, which leaves power and settings alone.
Record(c) ==
    /\ call[c].at = "recording"
    /\ climate' = CASE call[c].cmd = "on" -> [power |-> TRUE, settings |-> TRUE]
                    [] call[c].cmd = "off" -> [power |-> FALSE, settings |-> climate # Nil /\ climate.settings]
                    [] OTHER -> climate
    /\ astray' = IF call[c].cmd \in Code THEN astray ELSE ~call[c].fresh
    /\ At(c, "ok")
    /\ UNCHANGED <<holder, threads, codes, devices, ac, drops>>

\* What a call leaves behind when it is dropped (its request timed out, its task panicked): the
\* lock free, and its thread running.
Abandon(c) ==
    /\ holder' = IF holder = c THEN Nil ELSE holder
    /\ threads' = Tied(c, "orphan")
    /\ astray' = (astray \/ (call[c].at = "recording" /\ call[c].cmd \in State))
    /\ At(c, "failed")
    /\ UNCHANGED <<codes, devices, climate, ac>>

Drop(c) ==
    /\ c \in Dropped
    /\ call[c].at \in Busy
    /\ drops < MaxDrops
    /\ drops' = drops + 1
    /\ Abandon(c)


Serves(c) == Locks(c) \/ Refused(c) \/ LearnTimesOut(c) \/ Save(c) \/ Record(c)

-----------------------------------------------------------------------------
(* Properties.                                                             *)

\* Two threads talk to the blaster at once only when one of them was left by a dropped call; a
\* learning that merely timed out keeps the blaster to itself (broadlink.rs:280-287).
Alone == \A t, u \in threads : t # u => t.tie = "orphan" \/ u.tie = "orphan"

\* What the house believes of the air conditioner is so, or is about to be recorded, or went
\* astray in one of the ways the code accepts: nothing was sent yet, a learnt code did something
\* else, a call was dropped between sending and recording, a send was heard and its answer lost
\* (the error leaves before the record, broadlink.rs:470-474), or two sends recorded in the other
\* order (the lock is let go in between).
PictureIsTrue ==
    climate # Nil /\ climate.power # ac =>
        astray \/ \E c \in Caller : call[c].at = "recording" /\ call[c].fresh

=============================================================================
