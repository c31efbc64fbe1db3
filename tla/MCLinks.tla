------------------------------ MODULE MCLinks -------------------------------
(***************************************************************************)
(* Two links that are served, break and are rebuilt, one to a behaviour:   *)
(* the dongle's (ZigbeeDriver) with three callers and a queue of two, and  *)
(* a Tuya device's (TuyaWorker) with two callers.                          *)
(***************************************************************************)
EXTENDS ZigbeeDriver, FiniteSets

CONSTANTS Caller, MaxWorker

VARIABLES
    part,
    up, lock, handle, link, born, run, wake, stopped, panicked, sup, pc, seen, waitsFor, given, wanted, overtaken

Tuya == INSTANCE TuyaWorker

tuyaVars == <<up, lock, handle, link, born, run, wake, stopped, panicked, sup, pc, seen, waitsFor, given, wanted, overtaken>>
mcVars == <<part, vars, tuyaVars>>

ASSUME LinksAssumption ==
    /\ MaxWorker \in Nat
    /\ Caller \cap Nat = {}
    /\ Nil \notin Caller /\ Nil \notin Nat

\* A part that does not move starts in one state only.
MCInit ==
    /\ part \in {"driver", "tuya"}
    /\ Init /\ (part # "driver" => port /\ dongle)
    /\ Tuya!Init /\ (part # "tuya" => up)

InDriver(A) == part = "driver" /\ A /\ UNCHANGED <<part, tuyaVars>>
InTuya(A) == part = "tuya" /\ A /\ UNCHANGED <<part, vars>>

MCNext == InDriver(Next) \/ InTuya(Tuya!Next)

\* The fairness of ZigbeeDriver and of TuyaWorker.
MCSpec ==
    /\ MCInit /\ [][MCNext]_mcVars
    /\ WF_mcVars(InDriver(Works))
    /\ SF_mcVars(InDriver(Take))
    /\ \A r \in Req : SF_mcVars(InDriver(Enqueue(r)))
    /\ WF_mcVars(InTuya(Tuya!Claims))
    /\ SF_mcVars(InTuya(Tuya!Supervises))
    /\ \A u \in Tuya!Worker : WF_mcVars(InTuya(Tuya!Works(u)))

-----------------------------------------------------------------------------
\* Two sessions never fight over a device, and one shown connected has a session (tuya/mod.rs,
\* tuya/worker.rs): TuyaWorker.
OneSession == Tuya!NoFight /\ Tuya!ConnectedIsReal

\* A supervisor brings back no device someone disconnected (tuya/worker.rs): TuyaWorker.
DisconnectHolds == Tuya!DisconnectHolds

\* A device that answers is connected again, and waits end (tuya/worker.rs): TuyaWorker.
Recovers == Tuya!Recovers

=============================================================================
