--------------------------- MODULE MCZigbeeLamps ---------------------------
(***************************************************************************)
(* Three parts side by side, one moving in each behaviour: one lamp in     *)
(* every state, two lamps after a power cut, and the devices' identities.  *)
(***************************************************************************)
EXTENDS Naturals, Sequences, FiniteSets

CONSTANTS Nil, Top, Tries, Colour, MaxPresses, MaxLost, Dev, Node, Attempts, MaxMoves, MaxButtons, MaxFails, MaxPanics

VARIABLES
    part,
    world, rec, air, avail, silent, loop, sweep, asked, noticed, excused, stale, commands, presses, flips, lost,
    net, inbox, recs, boot, acted, shared, news, lamps, file, pushed, misread, moves, buttons, fails, panics

\* What is absent is no level, no tone and no endpoint.
ASSUME ZigbeeAssumption ==
    /\ Top \in Nat /\ Nil \notin Nat /\ Nil \notin {"temp", "color", "light", "utility"}

\* The devices are finitely many, and there is a node id for each.
ASSUME DeviceAssumption ==
    /\ IsFiniteSet(Dev) /\ Nil \notin Node
    /\ \E home \in [Dev -> Node] : \A d, e \in Dev : home[d] = home[e] => d = e

MCEndpoints == [d \in Dev |-> IF d = "lamp" THEN {"light"} ELSE {"utility"}]

House(Lamps, MaxCommands, MaxFlips) == INSTANCE ZigbeeLamps
Ids == INSTANCE ZigbeeDevices WITH None <- Nil, Endpoints <- MCEndpoints

lampVars == <<world, rec, air, avail, silent, loop, sweep, asked, noticed, excused, stale, commands, presses, flips, lost>>
devVars == <<net, inbox, recs, boot, acted, shared, news, lamps, file, pushed, misread, moves, buttons, fails, panics>>
vars == <<part, lampVars, devVars>>

\* A part that does not move starts in one state only.
Init ==
    /\ part \in {"one", "two", "ids"}
    /\ IF part = "two" THEN House(2, 0, 1)!CutInit ELSE House(1, 1, 3)!Init /\ (part # "one" => world[1].power)
    /\ Ids!Init /\ (part # "ids" => \A d \in Dev : net[d] = Nil)

Next ==
    /\ UNCHANGED part
    /\ \/ part = "one" /\ House(1, 1, 3)!Next /\ UNCHANGED devVars
       \/ part = "two" /\ House(2, 0, 1)!Next /\ UNCHANGED devVars
       \/ part = "ids" /\ Ids!Next /\ UNCHANGED lampVars

\* The driver's loop goes on as long as it can, and silences last.
Drives == part = "one" /\ House(1, 1, 3)!Driver /\ UNCHANGED <<part, devVars>>
Hushes == part = "one" /\ House(1, 1, 3)!Quiet(1) /\ UNCHANGED <<part, devVars>>

Spec == Init /\ [][Next]_vars /\ WF_vars(Drives) /\ WF_vars(Hushes)

-----------------------------------------------------------------------------
\* A lamp that comes back is as it was last asked to be (availability.rs): ZigbeeLamps.
ComesBackAsAsked == IF part = "two" THEN House(2, 0, 1)!ComesBackAsAsked ELSE House(1, 1, 3)!ComesBackAsAsked

\* A lamp cut off is shown out of reach; one that is on, in reach and restored (availability.rs):
\* ZigbeeLamps.
Reachability == part = "one" => House(1, 1, 3)!Reachability

\* Every record fits its device once callbacks are handled (callbacks.rs): ZigbeeDevices.
RecordsFit == Ids!RecordsFit

\* The file follows the driver's devices (zigbee/mod.rs): ZigbeeDevices.
KeptWhenSettled == Ids!KeptWhenSettled

\* The last press wins (remotes.rs): ZigbeeDevices.
LastPressWins == Ids!LastPressWins

=============================================================================
