---------------------------- MODULE MCTelevision ----------------------------
(* The four parts of the television, and a plug, side by side: they share   *)
(* no state, so a behaviour picks one at the start and only that one moves.  *)
EXTENDS Naturals, Sequences, FiniteSets

CONSTANTS Nil, User, Chunks, MaxCuts, MaxLeaves, MaxShells,
          Task, Box, MaxChanges, MaxCalls, MaxLost, MaxDeaths,
          Keys, Room, Backlog, Pings,
          Caller, Gap, Polls, Requests, MaxAsks, MaxLosses, MaxCrashes, MaxHands,
          MaxPlugCalls, MaxFaults, MaxPresses

VARIABLES
    part,
    user, lock, kept, up, out, in, skew, nextId, stream, knows, ran, cuts, leaves, shells,
    host, device, remote, pending, failed, deviceLock, remoteLock, permit, task, paired, files, late, strays,
    changes, calls, lost, deaths,
    sess, held, reader, said, incoming, commands, heard, tv, asked, accepted, did, pings,
    panel, net, crashed, shown, gate, last, ask, asks, losses, crashes, hands,
    relay, old, cached, call, told, plugCalls, faults, presses

Adb == INSTANCE AdbLink
Atv == INSTANCE AndroidTv
Ses == INSTANCE AtvSession
Tv == INSTANCE PhilipsTv
Plug == INSTANCE MerossPlug WITH MaxCalls <- MaxPlugCalls, calls <- plugCalls

\* Nobody is no user, task or box, and no answer either.  A command prints a number of chunks; a
\* status asks for the power, then for what is on; the polls are a number.
ASSUME TelevisionAssumption ==
    /\ Nil \notin User \cup Task \cup Box \cup {"ok"}
    /\ Chunks \in Nat
    /\ Requests \in [DOMAIN Requests -> Nat] /\ "status" \in DOMAIN Requests
    /\ Polls \in Nat

MCRequests == [status |-> 1, volume |-> 2]

adb == <<user, lock, kept, up, out, in, skew, nextId, stream, knows, ran, cuts, leaves, shells>>
atv == <<host, device, remote, pending, failed, deviceLock, remoteLock, permit, task, paired, files, late, strays,
         changes, calls, lost, deaths>>
session == <<sess, held, reader, said, incoming, commands, heard, tv, asked, accepted, did, pings>>
philips == <<panel, net, crashed, shown, gate, last, ask, asks, losses, crashes, hands>>
meross == <<relay, old, cached, call, told, plugCalls, faults, presses>>
vars == <<part, adb, atv, session, philips, meross>>

\* A part that does not move starts in one state only.
Init ==
    /\ part \in {"adb", "atv", "session", "tv", "plug"}
    /\ Adb!Init /\ Atv!Init /\ Ses!Init /\ Tv!Init /\ Plug!PlugInit
    /\ part # "adb" => knows
    /\ IF part = "atv" THEN paired \subseteq {host} ELSE paired = {}
    /\ part # "tv" => panel
    /\ part # "plug" => relay /\ old
    /\ host = CHOOSE box \in Box : TRUE

Next ==
    /\ UNCHANGED part
    /\ \/ part = "adb" /\ Adb!Next /\ UNCHANGED <<atv, session, philips, meross>>
       \/ part = "atv" /\ Atv!Next /\ UNCHANGED <<adb, session, philips, meross>>
       \/ part = "session" /\ Ses!Next /\ UNCHANGED <<adb, atv, philips, meross>>
       \/ part = "tv" /\ Tv!Next /\ UNCHANGED <<adb, atv, session, meross>>
       \/ part = "plug" /\ Plug!PlugNext /\ UNCHANGED <<adb, atv, session, philips>>

\* The session's two tasks are polled as long as they can go on, and its time limits run out.
Serves == part = "session" /\ Ses!Serve /\ UNCHANGED <<part, adb, atv, philips, meross>>

Spec == Init /\ [][Next]_vars /\ WF_vars(Serves)

-----------------------------------------------------------------------------
\* A shell's answer is its own command's output (adb.rs): AdbLink.
AnswersAreOwn == Adb!AnswersAreOwn

\* What is kept belongs to the configured box, and no back-off outlives a pairing (androidtv.rs):
\* AndroidTv.
FollowsAddress == Atv!FollowsAddress /\ Atv!PairedIsUsed

\* Keys are carried out in order, none missing in between (atvremote.rs): AtvSession.
KeysInOrder == Ses!KeysInOrder

\* A session whose TV is gone, or that nobody holds, ends (atvremote.rs): AtvSession.
SessionEnds == part = "session" => Ses!SessionEnds

\* The power button never switches on a set that is on (tv.rs): PhilipsTv.
TogglesSeeTheSet == Tv!TogglesSeeTheSet

\* Nobody is told of the plug what it was not while they asked (meross.rs): MerossPlug.
ToldAsItWas == Plug!ToldAsItWas

=============================================================================
