--------------------------- MODULE ZigbeeDevices ---------------------------
(***************************************************************************)
(* Which device is which: node ids, joins, interviews and classification   *)
(* in the driver (callbacks.rs, discovery.rs, zcl.rs), the dimmer's        *)
(* presses (remotes.rs), and the manager's copy of the devices, kept in    *)
(* zigbee-lamps.json (zigbee/mod.rs, lamps.rs).                            *)
(*                                                                         *)
(* What one device causes arrives in order; devices overtake each other.   *)
(* An interview is its endpoints' descriptors: Active_EP_req only says     *)
(* which to ask.  A driver restarted after a panic starts over from the    *)
(* devices the manager knew when the service started.                      *)
(***************************************************************************)
EXTENDS Naturals, Sequences, FiniteSets, SequencesExt, Filter

CONSTANTS
    Dev,        \* devices, by EUI64
    Endpoints,  \* the endpoints of each, as a set of "light", "utility"
    Node,       \* node ids
    Attempts,   \* how often an interview is retried
    MaxMoves, MaxButtons, MaxFails, MaxPanics,   \* bounds: joins and leaves, presses, failed saves, panics
    None

VARIABLES
    net,        \* the network: each device's node id
    inbox,      \* callbacks under way, per device
    recs,       \* joined_devices
    boot,       \* known_devices: what the driver starts from
    acted,      \* remote_presses.power: the last action, and whether in the window
    shared,     \* the snapshot published
    news,       \* it changed since the last sync
    lamps,      \* the manager's lamps
    file,       \* zigbee-lamps.json
    pushed,     \* history: the last press
    misread,    \* history: devices whose last announce dropped another's classification
    moves, buttons, fails, panics

devVars == <<net, inbox, recs, boot, acted, shared, news, lamps, file, pushed, misread, moves, buttons, fails, panics>>

manager == <<shared, news, lamps, file, fails>>
radio == <<net, moves, buttons, pushed>>

Rec(eui, node) == [eui |-> eui, node |-> node, type |-> "unknown", ep |-> None, tries |-> 0]

Home == CHOOSE f \in [Dev -> Node] : \A d, e \in Dev : f[d] = f[e] => d = e

\* with_driver: devices known from the file, interviewed; the others are new.
Init ==
    /\ \E there \in SUBSET Dev : net = [d \in Dev |-> IF d \in there THEN Home[d] ELSE None]
    /\ inbox = [d \in Dev |-> <<>>]
    /\ recs = SetToSeq({[Rec(d, net[d]) EXCEPT !.type = IF "light" \in Endpoints[d] THEN "lamp" ELSE "remote",
                                              !.ep = IF "light" \in Endpoints[d] THEN "light" ELSE "utility"]
                        : d \in {e \in Dev : net[e] # None}})
    /\ boot = recs /\ shared = <<>> /\ news = FALSE
    /\ lamps = {[eui |-> r.eui, node |-> r.node, type |-> r.type] : r \in ToSet(recs)}
    /\ file = lamps
    /\ acted = [last |-> None, open |-> FALSE] /\ pushed = None /\ misread = {}
    /\ moves = 0 /\ buttons = 0 /\ fails = 0 /\ panics = 0

\* context.device: the first record with the node id; 0 if none.
At(rs, node) == LET found == {i \in DOMAIN rs : rs[i].node = node}
                IN  IF found = {} THEN 0 ELSE CHOOSE i \in found : \A j \in found : i <= j
OfEui(rs, eui) == LET found == {i \in DOMAIN rs : rs[i].eui = eui}
                  IN  IF found = {} THEN 0 ELSE CHOOSE i \in found : \A j \in found : i <= j

Without(box, d) == [box EXCEPT ![d] = Tail(@)]

-----------------------------------------------------------------------------
(* Joins.                                                                  *)

\* Mutant: only the node id is looked at.
EnsureByNode(node, eui) ==
    LET i == At(recs, node)
    IN  IF i = 0 THEN Append(recs, Rec(eui, node)) ELSE [recs EXCEPT ![i].node = node, ![i].eui = eui]

\* ensure_joined_device: by EUI64 first, else the record with that node id becomes the device's,
\* else a new one.
Ensure(node, eui) ==
    LET i == IF OfEui(recs, eui) # 0 THEN OfEui(recs, eui) ELSE At(recs, node)
    IN  IF i = 0 THEN Append(recs, Rec(eui, node))
        ELSE [recs EXCEPT ![i].node = node, ![i].eui = eui, ![i].tries = IF recs[i].ep = None THEN 0 ELSE @]

\* request_known_device_discovery: whoever has the node id describes its endpoints, in any
\* order; nothing to ask a remote, nothing to learn of a device interviewed.
Discover(rs, node, box) ==
    LET i == At(rs, node)
        who == {d \in Dev : net[d] = node}
        asks == i # 0 /\ rs[i].type # "remote" /\ rs[i].ep = None
    IN  IF ~asks \/ who = {} THEN {box}
        ELSE LET d == CHOOSE d \in who : TRUE
             IN  {[box EXCEPT ![d] = @ \o [k \in DOMAIN order |-> [k |-> "desc", node |-> node, what |-> order[k]]]]
                  : order \in SetToSeqs(Endpoints[d])}

Publish(rs) == shared' = rs /\ news' = (news \/ rs # shared)

\* handle_trust_center_join, on_child_join.
OnJoin(d, m) ==
    /\ m.k = "join"
    /\ recs' = Ensure(m.node, d)
    /\ inbox' \in Discover(recs', m.node, Without(inbox, d))
    /\ Publish(recs')
    /\ UNCHANGED <<acted, misread>>

\* forget, by EUI64; nothing is published.
OnLeft(d, m) ==
    /\ m.k = "left"
    /\ recs' = Picked(recs, {i \in DOMAIN recs : recs[i].eui # d})
    /\ inbox' = Without(inbox, d)
    /\ UNCHANGED <<acted, shared, news, misread>>

\* on_device_announce: found or listed; whoever's record has the node id first has its
\* classification dropped, and is interviewed afresh.
OnAnnounced(d, m) ==
    /\ m.k = "announce"
    /\ LET rs == Ensure(m.node, d)
           i == At(rs, m.node)
           fresh == IF rs[i].ep = None THEN rs ELSE [rs EXCEPT ![i] = Rec(rs[i].eui, rs[i].node)]
       IN  /\ recs' = fresh
           /\ inbox' \in Discover(fresh, m.node, Without(inbox, d))
           /\ Publish(fresh)
           /\ misread' = IF rs[i].eui = d THEN misread \ {d} ELSE misread \cup {d}
    /\ UNCHANGED acted

-----------------------------------------------------------------------------
(* Interviews.                                                             *)

\* classify_device_type.
Classify(what) == IF what = "light" THEN "lamp" ELSE "remote"

\* takes_endpoint: a remote's never over a lamp's; a light one first, again, or over a remote.
TakesEndpoint(r, what) ==
    IF Classify(what) = "remote" THEN r.type # "lamp"
    ELSE r.ep \in {None, what} \/ r.type = "remote"

\* on_simple_descriptor, past handle_incoming_cluster, which drops what a remote says to ZDO.
OnDesc(d, m) ==
    /\ m.k = "desc"
    /\ LET i == At(recs, m.node) IN
         recs' = IF i = 0 THEN recs
                 ELSE IF recs[i].type = "remote" THEN recs
                 ELSE IF ~TakesEndpoint(recs[i], m.what) THEN recs
                 ELSE [recs EXCEPT ![i].type = Classify(m.what), ![i].ep = m.what, ![i].tries = 0]
    /\ inbox' = Without(inbox, d)
    /\ UNCHANGED <<acted, shared, news, misread>>

\* Mutant: any action within the window makes the next one a repeat.
IsRepeatAny(on) == acted.open

\* is_repeat: the same action within the window.
IsRepeat(on) == acted = [last |-> on, open |-> TRUE]

\* A remote's command: intercept_uninterviewed makes a device it has not interviewed a remote;
\* handle_remote_command drops a press's second copy.
OnPress(d, m) ==
    /\ m.k = "press"
    /\ LET i == At(recs, m.node)
           rs == IF i # 0 /\ recs[i].ep = None
                   THEN [recs EXCEPT ![i].type = "remote", ![i].ep = "utility"] ELSE recs
       IN  /\ recs' = rs
           /\ acted' = IF i = 0 \/ rs[i].type # "remote" \/ IsRepeat(m.what) THEN acted
                       ELSE [last |-> m.what, open |-> TRUE]
    /\ inbox' = Without(inbox, d)
    /\ UNCHANGED <<shared, news, misread>>

Handle(d) ==
    /\ inbox[d] # <<>>
    /\ LET m == Head(inbox[d]) IN OnJoin(d, m) \/ OnLeft(d, m) \/ OnAnnounced(d, m) \/ OnDesc(d, m) \/ OnPress(d, m)
    /\ UNCHANGED <<radio, boot, lamps, file, fails, panics>>

\* REMOTE_DEDUP_WINDOW is over; a press's copies come within it.
WindowEnds ==
    /\ acted.open /\ ~\E d \in Dev : \E i \in DOMAIN inbox[d] : inbox[d][i].k = "press"
    /\ acted' = [acted EXCEPT !.open = FALSE]
    /\ UNCHANGED <<radio, inbox, recs, boot, manager, misread, panics>>

\* on_tick: one retry of an interview (MAX_PROACTIVE_INTERVIEW_ATTEMPTS in all), and the devices are shared.
Tick ==
    /\ \/ /\ UNCHANGED <<recs, inbox>> /\ Publish(recs) /\ shared # recs
       \/ \E i \in DOMAIN recs :
            /\ recs[i].ep = None /\ recs[i].tries < Attempts
            /\ recs' = [recs EXCEPT ![i].tries = @ + 1]
            /\ inbox' \in Discover(recs, recs[i].node, inbox)
            /\ Publish(recs')
    /\ UNCHANGED <<radio, boot, acted, lamps, file, fails, misread, panics>>

\* supervise_driver: a panic; run_driver starts over from known_devices.
Panic ==
    /\ panics < MaxPanics /\ panics' = panics + 1
    /\ recs' = boot
    /\ inbox' = [d \in Dev |-> <<>>]
    /\ acted' = [last |-> None, open |-> FALSE]
    /\ UNCHANGED <<radio, boot, manager, misread>>

-----------------------------------------------------------------------------
(* The manager: sync_from_runtime.                                         *)

\* take_in: those interviewed, new or updated; the others stay as they were kept.
TakeIn ==
    LET now == {[eui |-> r.eui, node |-> r.node, type |-> r.type] : r \in {q \in ToSet(shared) : q.ep # None}}
    IN  now \cup {l \in lamps : ~\E n \in now : n.eui = l.eui}

\* Mutant: the news counts as seen whether the save went through or not.
NewsAfterAnyway(saved) == FALSE

\* mark_changed, when the save failed.
NewsAfter(saved) == ~saved

Sync ==
    /\ news
    /\ lamps' = TakeIn
    /\ \E saved \in BOOLEAN :
         /\ IF saved THEN file' = TakeIn /\ UNCHANGED fails
            ELSE TakeIn # file /\ fails < MaxFails /\ fails' = fails + 1 /\ UNCHANGED file
         /\ news' = NewsAfter(saved)
    /\ UNCHANGED <<radio, inbox, recs, boot, acted, shared, misread, panics>>

-----------------------------------------------------------------------------
(* The devices (external).                                                 *)

Says(d, messages) == inbox' = [inbox EXCEPT ![d] = @ \o messages]

\* A device joins, or rejoins under another id (drawn at random): one of which nothing said by
\* its last holder is still under way.
Moves(d, node) ==
    /\ moves < MaxMoves /\ moves + buttons <= MaxMoves /\ moves' = moves + 1
    /\ net[d] # node /\ ~\E e \in Dev : net[e] = node
    /\ \A e \in Dev \ {d} : \A i \in DOMAIN inbox[e] : inbox[e][i].node # node
    /\ net' = [net EXCEPT ![d] = node]
    /\ Says(d, <<[k |-> "join", node |-> node, what |-> None], [k |-> "announce", node |-> node, what |-> None]>>)
    /\ UNCHANGED <<buttons, pushed, recs, boot, acted, manager, misread, panics>>

Leaves(d) ==
    /\ moves < MaxMoves /\ moves + buttons <= MaxMoves /\ moves' = moves + 1
    /\ net[d] # None
    /\ net' = [net EXCEPT ![d] = None]
    /\ Says(d, <<[k |-> "left", node |-> None, what |-> None]>>)
    /\ UNCHANGED <<buttons, pushed, recs, boot, acted, manager, misread, panics>>

\* A button of a dimmer: one copy on the standard cluster, one on Philips' own.
Button(d, on) ==
    /\ buttons < MaxButtons /\ moves + buttons <= MaxMoves /\ buttons' = buttons + 1
    /\ net[d] # None /\ Endpoints[d] = {"utility"}
    /\ pushed' = on
    /\ Says(d, <<[k |-> "press", node |-> net[d], what |-> on], [k |-> "press", node |-> net[d], what |-> on]>>)
    /\ UNCHANGED <<net, moves, recs, boot, acted, manager, misread, panics>>

-----------------------------------------------------------------------------

Drives == (\E d \in Dev : Handle(d)) \/ Tick

Next ==
    \/ Drives \/ Sync \/ Panic \/ WindowEnds
    \/ \E d \in Dev : (\E node \in Node : Moves(d, node)) \/ Leaves(d) \/ (\E on \in BOOLEAN : Button(d, on))

-----------------------------------------------------------------------------
(* Properties.                                                             *)

Quiet == \A d \in Dev : inbox[d] = <<>>

\* Once every callback is handled, each device has one record, with the node id it answers to
\* and what it is, in whatever order ids were reused, joins and announces overtook each other
\* and descriptors came for a record that had changed hands; what it is, unless its announce
\* had dropped another's classification (callbacks.rs:165-196, context.rs:99-117, discovery.rs:167).
RecordsFit ==
    Quiet /\ panics = 0 =>
        \A d \in Dev :
            /\ net[d] # None <=> OfEui(recs, d) # 0
            /\ net[d] # None =>
                 LET r == recs[OfEui(recs, d)] IN
                   /\ r.node = net[d] /\ At(recs, r.node) = OfEui(recs, d)
                   /\ d \notin misread /\ r.ep # None /\ Endpoints[d] # {"light", "utility"} =>
                        r.type = IF "light" \in Endpoints[d] THEN "lamp" ELSE "remote"

\* With nothing left to handle, to publish or to sync, the file has every device the driver has
\* interviewed, as it is now, whichever saves failed (zigbee/mod.rs:434-451).
KeptWhenSettled ==
    Quiet /\ shared = recs /\ ~news =>
        \A i \in DOMAIN recs : recs[i].ep # None =>
            [eui |-> recs[i].eui, node |-> recs[i].node, type |-> recs[i].type] \in file

\* Whatever became of a press's first copy, the lamps were last told what was last pressed on a
\* dimmer that is listed (remotes.rs:29-68).
LastPressWins == Quiet /\ panics = 0 /\ moves = 0 /\ pushed # None => acted.last = pushed

=============================================================================
