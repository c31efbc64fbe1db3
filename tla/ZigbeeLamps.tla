---------------------------- MODULE ZigbeeLamps ----------------------------
(***************************************************************************)
(* The Zigbee lamps as the driver's event loop keeps them: commands.rs,    *)
(* callbacks.rs, availability.rs, remotes.rs and device.rs of              *)
(* backend/src/zigbee.                                                     *)
(*                                                                         *)
(* One task does everything, one thing at a time: a command, a callback, a *)
(* step of the availability check, a restore sweep.  Only the sweep lets   *)
(* callbacks in between two lamps.  What is in the air (answers, failed    *)
(* deliveries, announces) is handled in any order.  Left out: node ids,    *)
(* interviews and a press's second copy (ZigbeeDevices), the link's        *)
(* failures (ZigbeeDriver), colours' values, the growing back-off.         *)
(***************************************************************************)
EXTENDS Naturals, Sequences, FiniteSets, Filter

CONSTANTS
    Lamps,      \* how many; they are numbered, in the order of joined_devices
    Colour,     \* those with colour and colour temperature
    Top,        \* brightness 100, in dimmer steps
    Tries,      \* how often an interview is retried
    MaxCommands, MaxPresses, MaxFlips, MaxLost,   \* bounds: commands, presses, wall switch, lost frames
    Nil

VARIABLES
    world,      \* the lamps themselves: power at the wall, on, level, tone
    rec,        \* joined_devices
    air,        \* frames and callbacks under way
    avail,      \* the check: at, queue, attempt, heard since the ping
    silent,     \* lamps not heard for their timeout
    loop, sweep,   \* what the task is in: "free", "sweep", "drain"; the copies yet to restore
    asked,      \* history: the last level and tone asked of each lamp
    noticed,    \* history: lamps the driver saw going away during their last power cut
    excused,    \* history: lamps restored while off
    stale,      \* history: lamps restored from a copy older than a press or a failed delivery
    commands, presses, flips, lost

lampVars == <<world, rec, air, avail, silent, loop, sweep, asked, noticed, excused, stale,
              commands, presses, flips, lost>>

Lamp == 1 .. Lamps
Level == 0 .. Top

\* DiscoveredDevice::known: kept from an earlier run, interviewed, not heard yet.
Known == [reach |-> FALSE, on |-> FALSE, level |-> 0, want |-> Nil, tone |-> {}, applied |-> TRUE, ep |-> TRUE, tries |-> 0]

\* A lamp fresh from the wall switch.
Factory == [power |-> TRUE, on |-> TRUE, level |-> Top, tone |-> Nil]

Init ==
    /\ world \in [Lamp -> {Factory, [Factory EXCEPT !.power = FALSE]}]
    /\ rec = [l \in Lamp |-> Known]
    /\ air = {}
    /\ avail = [at |-> "idle", queue |-> <<>>, attempt |-> 0, heard |-> FALSE]
    /\ silent = Lamp
    /\ loop = "free" /\ sweep = <<>>
    /\ asked = [l \in Lamp |-> [level |-> Nil, tone |-> Nil]]
    /\ noticed = {} /\ excused = {} /\ stale = {}
    /\ commands = 0 /\ presses = 0 /\ flips = 0 /\ lost = 0

\* After a power cut the driver saw: every lamp had been dimmed, none answers.
CutInit ==
    /\ world = [l \in Lamp |-> [Factory EXCEPT !.power = FALSE]]
    /\ rec = [l \in Lamp |-> [Known EXCEPT !.level = 1, !.want = 1, !.on = TRUE, !.applied = FALSE]]
    /\ air = {} /\ silent = Lamp
    /\ avail = [at |-> "idle", queue |-> <<>>, attempt |-> 0, heard |-> FALSE]
    /\ loop = "free" /\ sweep = <<>>
    /\ asked = [l \in Lamp |-> [level |-> 1, tone |-> Nil]]
    /\ noticed = Lamp /\ excused = {} /\ stale = {}
    /\ commands = 0 /\ presses = 0 /\ flips = 0 /\ lost = 0

history == <<asked, noticed, excused, stale>>
checking == <<avail, silent>>
task == <<loop, sweep>>
bounds == <<commands, presses, flips, lost>>

With(r, changes) == [f \in DOMAIN r |-> IF f \in DOMAIN changes THEN changes[f] ELSE r[f]]
Is(l, changes) == [rec EXCEPT ![l] = With(@, changes)]

-----------------------------------------------------------------------------
(* The radio.                                                              *)

Answer(l) == [k |-> "state", l |-> l, on |-> world[l].on, level |-> world[l].level]
Plain(k, l) == [k |-> k, l |-> l, on |-> FALSE, level |-> 0]

\* Those of `to` that hear a frame the dongle took, `missed` lost on the way; MessageSent tells
\* of the others.
Hear(to, missed) == {l \in to \ missed : world[l].power}
Unheard(to, missed) == {Plain("failed", l) : l \in to \ Hear(to, missed)}
Loses(set) == lost' = lost + Cardinality(set) /\ lost' <= MaxLost

\* A unicast asking something: its answers, and what may be lost.
Asks(l, question, answer) ==
    \E missed \in SUBSET {l} :
        /\ Loses({x \in missed : world[x].power})
        /\ air' = (air \ question) \cup IF Hear({l}, missed) = {} THEN {Plain("failed", l)} ELSE {answer}

\* heard(): it answered.
Hears(l) ==
    /\ silent' = silent \ {l}
    /\ avail' = [avail EXCEPT !.heard = @ \/ (avail.at = "wait" /\ l = Head(avail.queue).l)]

\* Mutant: what was asked still counts as applied.
LostButApplied(r) == [r EXCEPT !.reach = FALSE]

\* lost(): news only of a lamp that was reachable.
Lost(r) == IF r.reach THEN [r EXCEPT !.reach = FALSE, !.applied = FALSE] ELSE r
Notices(l) ==
    /\ noticed' = IF rec[l].reach /\ ~world[l].power THEN noticed \cup {l} ELSE noticed
    /\ excused' = IF rec[l].reach THEN excused \ {l} ELSE excused
    /\ stale' = IF rec[l].reach THEN stale \ {l} ELSE stale
    /\ UNCHANGED asked

-----------------------------------------------------------------------------
(* Commands: set_power, set_brightness, set_temperature, set_color.        *)

\* The dongle refuses (nothing changes), or takes the frame.
Command(l, able, made, recorded, wish) ==
    /\ loop = "free" /\ commands < MaxCommands
    /\ rec[l].ep /\ able
    /\ commands' = commands + 1
    /\ \E missed \in SUBSET {l} :
         /\ Loses({x \in missed : world[x].power})
         /\ air' = air \cup Unheard({l}, missed)
         /\ world' = IF l \in Hear({l}, missed) THEN [world EXCEPT ![l] = With(@, made)] ELSE world
    /\ rec' = Is(l, recorded)
    /\ asked' = [asked EXCEPT ![l] = With(@, wish)]
    /\ UNCHANGED <<checking, task, noticed, excused, stale, presses, flips>>

SetPower(l, on) == Command(l, TRUE, [on |-> on], [on |-> on], <<>>)

\* The frame's level is at least 1; the record takes the 0 asked for as off.
SetBrightness(l, v) ==
    Command(l, TRUE, [level |-> IF v = 0 THEN 1 ELSE v, on |-> TRUE], [level |-> v, on |-> v > 0, want |-> v], [level |-> v])

\* A temperature drops the colour wanted, and the other way round.
SetTone(l, tone) == Command(l, l \in Colour, [tone |-> tone], [tone |-> {tone}], [tone |-> tone])

-----------------------------------------------------------------------------
(* Callbacks: drain_callbacks, on_callback.                                *)

Draining == loop \in {"free", "drain"}

\* A lamp's frame: apply_lamp_frame.
OnFrame(m) ==
    /\ m.k = "state"
    /\ air' = air \ {m}
    /\ rec' = Is(m.l, [reach |-> TRUE, on |-> m.on, level |-> m.level])
    /\ Hears(m.l)
    /\ UNCHANGED <<world, lost, history>>

\* MessageSent without an acknowledgement.
OnFailed(m) ==
    /\ m.k = "failed"
    /\ air' = air \ {m}
    /\ rec' = [rec EXCEPT ![m.l] = Lost(@)]
    /\ Notices(m.l)
    /\ UNCHANGED <<world, checking, lost>>

\* ensure_joined_device: one that was out of reach was powered back on.  Its classification is
\* dropped and it is interviewed afresh.
OnAnnounce(m) ==
    /\ m.k = "announce"
    /\ rec' = Is(m.l, [reach |-> TRUE, ep |-> FALSE, tries |-> 0,
                       on |-> rec[m.l].on \/ ~rec[m.l].reach,
                       level |-> IF rec[m.l].reach \/ rec[m.l].level > 0 THEN rec[m.l].level ELSE Top])
    /\ Hears(m.l)
    /\ Asks(m.l, {m}, Plain("descriptor", m.l))
    /\ UNCHANGED <<world, history>>

\* The interview is over; the lamp's state is read.
OnDescriptor(m) ==
    /\ m.k = "descriptor"
    /\ rec' = Is(m.l, [reach |-> TRUE, ep |-> TRUE, tries |-> 0])
    /\ Hears(m.l)
    /\ Asks(m.l, {m}, Answer(m.l))
    /\ UNCHANGED <<world, history>>

OnCallback(m) ==
    /\ Draining
    /\ OnFrame(m) \/ OnFailed(m) \/ OnAnnounce(m) \/ OnDescriptor(m)
    /\ UNCHANGED <<task, commands, presses, flips>>

\* retry_pending_interviews.
RetryInterview(l) ==
    /\ loop = "free"
    /\ ~rec[l].ep /\ rec[l].tries < Tries
    /\ rec' = [rec EXCEPT ![l].tries = @ + 1]
    /\ Asks(l, {}, Plain("descriptor", l))
    /\ UNCHANGED <<world, checking, task, history, commands, presses, flips>>

-----------------------------------------------------------------------------
(* The dimmer: remotes.rs.                                                 *)

Stepped(v, up) == IF up THEN (IF v < Top THEN v + 1 ELSE Top) ELSE IF v > 1 THEN v - 1 ELSE 1

\* Every reachable lamp; broadcast_power_to_all_lamps and broadcast_brightness_step_to_all_lamps.
Broadcast(press) ==
    LET to == {l \in Lamp : rec[l].reach /\ rec[l].ep}
        level == [l \in Lamp |-> Stepped(rec[l].level, press = "up")]
        power == press \in {"on", "off"}
    IN  \E missed \in SUBSET to :
          /\ Loses({l \in missed : world[l].power})
          /\ air' = air \cup Unheard(to, missed)
          /\ world' = [l \in Lamp |->
               IF l \notin Hear(to, missed) THEN world[l]
               ELSE IF power THEN [world[l] EXCEPT !.on = (press = "on")]
               ELSE [world[l] EXCEPT !.level = level[l], !.on = TRUE]]
          /\ rec' = [l \in Lamp |->
               IF l \notin to THEN rec[l]
               ELSE IF power THEN [rec[l] EXCEPT !.on = (press = "on")]
               ELSE [rec[l] EXCEPT !.level = level[l], !.on = TRUE, !.want = level[l]]]
          /\ asked' = [l \in Lamp |-> IF l \in to /\ ~power THEN [asked[l] EXCEPT !.level = level[l]] ELSE asked[l]]

\* A button of the dimmer, once per press (ZigbeeDevices).
Press(press) ==
    /\ Draining
    /\ presses < MaxPresses /\ presses' = presses + 1
    /\ Broadcast(press)
    /\ UNCHANGED <<checking, task, noticed, excused, stale, commands, flips>>

-----------------------------------------------------------------------------
(* The availability check: one step at a time.                             *)

Target(l) == [l |-> l, was |-> rec[l].reach]

\* due_for_ping: an interviewed lamp silent past its timeout.
Due == Picked([l \in Lamp |-> Target(l)], {l \in silent : rec[l].ep})

\* done_with: off the queue, and a pause before the next one.
DoneWith(l, queue) ==
    LET rest == Picked(queue, {i \in DOMAIN queue : queue[i].l # l})
    IN  avail' = [at |-> IF rest = <<>> THEN "idle" ELSE "cool", queue |-> rest, attempt |-> 0, heard |-> FALSE]

\* restore_desired_state starts on copies of the lamps that came back.
Sweeps(r) ==
    LET wanting == {l \in Lamp : r[l].reach /\ ~r[l].applied /\ r[l].ep /\ (r[l].want # Nil \/ r[l].tone # {})}
        back == Picked([l \in Lamp |-> [l |-> l, on |-> r[l].on, want |-> r[l].want, tone |-> r[l].tone]], wanting)
    IN  sweep' = back /\ loop' = IF back = <<>> THEN "free" ELSE "sweep"

\* mark_lost; news of a lamp sweeps the others.
MarkLost(l) == rec' = [rec EXCEPT ![l] = Lost(@)] /\ Notices(l)
SweepsOnNews(l) == IF rec[l].reach THEN Sweeps(rec') ELSE UNCHANGED task

\* send_ping: the read goes out; the dongle refuses it and the lamp is given up; or its time runs
\* out half-way and the check starts over, telling nobody.
Pinged(l, attempt, queue) ==
    Asks(l, {}, Answer(l)) /\ avail' = [at |-> "wait", queue |-> queue, attempt |-> attempt, heard |-> FALSE]
Refused(l, queue) == Loses({l}) /\ UNCHANGED air /\ DoneWith(l, queue)
CutOff(l, queue) ==
    Loses({l}) /\ UNCHANGED air /\ avail' = [at |-> "idle", queue |-> queue, attempt |-> 0, heard |-> FALSE]

\* start_next_ping.
StartPing ==
    /\ loop = "free" /\ avail.at = "idle"
    /\ LET queue == IF avail.queue = <<>> THEN Due ELSE avail.queue
           l == Head(queue).l
       IN  /\ queue # <<>>
           /\ \/ (Pinged(l, 1, queue) \/ CutOff(l, queue)) /\ UNCHANGED <<rec, task, history>>
              \/ Refused(l, queue) /\ MarkLost(l) /\ SweepsOnNews(l)
    /\ UNCHANGED <<world, silent, commands, presses, flips>>

\* Mutant: a lamp that was ever heard answers.
AnsweredEver(l) == rec[l].reach

\* last_seen is after before_ping.
Answered(l) == avail.heard

\* check_ping, once PING_RETRY_DELAY is over: an answer to the last ping comes before, or never.
CheckPing ==
    /\ loop = "free" /\ avail.at = "wait"
    /\ LET t == Head(avail.queue) IN
         (t.was /\ avail.attempt = 1) \/ ~\E m \in air : m.k = "state" /\ m.l = t.l
    /\ LET t == Head(avail.queue)
           again == t.was /\ avail.attempt = 1
       IN  \/ /\ Answered(t.l)
              /\ DoneWith(t.l, avail.queue) /\ Sweeps(rec)
              /\ UNCHANGED <<rec, air, lost, history>>
           \/ /\ ~Answered(t.l)
              /\ MarkLost(t.l)
              /\ \/ again /\ (Pinged(t.l, 2, avail.queue) \/ Refused(t.l, avail.queue)) /\ SweepsOnNews(t.l)
                 \/ again /\ CutOff(t.l, avail.queue) /\ UNCHANGED task
                 \/ ~again /\ DoneWith(t.l, avail.queue) /\ SweepsOnNews(t.l) /\ UNCHANGED <<air, lost>>
    /\ UNCHANGED <<world, silent, commands, presses, flips>>

CoolDown ==
    /\ loop = "free" /\ avail.at = "cool"
    /\ avail' = [avail EXCEPT !.at = "idle"]
    /\ UNCHANGED <<world, rec, air, silent, task, history, bounds>>

-----------------------------------------------------------------------------
(* restore_desired_state.                                                  *)

\* restore: brightness (never 0, never to a lamp that is off), then temperature or colour; the
\* first part the dongle refuses ends it, unapplied.
Restore ==
    /\ loop = "sweep"
    /\ LET t == Head(sweep)
           dims == t.want # Nil /\ t.want # 0 /\ t.on
           light == (IF dims THEN [level |-> t.want, on |-> TRUE] ELSE <<>>)
           tone == IF "color" \in t.tone THEN "color" ELSE "temp"
           made == IF t.tone # {} THEN [tone |-> tone] ELSE <<>>
           rest == Tail(sweep)
       IN  \/ \* every part went through
              /\ rec' = [rec EXCEPT ![t.l] = With(With(@, light), [applied |-> TRUE])]
              /\ \E missed \in SUBSET {t.l} :
                   /\ Loses({x \in missed : world[x].power})
                   /\ air' = air \cup Unheard({t.l}, missed)
                   /\ world' = IF t.l \in Hear({t.l}, missed) THEN [world EXCEPT ![t.l] = With(With(@, light), made)] ELSE world
              /\ excused' = IF t.on THEN excused ELSE excused \cup {t.l}
              /\ stale' = IF t.want = rec[t.l].want /\ rec[t.l].reach THEN stale ELSE stale \cup {t.l}
              /\ loop' = "drain" /\ sweep' = rest
           \/ \* a part failed
              /\ Loses({t.l})
              /\ \/ UNCHANGED <<rec, world>>
                 \/ /\ dims /\ t.tone # {}
                    /\ rec' = Is(t.l, light)
                    /\ world' = IF world[t.l].power THEN [world EXCEPT ![t.l] = With(@, light)] ELSE world
              /\ loop' = (IF rest = <<>> THEN "free" ELSE "sweep") /\ sweep' = rest
              /\ UNCHANGED <<air, excused, stale>>
    /\ UNCHANGED <<checking, asked, noticed, commands, presses, flips>>

\* What had arrived is drained, or RESTORE_SWEEP_TIMEOUT ends the sweep.
GoOn ==
    /\ loop = "drain"
    /\ \/ loop' = (IF sweep = <<>> THEN "free" ELSE "sweep") /\ UNCHANGED <<sweep, lost>>
       \/ sweep # <<>> /\ Loses({Head(sweep).l}) /\ loop' = "free" /\ sweep' = <<>>
    /\ UNCHANGED <<world, rec, air, checking, history, commands, presses, flips>>

-----------------------------------------------------------------------------
(* The lamps and the people (external).                                    *)

\* Off at the wall, or on again; a power cut takes them all.  A lamp that starts announces itself.
Flip(set, power) ==
    /\ flips < MaxFlips /\ flips' = flips + 1
    /\ \A l \in set : world[l].power # power
    /\ world' = [l \in Lamp |-> IF l \notin set THEN world[l] ELSE [Factory EXCEPT !.power = power]]
    /\ noticed' = IF power THEN noticed ELSE noticed \ set
    /\ \E missed \in SUBSET IF power THEN set ELSE {} :
         Loses(missed) /\ air' = air \cup {Plain("announce", l) : l \in (IF power THEN set ELSE {}) \ missed}
    /\ UNCHANGED <<rec, checking, task, asked, excused, stale, commands, presses>>

\* A minute without a word.
Quiet(l) ==
    /\ l \notin silent /\ ~\E m \in air : m.l = l
    /\ silent' = silent \cup {l}
    /\ UNCHANGED <<world, rec, air, avail, task, history, bounds>>

-----------------------------------------------------------------------------

Driver ==
    \/ \E m \in air : OnCallback(m)
    \/ \E l \in Lamp : RetryInterview(l)
    \/ StartPing \/ CheckPing \/ CoolDown \/ Restore \/ GoOn

Next ==
    \/ Driver
    \/ \E l \in Lamp :
         \/ (\E on \in BOOLEAN : SetPower(l, on)) \/ (\E v \in Level : SetBrightness(l, v))
         \/ (\E tone \in {"temp", "color"} : SetTone(l, tone))
         \/ Quiet(l)
    \/ \E set \in SUBSET Lamp \ {{}}, power \in BOOLEAN : Flip(set, power)
    \/ \E press \in {"on", "off", "up", "down"} : Press(press)

-----------------------------------------------------------------------------
(* Properties.                                                             *)

\* Given its light back: the restore counts as done.
Restored(l) == world[l].power /\ rec[l].reach /\ rec[l].applied /\ Plain("failed", l) \notin air

AsAsked(l) ==
    /\ asked[l].level \notin {Nil, 0} => world[l].level = asked[l].level
    /\ asked[l].tone # Nil => world[l].tone = asked[l].tone

\* A lamp the driver saw going away comes back as it was last asked to be, brightness and tone,
\* by the time the restore counts as done, whatever was pressed, lost or refused meanwhile;
\* unless it was off then, or a press or a failure came between the sweep's copy and its turn
\* (availability.rs:213-237, device.rs:104-115).
ComesBackAsAsked ==
    loop = "free" => \A l \in noticed \ (excused \cup stale) : Restored(l) => AsAsked(l)

\* take_in: one whose interview is not done is shown out of reach.
Shown(l) == rec[l].reach /\ rec[l].ep

\* An interview that ran out: it is neither retried nor is the lamp pinged, until it announces
\* itself again (discovery.rs:24-26, 91-102, availability.rs:130-143).
RanOut(l) == ~rec[l].ep /\ rec[l].tries = Tries

\* A lamp cut off for good is shown out of reach for good; one left on is, again and again,
\* shown in reach with its light given back, unless its interview ran out while it was off or
\* its frames were lost: it may then never be shown again (availability.rs:85-211,
\* mod.rs:462-470).
Reachability ==
    \A l \in Lamp :
        /\ <>[]~world[l].power => <>[]~Shown(l)
        /\ <>[]world[l].power =>
             <>[]RanOut(l) \/ []<>(Shown(l) /\ (rec[l].applied \/ (rec[l].want = Nil /\ rec[l].tone = {})))

=============================================================================
