------------------------------- MODULE IrKeys -------------------------------
(***************************************************************************)
(* Remote keys, scenes and what they set off: backend/src/ir.rs,           *)
(* routes/ir.rs, scenes.rs, routes/scenes.rs, over the blaster (Blaster).  *)
(*                                                                         *)
(* A key event is handled by a task of its own, and a press that fires is  *)
(* queued on the key's channel, which one task drains.  A scene run or a   *)
(* binding tested from the web runs the same actions inside the request.   *)
(* An action is an order to the air conditioner, a switch (lamp, plug,     *)
(* television, Ambilight) on, off or flipped, a saved code, a scene, or    *)
(* some other order, which succeeds or fails and leaves nothing here.      *)
(* The clock is left out: a press after another is a phantom or not.       *)
(***************************************************************************)
EXTENDS Blaster, Sequences

CONSTANTS
    Key, Chan, Req, Event,   \* keycodes, channels, requests, key-event handlers in flight
    Scene,                   \* scene ids
    Binding,                 \* bindings the web may set: [actions, repeat]
    SceneActions,            \* action lists the web may give a scene
    FileActions,             \* those of the file at start, written by hand perhaps
    KeyQueue,                \* KEY_QUEUE (4 in the code)
    MaxPresses, MaxPanics, MaxCalls   \* bounds on key events, panics and requests

VARIABLES
    keymap,    \* code -> binding, or Nil
    scenes,    \* id -> actions, or Nil
    pressed,   \* the keys in last_press
    event,     \* each handler's key, binding and kind of event, or Nil
    queue,     \* queues: the key's channel, or Nil
    chan,      \* each channel: its key, the bindings waiting; Nil when its task is gone
    run,       \* what each runner executes, or Nil
    switch,    \* the switch is on
    presses, panics, calls

remote == <<keymap, scenes, pressed, event, queue, chan, run, switch, presses, panics, calls>>
vars == <<blaster, remote>>

\* Who runs actions: a channel's task, or a request.
Runner == Chan \cup Req

Action == [what : {"climate", "switch"}, to : {"on", "off", "toggle"}]
          \cup [what : {"code"}, to : Code] \cup [what : {"scene"}, to : Scene]
          \cup [what : {"order"}, to : {Nil}]

\* todo, the actions left; inner, those of a scene still before them; order, what the running
\* action decided to send; blind, whether what it read was untrue; crossed, whether someone
\* else's order reached the device since (the last two are history).
RunRec == [todo : Seq(Action), inner : Seq(Action), order : {"on", "off", Nil}, toggles : BOOLEAN,
           blind : BOOLEAN, crossed : BOOLEAN, sent : BOOLEAN]

Runs(actions) ==
    [todo |-> actions, inner |-> <<>>, order |-> Nil, toggles |-> FALSE,
     blind |-> FALSE, crossed |-> FALSE, sent |-> FALSE]

ASSUME RemoteAssumption ==
    /\ Caller = Chan \cup Req /\ Chan \cap Req = {} /\ Key \cap Req = {}
    /\ Binding \subseteq [actions : Seq(Action), repeat : BOOLEAN]
    /\ SceneActions \cup FileActions \subseteq Seq(Action)
    /\ KeyQueue \in Nat \ {0}
    /\ Nil \notin RunRec \cup [key : Key, jobs : Seq(Seq(Action))]

\* A run with nothing left to do is over.
Going(rec) == IF rec.inner = <<>> /\ rec.todo = <<>> THEN Nil ELSE rec

Init ==
    /\ BlasterInit
    /\ keymap \in [Key -> Binding]
    /\ scenes \in [Scene -> FileActions]
    /\ pressed = {}
    /\ event = [e \in Event |-> Nil]
    /\ queue = [k \in Key |-> Nil]
    /\ chan = [x \in Chan |-> Nil]
    /\ run = [r \in Runner |-> Nil]
    /\ switch = FALSE
    /\ presses = 0 /\ panics = 0 /\ calls = 0

TypeOK ==
    /\ BlasterTypeOK
    /\ keymap \in [Key -> Binding \cup {Nil}]
    /\ pressed \subseteq Key
    /\ queue \in [Key -> Chan \cup {Nil}]
    /\ \A x \in Chan : chan[x] # Nil => chan[x].key \in Key /\ Len(chan[x].jobs) <= KeyQueue
    /\ \A r \in Runner : run[r] # Nil => run[r] \in RunRec

-----------------------------------------------------------------------------
(* A key event: key_event.                                                 *)

\* The binding is copied; an unmapped key, a release, or a repeat the binding does not want
\* changes nothing (and is not shown here).
Receive(e, k, kind) ==
    /\ event[e] = Nil
    /\ presses < MaxPresses
    /\ keymap[k] # Nil
    /\ kind = "press" \/ keymap[k].repeat
    /\ event' = [event EXCEPT ![e] = [key |-> k, binding |-> keymap[k], kind |-> kind]]
    /\ presses' = presses + 1
    /\ UNCHANGED <<blaster, keymap, scenes, pressed, queue, chan, run, switch, panics, calls>>

\* accept_press: too soon after the last one, a press is a phantom.  Repeats are not asked.
Phantom(e) ==
    /\ event[e] # Nil
    /\ event[e].kind = "press" /\ event[e].key \in pressed
    /\ event' = [event EXCEPT ![e] = Nil]
    /\ UNCHANGED <<blaster, keymap, scenes, pressed, queue, chan, run, switch, presses, panics, calls>>

\* A channel and its task (any that is not in use); the press that made it is queued.
Unused(k) == {x \in Chan : chan[x] = Nil /\ run[x] = Nil /\ \A j \in Key : queue[j] # x \/ j = k}
Started(k, x, job) ==
    /\ x \in Unused(k)
    /\ chan' = [chan EXCEPT ![x] = [key |-> k, jobs |-> <<job>>]]
    /\ queue' = [queue EXCEPT ![k] = x]

\* Mutant: a key that is busy gets another task.
RunInOrderAnyway(k, job) ==
    IF queue[k] # Nil /\ chan[queue[k]] # Nil /\ run[queue[k]] = Nil
    THEN /\ chan' = IF Len(chan[queue[k]].jobs) < KeyQueue
                    THEN [chan EXCEPT ![queue[k]].jobs = Append(@, job)] ELSE chan
         /\ UNCHANGED queue
    ELSE Unused(k) # {} /\ Started(k, CHOOSE x \in Unused(k) : TRUE, job)

\* run_in_order: queued, or dropped when the queue is full, or a new task when the last is gone.
RunInOrder(k, job) ==
    IF queue[k] # Nil /\ chan[queue[k]] # Nil
    THEN /\ chan' = IF Len(chan[queue[k]].jobs) < KeyQueue
                    THEN [chan EXCEPT ![queue[k]].jobs = Append(@, job)] ELSE chan
         /\ UNCHANGED queue
    ELSE Unused(k) # {} /\ Started(k, CHOOSE x \in Unused(k) : TRUE, job)

Fire(e) ==
    /\ event[e] # Nil
    /\ LET k == event[e].key IN
         /\ pressed' = IF event[e].kind = "press" THEN pressed \cup {k} ELSE pressed
         /\ RunInOrder(k, event[e].binding.actions)
    /\ event' = [event EXCEPT ![e] = Nil]
    /\ UNCHANGED <<blaster, keymap, scenes, run, switch, presses, panics, calls>>

\* The key's task takes its next press.
Take(x) ==
    /\ chan[x] # Nil /\ run[x] = Nil /\ chan[x].jobs # <<>>
    /\ run' = [run EXCEPT ![x] = Going(Runs(Head(chan[x].jobs)))]
    /\ chan' = [chan EXCEPT ![x].jobs = Tail(@)]
    /\ UNCHANGED <<blaster, keymap, scenes, pressed, event, queue, switch, presses, panics, calls>>

-----------------------------------------------------------------------------
(* run_actions, by a channel's task or a request.                          *)

Rest == <<keymap, scenes, pressed, event, queue, chan, presses, panics, calls>>

Current(r) == IF run[r].inner # <<>> THEN Head(run[r].inner) ELSE Head(run[r].todo)
Acting(r, what) ==
    /\ run[r] # Nil /\ ~run[r].sent /\ run[r].order = Nil
    /\ Current(r).what = what

\* The action is over, well or not: the next one.  The last one ends the run.
Passed(r) ==
    Going(IF run[r].inner # <<>> THEN [Runs(run[r].todo) EXCEPT !.inner = Tail(run[r].inner)]
          ELSE Runs(Tail(run[r].todo)))

Pass(r) == run' = [run EXCEPT ![r] = Passed(r)]

\* A scene's actions, copied; an unknown scene, or one inside a scene, fails.
ActScene(r) ==
    /\ Acting(r, "scene")
    /\ LET found == scenes[Current(r).to] IN
         IF run[r].inner = <<>> /\ found # Nil
         THEN run' = [run EXCEPT ![r] = Going([run[r] EXCEPT !.todo = Tail(@), !.inner = found])]
         ELSE Pass(r)
    /\ UNCHANGED <<blaster, Rest, switch>>

\* Anything that keeps no state here.
ActOrder(r) ==
    /\ Acting(r, "order")
    /\ Pass(r)
    /\ UNCHANGED <<blaster, Rest, switch>>

\* SwitchState::resolve: only a toggle asks, and flips what it heard.
ActResolve(r) ==
    /\ Acting(r, "switch")
    /\ LET to == Current(r).to
           on == IF to = "toggle" THEN ~switch ELSE to = "on"
       IN  run' = [run EXCEPT ![r].order = IF on THEN "on" ELSE "off"]
    /\ UNCHANGED <<blaster, Rest, switch>>

ActSwitch(r) ==
    /\ run[r] # Nil /\ run[r].order # Nil /\ Current(r).what = "switch"
    /\ switch' \in {switch, run[r].order = "on"}
    /\ Pass(r)
    /\ UNCHANGED <<blaster, Rest>>

\* The climate actions decide from the state recorded last, then wait for the remote's frames to
\* end.  climate_on with no settings to resume fails.
ActClimate(r) ==
    /\ Acting(r, "climate")
    /\ LET to == Current(r).to IN
         IF to = "on" /\ (climate = Nil \/ ~climate.settings) THEN Pass(r)
         ELSE run' = [run EXCEPT ![r].order = IF to = "toggle" THEN (IF IsOn THEN "off" ELSE "on") ELSE to,
                                 ![r].toggles = (to = "toggle"),
                                 ![r].blind = (IsOn # ac)]
    /\ UNCHANGED <<blaster, Rest, switch>>

ActSend(r) ==
    /\ run[r] # Nil /\ ~run[r].sent
    /\ \/ run[r].order # Nil /\ Current(r).what = "climate" /\ Ask(r, "climate", run[r].order)
       \/ Acting(r, "code") /\ Ask(r, "send", Current(r).to)
    /\ run' = [run EXCEPT ![r].sent = TRUE]
    /\ UNCHANGED <<Rest, switch>>

ActSent(r) ==
    /\ run[r] # Nil /\ run[r].sent
    /\ Free(r)
    /\ Pass(r)
    /\ UNCHANGED <<blaster, Rest, switch>>

\* A job that panics takes its key's task, the presses behind it and its call with it.
Panic(x) ==
    /\ run[x] # Nil
    /\ panics < MaxPanics
    /\ panics' = panics + 1
    /\ run' = [run EXCEPT ![x] = Nil]
    /\ chan' = [chan EXCEPT ![x] = Nil]
    /\ IF call[x].at \in Busy THEN Abandon(x) /\ UNCHANGED drops ELSE UNCHANGED blaster
    /\ UNCHANGED <<keymap, scenes, pressed, event, queue, switch, presses, calls>>

-----------------------------------------------------------------------------
(* Requests.                                                               *)

Called == calls < MaxCalls /\ calls' = calls + 1
RestCalled == <<keymap, scenes, pressed, event, queue, chan, presses, panics>>

\* POST /test, POST /scenes/{id}/run.
RunNow(q, actions) ==
    /\ Called
    /\ run[q] = Nil /\ Free(q)
    /\ run' = [run EXCEPT ![q] = Going(Runs(actions))]
    /\ UNCHANGED <<blaster, RestCalled, switch>>

RunScene(q, s) == scenes[s] # Nil /\ RunNow(q, scenes[s])

\* The routes of routes/broadlink.rs.
CallBlaster(q, op, cmd) ==
    /\ Called
    /\ run[q] = Nil
    /\ Ask(q, op, cmd)
    /\ UNCHANGED <<RestCalled, run, switch>>

\* PUT and DELETE of a binding or a scene; the save is SavedState's subject.  `checked` refuses
\* a scene inside a scene, which only a file written by hand can hold.
SetBinding(k, b) ==
    /\ Called
    /\ keymap[k] # b
    /\ keymap' = [keymap EXCEPT ![k] = b]
    /\ UNCHANGED <<blaster, scenes, pressed, event, queue, chan, run, switch, presses, panics>>

PutScene(s, actions) ==
    /\ Called
    /\ scenes[s] # actions
    /\ actions # Nil => \A i \in DOMAIN actions : actions[i].what # "scene"
    /\ scenes' = [scenes EXCEPT ![s] = actions]
    /\ UNCHANGED <<blaster, keymap, pressed, event, queue, chan, run, switch, presses, panics>>

\* The time limit of a request, at a call of the blaster.
DropRequest(q) ==
    /\ Drop(q)
    /\ run' = [run EXCEPT ![q] = Nil]
    /\ UNCHANGED <<Rest, switch>>

-----------------------------------------------------------------------------

\* An order that others sent, or one left by a dropped call, reaches the air conditioner while a
\* runner has decided and not sent.
Source(r) == IF r \in Chan THEN chan[r].key ELSE r
Crossed(t) ==
    run' = [r \in Runner |->
              IF /\ run[r] # Nil /\ run[r].order # Nil
                 /\ t.tie = "waited" => run[t.by] = Nil \/ Source(r) # Source(t.by)
              THEN [run[r] EXCEPT !.crossed = TRUE] ELSE run[r]]

Calls(c) == Serves(c) /\ UNCHANGED <<run, Rest, switch>>

Threads ==
    \E t \in threads :
      /\ \/ ThreadFails(t) /\ IF ac' = ac THEN UNCHANGED run ELSE Crossed(t)
         \/ ThreadEnds(t) /\ IF t.op \in {"climate", "send"} THEN Crossed(t) ELSE UNCHANGED run
      /\ UNCHANGED <<Rest, switch>>

Acts(r) ==
    \/ ActScene(r) \/ ActOrder(r) \/ ActResolve(r) \/ ActSwitch(r) \/ ActClimate(r) \/ ActSend(r) \/ ActSent(r)

Next ==
    \/ \E e \in Event : Phantom(e) \/ Fire(e) \/ \E k \in Key, kind \in {"press", "repeat"} : Receive(e, k, kind)
    \/ \E x \in Chan : Take(x) \/ Panic(x)
    \/ \E r \in Runner : Acts(r)
    \/ \E c \in Caller : Calls(c)
    \/ Threads
    \/ \E q \in Req :
         \/ \E b \in Binding : RunNow(q, b.actions)
         \/ \E s \in Scene : RunScene(q, s)
         \/ \E op \in Op, cmd \in State \cup Code \cup {Nil} :
              /\ (cmd = Nil) = (op \in {"discover", "refresh", "provision", "learn"})
              /\ op = "send" => cmd \in Code
              /\ CallBlaster(q, op, cmd)
         \/ DropRequest(q)
    \/ \E k \in Key, b \in Binding \cup {Nil} : SetBinding(k, b)
    \/ \E s \in Scene, actions \in SceneActions \cup {Nil} : PutScene(s, actions)

\* Tokio polls every task that can go on; its Mutex is a fair queue, so who waits for the blaster
\* gets it in the end; the library's own time limits end every thread.
Fairness ==
    /\ \A x \in Chan : WF_vars(Take(x) \/ Acts(x)) /\ SF_vars(Calls(x))
    /\ WF_vars(Threads)

Spec == Init /\ [][Next]_vars /\ Fairness

-----------------------------------------------------------------------------
(* Properties.                                                             *)

\* A toggle that reaches the air conditioner flips it, unless what it read was already untrue or
\* someone else's order came in between: two presses of one key never read the same state
\* (ir.rs:517-520, 424-435).
TogglesFlip ==
    [][\A t \in threads \ threads' :
         /\ t.op = "climate" /\ t.tie = "waited" /\ run[t.by] # Nil /\ run[t.by].toggles
         /\ call'[t.by].at = "recording"
         => ac' # ac \/ run[t.by].blind \/ run[t.by].crossed]_vars

\* Whatever a learning, a dropped call or a slow binding holds up, a key's waiting presses are
\* run, or dropped with a task that panicked.
KeysServed == \A x \in Chan : chan[x] # Nil /\ chan[x].jobs # <<>> ~> chan[x] = Nil \/ chan[x].jobs = <<>>

=============================================================================
