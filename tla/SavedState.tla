----------------------------- MODULE SavedState -----------------------------
(***************************************************************************)
(* State the service keeps in memory and in a file: an async lock, a       *)
(* change, and `store::write_json_async`, which writes a copy taken under  *)
(* the lock on a blocking thread.  Three disciplines are in use:           *)
(*   "disk"      saved first, then kept: JsonConfig::update, scenes,       *)
(*               the IR keymap;                                            *)
(*   "memory"    kept first, a failed save is only logged: the refresh     *)
(*               tokens, the climate's last command;                       *)
(*   "snapshot"  changed elsewhere, then the store's lock is taken, a copy *)
(*               made, and written if it differs from the last: the lamps. *)
(*                                                                         *)
(* A blocking thread cannot be cancelled: when the task that waits for it  *)
(* is dropped (TimeoutLayer, a client that hangs up) the lock is released  *)
(* and the write goes on alone.  The state is the set of changes in it.    *)
(***************************************************************************)
EXTENDS Naturals

CONSTANTS
    Task,         \* tasks that change the state
    Edit,         \* changes
    Nil

Discipline == {"disk", "memory", "snapshot"}

VARIABLES
    how,       \* the discipline of this file, for good
    mem,       \* the state in memory
    disk,      \* the state in the file
    written,   \* what the store remembers writing last ("snapshot")
    holder,    \* who holds the lock
    pc, mine,
    copy,      \* the copy each task has written
    flying,    \* writes on blocking threads: whose, and of what
    acked,     \* history: changes answered Ok
    unsaved,   \* history: a save failed since the start
    dropped    \* history: a task was dropped between its change and its answer since the start

vars == <<how, mem, disk, written, holder, pc, mine, copy, flying, acked, unsaved, dropped>>

State == SUBSET Edit

TypeOK ==
    /\ how \in Discipline
    /\ mem \in State /\ disk \in State /\ written \in State
    /\ holder \in Task \cup {Nil}
    /\ pc \in [Task -> {"idle", "waiting", "saving", "saved", "failed"}]
    /\ mine \in [Task -> Edit \cup {Nil}]
    /\ copy \in [Task -> State]
    /\ flying \subseteq [task : Task \cup {Nil}, data : State]
    /\ acked \subseteq Edit
    /\ unsaved \in BOOLEAN
    /\ dropped \in BOOLEAN

Init ==
    /\ how \in Discipline
    /\ mem = {} /\ disk = {} /\ written = {}
    /\ holder = Nil
    /\ pc = [t \in Task |-> "idle"]
    /\ mine = [t \in Task |-> Nil]
    /\ copy = [t \in Task |-> {}]
    /\ flying = {}
    /\ acked = {}
    /\ unsaved = FALSE
    /\ dropped = FALSE

-----------------------------------------------------------------------------

Goto(t, there) == pc' = [pc EXCEPT ![t] = there]

\* A change is asked for.  A lamp's is made at once, before the store's lock.
Begin(t, e) ==
    /\ pc[t] = "idle"
    /\ e \notin mem
    /\ mine' = [mine EXCEPT ![t] = e]
    /\ copy' = [copy EXCEPT ![t] = mem \cup {e}]
    /\ mem' = IF how = "snapshot" THEN mem \cup {e} ELSE mem
    /\ Goto(t, "waiting")
    /\ UNCHANGED <<how, disk, written, holder, flying, acked, unsaved, dropped>>

\* What is written: the state under the lock, with the change.
Copied(t) == IF how = "snapshot" THEN mem ELSE mem \cup {mine[t]}

\* Mutant: the lock is let go before the write.
SaveUnlocked(t) ==
    /\ pc[t] = "waiting"
    /\ holder = Nil
    /\ ~(how = "snapshot" /\ mem = written)
    /\ copy' = [copy EXCEPT ![t] = Copied(t)]
    /\ mem' = IF how = "memory" THEN Copied(t) ELSE mem
    /\ flying' = flying \cup {[task |-> t, data |-> Copied(t)]}
    /\ Goto(t, "saving")
    /\ UNCHANGED <<how, disk, written, holder, mine, acked, unsaved, dropped>>

\* The lock, the change and the copy in one breath; the write starts.
Save(t) ==
    /\ pc[t] = "waiting"
    /\ holder = Nil
    /\ ~(how = "snapshot" /\ mem = written)
    /\ holder' = t
    /\ copy' = [copy EXCEPT ![t] = Copied(t)]
    /\ mem' = IF how = "memory" THEN Copied(t) ELSE mem
    /\ flying' = flying \cup {[task |-> t, data |-> Copied(t)]}
    /\ Goto(t, "saving")
    /\ UNCHANGED <<how, disk, written, mine, acked, unsaved, dropped>>

\* `save_lamps` finds its copy to be the last one written: no write.
SaveUnchanged(t) ==
    /\ pc[t] = "waiting"
    /\ holder = Nil
    /\ how = "snapshot" /\ mem = written
    /\ acked' = acked \cup {mine[t]}
    /\ Goto(t, "idle")
    /\ UNCHANGED <<how, mem, disk, written, holder, mine, copy, flying, unsaved, dropped>>

\* A blocking write ends (StateFile: whole or not at all) and tells its task, if it is still there.
Landed(w, result) ==
    /\ flying' = flying \ {w}
    /\ pc' = [t \in Task |-> IF t = w.task THEN result ELSE pc[t]]

WriteLands(w) ==
    /\ disk' = w.data
    /\ Landed(w, "saved")
    /\ UNCHANGED <<how, mem, written, holder, mine, copy, acked, unsaved, dropped>>

WriteFails(w) ==
    /\ Landed(w, "failed")
    /\ unsaved' = TRUE
    /\ UNCHANGED <<how, mem, disk, written, holder, mine, copy, acked, dropped>>

\* Kept after it was saved; answered; the lock goes.
Finish(t) ==
    /\ pc[t] = "saved"
    /\ mem' = IF how = "disk" THEN copy[t] ELSE mem
    /\ written' = copy[t]
    /\ acked' = acked \cup {mine[t]}
    /\ holder' = Nil
    /\ Goto(t, "idle")
    /\ UNCHANGED <<how, disk, mine, copy, flying, unsaved, dropped>>

\* The save failed: an error, or (kept first) a line in the log.
Fail(t) ==
    /\ pc[t] = "failed"
    /\ acked' = IF how = "memory" THEN acked \cup {mine[t]} ELSE acked
    /\ holder' = Nil
    /\ Goto(t, "idle")
    /\ UNCHANGED <<how, mem, disk, written, mine, copy, flying, unsaved, dropped>>

\* The task is dropped: its lock goes, its write stays.
Cancel(t) ==
    /\ pc[t] # "idle"
    /\ holder' = IF holder = t THEN Nil ELSE holder
    /\ flying' = {IF w.task = t THEN [w EXCEPT !.task = Nil] ELSE w : w \in flying}
    /\ dropped' = (dropped \/ pc[t] \in {"saving", "saved"} \/ how = "snapshot")
    /\ Goto(t, "idle")
    /\ UNCHANGED <<how, mem, disk, written, mine, copy, acked, unsaved>>

\* The process ends and starts again from the file.
Restart ==
    /\ mem' = disk /\ written' = disk
    /\ holder' = Nil
    /\ pc' = [t \in Task |-> "idle"]
    /\ flying' = {}
    /\ acked' = acked \cap disk
    /\ unsaved' = FALSE
    /\ dropped' = FALSE
    /\ UNCHANGED <<how, disk, mine, copy>>

Next ==
    \/ \E t \in Task : \/ \E e \in Edit : Begin(t, e)
                       \/ Save(t)
                       \/ SaveUnchanged(t)
                       \/ Finish(t)
                       \/ Fail(t)
                       \/ Cancel(t)
    \/ \E w \in flying : WriteLands(w) \/ WriteFails(w)
    \/ Restart

Spec == Init /\ [][Next]_vars

-----------------------------------------------------------------------------
(* Properties.                                                             *)

\* A change answered Ok stays in memory until the process ends, whatever other changes race with
\* it or are dropped half-way, and is in the file, so a restart keeps it, unless a save failed or
\* somebody was dropped half-way (json_config.rs:55-57).
AckedIsKept ==
    /\ acked \subseteq mem
    /\ unsaved \/ dropped \/ acked \subseteq disk

\* What lamps.rs:80-82 and auth.rs:230 say: the last write is the newest state, so a restart
\* keeps what was answered Ok.
RestartKeepsAll == unsaved \/ acked \subseteq disk

=============================================================================
