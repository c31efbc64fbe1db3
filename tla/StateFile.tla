----------------------------- MODULE StateFile ------------------------------
(***************************************************************************)
(* backend/src/store.rs: `locked` around a read-modify-write that ends in  *)
(* `write_bytes`, step by step, by several processes (the service's        *)
(* blocking threads, `maison-backend invite`), with the errors, kills and  *)
(* power cuts it is written for.                                           *)
(*                                                                         *)
(* A file is its content (the set of edits it contains) and whether its    *)
(* bytes have reached the disk.  `past` holds the files the directory may  *)
(* still name on disk: those replaced since its last fsync.                *)
(***************************************************************************)
EXTENDS Naturals, FiniteSets

CONSTANTS
    Proc,   \* threads and processes that edit the file
    Edit,   \* edits, each made at most once
    Nil     \* nobody holds the lock

ASSUME StateFileAssumption ==
    Nil \notin Proc

VARIABLES
    file,    \* the file the directory names now
    past,    \* what else it may name after a power cut
    lock,    \* who holds the OS lock on <file>.lock
    pc,      \* where each process is
    mine,    \* the edit it makes
    tmp,     \* its temporary file
    acked,   \* history: edits answered Ok
    safe     \* history: edits in the file when the directory was last synced

vars == <<file, past, lock, pc, mine, tmp, acked, safe>>

\* torn: no reader can parse it.  synced: fsynced since it was written.
FileRec == [data : SUBSET Edit, torn : BOOLEAN, synced : BOOLEAN]

\* A missing file reads as the default.
Empty == [data |-> {}, torn |-> FALSE, synced |-> TRUE]

PC == {"idle", "locking", "reading", "writing", "syncing", "renaming", "dirsyncing", "failed", "unlocking"}

TypeOK ==
    /\ file \in FileRec
    /\ past \subseteq FileRec
    /\ lock \in Proc \cup {Nil}
    /\ pc \in [Proc -> PC]
    /\ mine \in [Proc -> Edit]
    /\ tmp \in [Proc -> FileRec]
    /\ acked \subseteq Edit
    /\ safe \subseteq Edit

Init ==
    /\ file = Empty
    /\ past = {}
    /\ lock = Nil
    /\ pc = [p \in Proc |-> "idle"]
    /\ mine \in [Proc -> Edit]
    /\ tmp = [p \in Proc |-> Empty]
    /\ acked = {}
    /\ safe = {}

-----------------------------------------------------------------------------

At(p, here) == pc[p] = here
Goto(p, there) == pc' = [pc EXCEPT ![p] = there]

\* An edit is asked for: the lock file is opened (or made).
Open(p, e) ==
    /\ At(p, "idle")
    /\ mine' = [mine EXCEPT ![p] = e]
    /\ Goto(p, "locking")
    /\ UNCHANGED <<file, past, lock, tmp, acked, safe>>

\* Mutant: the lock is taken to be shared.
LockShared(p) ==
    /\ At(p, "locking")
    /\ lock' = p
    /\ Goto(p, "reading")
    /\ UNCHANGED <<file, past, mine, tmp, acked, safe>>

Lock(p) ==
    /\ At(p, "locking")
    /\ lock = Nil
    /\ lock' = p
    /\ Goto(p, "reading")
    /\ UNCHANGED <<file, past, mine, tmp, acked, safe>>

\* `read_json` with Corrupt::Fail, then the edit in memory; a torn file is an error.
Read(p) ==
    /\ At(p, "reading")
    /\ IF file.torn
       THEN Goto(p, "failed") /\ UNCHANGED tmp
       ELSE /\ tmp' = [tmp EXCEPT ![p] = [data |-> file.data \cup {mine[p]}, torn |-> FALSE, synced |-> FALSE]]
            /\ Goto(p, "writing")
    /\ UNCHANGED <<file, past, lock, mine, acked, safe>>

\* The edit finds nothing to change: no write, an Ok answer all the same.
ReadUnchanged(p) ==
    /\ At(p, "reading")
    /\ ~file.torn
    /\ mine[p] \in file.data
    /\ Goto(p, "unlocking")
    /\ UNCHANGED <<file, past, lock, mine, tmp, acked, safe>>

\* The temporary file is created and written: its bytes are in the page cache.
Write(p) ==
    /\ At(p, "writing")
    /\ Goto(p, "syncing")
    /\ UNCHANGED <<file, past, lock, mine, tmp, acked, safe>>

\* Mutant: renamed without an fsync.
SyncSkipped(p) ==
    /\ At(p, "syncing")
    /\ Goto(p, "renaming")
    /\ UNCHANGED <<file, past, lock, mine, tmp, acked, safe>>

Sync(p) ==
    /\ At(p, "syncing")
    /\ tmp' = [tmp EXCEPT ![p].synced = TRUE]
    /\ Goto(p, "renaming")
    /\ UNCHANGED <<file, past, lock, mine, acked, safe>>

\* Any of creating, writing, syncing, giving the owner back, renaming fails: the temporary
\* file goes, the error is returned.
Fail(p) ==
    /\ pc[p] \in {"writing", "syncing", "renaming"}
    /\ Goto(p, "failed")
    /\ UNCHANGED <<file, past, lock, mine, tmp, acked, safe>>

Rename(p) ==
    /\ At(p, "renaming")
    /\ past' = past \cup {file}
    /\ file' = tmp[p]
    /\ Goto(p, "dirsyncing")
    /\ UNCHANGED <<lock, mine, tmp, acked, safe>>

\* Mutant: the directory is taken to be synced whether it was or not.
DirSyncAssumed(p) ==
    /\ At(p, "dirsyncing")
    /\ Goto(p, "unlocking")
    /\ safe' = file.data
    /\ UNCHANGED <<file, past, lock, mine, tmp, acked>>

DirSync(p) ==
    /\ At(p, "dirsyncing")
    /\ past' = {}
    /\ safe' = file.data
    /\ Goto(p, "unlocking")
    /\ UNCHANGED <<file, lock, mine, tmp, acked>>

\* `let _ = d.sync_all()`: a directory that cannot be opened or synced is no error.
DirSyncFails(p) ==
    /\ At(p, "dirsyncing")
    /\ Goto(p, "unlocking")
    /\ UNCHANGED <<file, past, lock, mine, tmp, acked, safe>>

Answer(p) ==
    /\ pc[p] \in {"unlocking", "failed"}
    /\ lock' = Nil
    /\ acked' = IF pc[p] = "unlocking" THEN acked \cup {mine[p]} ELSE acked
    /\ Goto(p, "idle")
    /\ UNCHANGED <<file, past, mine, tmp, safe>>

\* The process dies (a deploy, the OOM killer): the kernel drops its lock, a temporary file stays.
Kill(p) ==
    /\ pc[p] # "idle"
    /\ lock' = IF lock = p THEN Nil ELSE lock
    /\ Goto(p, "idle")
    /\ UNCHANGED <<file, past, mine, tmp, acked, safe>>

\* What may be read of f after a power cut: all of it or, if it was not synced, a part.
Found(f) == {[f EXCEPT !.synced = TRUE]}
            \cup (IF f.synced THEN {} ELSE {[data |-> {}, torn |-> TRUE, synced |-> TRUE]})

\* The directory names the file or one it replaced since its last fsync.
PowerCut ==
    /\ file' \in UNION {Found(f) : f \in past \cup {file}}
    /\ past' = {}
    /\ lock' = Nil
    /\ pc' = [p \in Proc |-> "idle"]
    /\ acked' = acked \cap file'.data
    /\ UNCHANGED <<mine, tmp, safe>>

Next ==
    \/ \E p \in Proc : \/ \E e \in Edit : Open(p, e)
                       \/ Lock(p)
                       \/ Read(p)
                       \/ ReadUnchanged(p)
                       \/ Write(p)
                       \/ Sync(p)
                       \/ Fail(p)
                       \/ Rename(p)
                       \/ DirSync(p)
                       \/ DirSyncFails(p)
                       \/ Answer(p)
                       \/ Kill(p)
    \/ PowerCut

Spec == Init /\ [][Next]_vars

-----------------------------------------------------------------------------
(* Properties.                                                             *)

\* A reader never finds a file it cannot parse, power cuts included (store.rs:3-9).
NeverTorn == ~file.torn

\* An edit answered Ok is in the file, until a power cut takes it: no edit of another process,
\* no kill between two steps undoes it.
NoLostUpdate == acked \subseteq file.data

\* What a synced directory held survives any power cut.
SafeSurvives == safe \subseteq file.data

\* Why these hold.  Whoever is past `lock` holds it, so no two edits overlap; what is about to
\* be renamed contains the file it replaces; nothing unsynced is ever named by the directory;
\* every file the directory may name on disk holds what its last fsync made safe.
Working == {"reading", "writing", "syncing", "renaming", "dirsyncing", "failed", "unlocking"}

Overlapless == \A p \in Proc : pc[p] \in Working => lock = p

Prepared ==
    \A p \in Proc : pc[p] \in {"writing", "syncing", "renaming"} =>
        /\ tmp[p].data = file.data \cup {mine[p]}
        /\ ~tmp[p].torn
        /\ pc[p] = "renaming" => tmp[p].synced

InPlace == \A p \in Proc : pc[p] \in {"dirsyncing", "unlocking"} => mine[p] \in file.data

Durable == \A f \in past \cup {file} : f.synced /\ ~f.torn /\ safe \subseteq f.data

Inv ==
    /\ TypeOK
    /\ Overlapless
    /\ Prepared
    /\ InPlace
    /\ Durable
    /\ NoLostUpdate

\* The file as AtomicFile sees it.
Abstract == INSTANCE AtomicFile WITH
                content  <- file.data,
                versions <- {f.data : f \in past \cup {file}}

\* Editing step by step under the lock is editing atomically.
Atomic == Abstract!Spec

=============================================================================
