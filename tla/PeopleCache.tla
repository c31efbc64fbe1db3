---------------------------- MODULE PeopleCache -----------------------------
(***************************************************************************)
(* People::read and People::edit of backend/src/people.rs: the book is     *)
(* cached with the file's stamp (modified, length) and read again only     *)
(* when the stamp changed, while another process (`maison-backend invite`) *)
(* replaces the file under the OS lock and an edit whose request was       *)
(* dropped goes on alone on its blocking thread.                           *)
(*                                                                         *)
(* A version of the file stands for its content, numbered in the order the *)
(* files were put in place.  Every version has its own stamp (README: what *)
(* that assumes of the clock), so a stamp is the number of its version.    *)
(***************************************************************************)
EXTENDS Naturals

CONSTANTS
    Task,     \* tasks of the service
    Cli,      \* runs of the command line
    Nil,
    MaxVer    \* bound on the number of edits

Editor == Task \cup Cli
Ver == 0 .. MaxVer

VARIABLES
    disk,     \* the version in place
    cache,    \* the cached version and the stamp kept with it; Nil before the first read
    mutex,    \* which task holds the cache's lock
    lock,     \* who holds the OS lock on the file
    pc,       \* where each task is
    job,      \* where each edit on a blocking thread, or of a CLI, is
    stamped,  \* the stamp a task or a job read
    held,     \* the version an edit's closure hands back
    asked,    \* the version in place when the task asked
    got       \* the version the task was answered from (Nil: none yet)

vars == <<disk, cache, mutex, lock, pc, job, stamped, held, asked, got>>

CacheRec == [stamp : Ver, ver : Ver]

TypeOK ==
    /\ disk \in Ver
    /\ cache \in CacheRec \cup {Nil}
    /\ mutex \in Task \cup {Nil}
    /\ lock \in Editor \cup {Nil}
    /\ pc \in [Task -> {"idle", "reading", "loading", "editing", "edited"}]
    /\ job \in [Editor -> {"none", "locking", "writing", "stamping", "done"}]
    /\ stamped \in [Editor -> Ver]
    /\ held \in [Editor -> Ver]
    /\ asked \in [Task -> Ver]
    /\ got \in [Task -> Ver \cup {Nil}]

Init ==
    /\ disk = 0
    /\ cache = Nil
    /\ mutex = Nil
    /\ lock = Nil
    /\ pc = [t \in Task |-> "idle"]
    /\ job = [p \in Editor |-> "none"]
    /\ stamped = [p \in Editor |-> 0]
    /\ held = [p \in Editor |-> 0]
    /\ asked = [t \in Task |-> 0]
    /\ got = [t \in Task |-> Nil]

Goto(t, there) == pc' = [pc EXCEPT ![t] = there]
JobGoto(p, there) == job' = [job EXCEPT ![p] = there]

-----------------------------------------------------------------------------
(* `read`                                                                  *)

ReadStart(t) ==
    /\ pc[t] = "idle" /\ job[t] = "none"
    /\ asked' = [asked EXCEPT ![t] = disk]
    /\ got' = [got EXCEPT ![t] = Nil]
    /\ Goto(t, "reading")
    /\ UNCHANGED <<disk, cache, mutex, lock, job, stamped, held>>

\* The lock and the stamp; the cache answers when it was made under this stamp.
ReadStamp(t) ==
    /\ pc[t] = "reading"
    /\ mutex = Nil
    /\ IF cache # Nil /\ cache.stamp = disk
       THEN /\ got' = [got EXCEPT ![t] = cache.ver]
            /\ Goto(t, "idle")
            /\ UNCHANGED <<mutex, stamped>>
       ELSE /\ mutex' = t
            /\ stamped' = [stamped EXCEPT ![t] = disk]
            /\ Goto(t, "loading")
            /\ UNCHANGED got
    /\ UNCHANGED <<disk, cache, lock, job, held, asked>>

\* Mutant: the stamp kept is the one the file has once it was read.
ReadLoadLate(t) ==
    /\ pc[t] = "loading"
    /\ cache' = [stamp |-> disk, ver |-> stamped[t]]
    /\ got' = [got EXCEPT ![t] = stamped[t]]
    /\ mutex' = Nil
    /\ Goto(t, "idle")
    /\ UNCHANGED <<disk, lock, job, stamped, held, asked>>

\* The file, maybe newer than the stamp: kept with the older stamp.
ReadLoad(t) ==
    /\ pc[t] = "loading"
    /\ cache' = [stamp |-> stamped[t], ver |-> disk]
    /\ got' = [got EXCEPT ![t] = disk]
    /\ mutex' = Nil
    /\ Goto(t, "idle")
    /\ UNCHANGED <<disk, lock, job, stamped, held, asked>>

-----------------------------------------------------------------------------
(* `edit`                                                                  *)

\* The cache's lock, then the closure goes to a blocking thread.
EditStart(t) ==
    /\ pc[t] = "idle" /\ job[t] = "none"
    /\ mutex = Nil
    /\ mutex' = t
    /\ asked' = [asked EXCEPT ![t] = disk]
    /\ got' = [got EXCEPT ![t] = Nil]
    /\ Goto(t, "editing")
    /\ JobGoto(t, "locking")
    /\ UNCHANGED <<disk, cache, lock, stamped, held>>

CliStart(c) ==
    /\ job[c] = "none"
    /\ JobGoto(c, "locking")
    /\ UNCHANGED <<disk, cache, mutex, lock, pc, stamped, held, asked, got>>

JobLock(p) ==
    /\ job[p] = "locking"
    /\ lock = Nil
    /\ lock' = p
    /\ JobGoto(p, "writing")
    /\ UNCHANGED <<disk, cache, mutex, pc, stamped, held, asked, got>>

\* Read, changed, written back.
JobWrite(p) ==
    /\ job[p] = "writing"
    /\ disk < MaxVer
    /\ disk' = disk + 1
    /\ held' = [held EXCEPT ![p] = disk + 1]
    /\ JobGoto(p, "stamping")
    /\ UNCHANGED <<cache, mutex, lock, pc, stamped, asked, got>>

\* The closure finds nothing to change.
JobSkip(p) ==
    /\ job[p] = "writing"
    /\ held' = [held EXCEPT ![p] = disk]
    /\ JobGoto(p, "stamping")
    /\ UNCHANGED <<disk, cache, mutex, lock, pc, stamped, asked, got>>

\* The OS lock could not be had, the file not read or not written.
JobFail(p) ==
    /\ job[p] \in {"locking", "writing"}
    /\ lock' = IF lock = p THEN Nil ELSE lock
    /\ JobGoto(p, "none")
    /\ pc' = [t \in Task |-> IF t = p THEN "idle" ELSE pc[t]]
    /\ mutex' = IF mutex = p THEN Nil ELSE mutex
    /\ UNCHANGED <<disk, cache, stamped, held, asked, got>>

\* The stamp, still under the OS lock, which goes.
JobStamp(p) ==
    /\ job[p] = "stamping"
    /\ stamped' = [stamped EXCEPT ![p] = disk]
    /\ lock' = Nil
    /\ JobGoto(p, IF p \in Task /\ pc[p] = "editing" THEN "done" ELSE "none")
    /\ UNCHANGED <<disk, cache, mutex, pc, held, asked, got>>

\* The task wakes: the edited book is the cache.
EditDone(t) ==
    /\ pc[t] = "editing" /\ job[t] = "done"
    /\ cache' = [stamp |-> stamped[t], ver |-> held[t]]
    /\ got' = [got EXCEPT ![t] = held[t]]
    /\ mutex' = Nil
    /\ JobGoto(t, "none")
    /\ Goto(t, "idle")
    /\ UNCHANGED <<disk, lock, stamped, held, asked>>

\* The request is dropped: the cache's lock goes, the closure goes on, the cache is not told.
Cancel(t) ==
    /\ pc[t] \in {"reading", "editing"}
    /\ mutex' = IF mutex = t THEN Nil ELSE mutex
    /\ Goto(t, "idle")
    /\ job' = [job EXCEPT ![t] = IF @ = "done" THEN "none" ELSE @]
    /\ UNCHANGED <<disk, cache, lock, stamped, held, asked, got>>

Next ==
    \/ \E t \in Task : \/ ReadStart(t)
                       \/ ReadStamp(t)
                       \/ ReadLoad(t)
                       \/ EditStart(t)
                       \/ EditDone(t)
                       \/ Cancel(t)
    \/ \E c \in Cli : CliStart(c)
    \/ \E p \in Editor : \/ JobLock(p)
                       \/ JobWrite(p)
                       \/ JobSkip(p)
                       \/ JobFail(p)
                       \/ JobStamp(p)

Spec == Init /\ [][Next]_vars

-----------------------------------------------------------------------------
(* Properties.                                                             *)

\* A request is never answered from a book older than the file was when it asked, whoever
\* replaced it (people.rs:5 "The file is the truth, read on every use").
ReadsAreFresh == \A t \in Task : got[t] # Nil => got[t] >= asked[t]

=============================================================================
