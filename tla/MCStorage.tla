----------------------------- MODULE MCStorage ------------------------------
(***************************************************************************)
(* What the service keeps, as four machines that share nothing, one to a   *)
(* behaviour: one edit of a file step by step (StateFile), a state kept in *)
(* memory and saved (SavedState), the cache of the people's file           *)
(* (PeopleCache), what is in memory only for signing in (SignInLimits).    *)
(* The processes of the first are the tasks and the visits of the others.  *)
(***************************************************************************)
EXTENDS StateFile, TLC

CONSTANTS Cli, MaxVer, Home, Host, Ttl, Cap, PerAddress, Attempts, Starts, Window, Parts

\* The command lines are other processes than the service's tasks; a window admits one attempt,
\* the list one ceremony.
ASSUME StorageAssumption ==
    /\ Cli \cap Proc = {} /\ Nil \notin Cli
    /\ MaxVer \in Nat
    /\ IsFiniteSet(Proc) /\ Nil \notin Home /\ Nil \notin [home : Home, host : Host]
    /\ Attempts \in Nat \ {0} /\ Starts \in Nat \ {0}
    /\ Window \in Nat \ {0} /\ Cap \in Nat \ {0} /\ PerAddress \in Nat \ {0}

VARIABLES
    part,
    how, mem, disk, written, holder, at, change, copy, flying, answered, unsaved, dropped,
    version, cache, mutex, osLock, step, job, stamped, held, asked, got,
    kept, failed, started, visit, crowded

Kept == INSTANCE SavedState WITH Task <- Proc, pc <- at, mine <- change, acked <- answered
Book == INSTANCE PeopleCache WITH Task <- Proc, disk <- version, lock <- osLock, pc <- step
Limits == INSTANCE SignInLimits WITH Visit <- Proc

keptVars == <<how, mem, disk, written, holder, at, change, copy, flying, answered, unsaved, dropped>>
bookVars == <<version, cache, mutex, osLock, step, job, stamped, held, asked, got>>
limitVars == <<kept, failed, started, visit, crowded>>

Interchangeable == Permutations(Proc) \cup Permutations(Edit)

\* The file at rest, with no edit named so that the edits stay interchangeable.
NoFile ==
    /\ file = Empty /\ past = {} /\ lock = Nil /\ acked = {} /\ safe = {}
    /\ pc = [p \in Proc |-> "idle"] /\ mine = [p \in Proc |-> Nil] /\ tmp = [p \in Proc |-> Empty]

\* A part that does not move starts in one state only.
MCInit ==
    /\ part \in Parts
    /\ IF part = "file" THEN Init ELSE NoFile
    /\ Kept!Init /\ (part # "kept" => how = "disk")
    /\ Book!Init
    /\ Limits!LimitsInit

MCNext ==
    /\ UNCHANGED part
    /\ \/ part = "file" /\ Next /\ UNCHANGED <<keptVars, bookVars, limitVars>>
       \/ part = "kept" /\ Kept!Next /\ UNCHANGED <<vars, bookVars, limitVars>>
       \/ part = "book" /\ Book!Next /\ UNCHANGED <<vars, keptVars, limitVars>>
       \/ part = "limits" /\ Limits!LimitsNext /\ UNCHANGED <<vars, keptVars, bookVars>>

MCSpec == MCInit /\ [][MCNext]_<<part, vars, keptVars, bookVars, limitVars>>

-----------------------------------------------------------------------------
\* What was answered Ok is in memory, and in the file unless a save failed or a request was
\* dropped (json_config.rs, lamps.rs, auth.rs): SavedState.
AckedIsKept == Kept!AckedIsKept

\* What lamps.rs:80-82 and auth.rs:230 say of a restart: SavedState.
RestartKeepsAll == Kept!RestartKeepsAll

\* Nobody is answered from a book older than the file was when they asked (people.rs): PeopleCache.
ReadsAreFresh == Book!ReadsAreFresh

\* Nobody is refused or evicted for what others did (passkey.rs): SignInLimits.
LimitsAreOwn == Limits!LimitsAreOwn

=============================================================================
