---------------------------- MODULE StorageProofs ----------------------------
(***************************************************************************)
(* What the service keeps, for any number of tasks, changes, versions,     *)
(* command lines and visits: one edit of a file implements an atomic one   *)
(* (StateFile), what is answered Ok is kept under each of the three        *)
(* disciplines (SavedState), nobody is answered from a book older than the *)
(* file was (PeopleCache), a window counts no more than it says, of nobody *)
(* else's attempts, and a full address loses only its own ceremonies       *)
(* (SignInLimits).                                                         *)
(***************************************************************************)
EXTENDS MCStorage, Sequences, FiniteSetTheorems, WellFoundedInduction, TLAPS

-----------------------------------------------------------------------------
(***************************************************************************)
(* One edit of a file, for any number of processes and edits: StateFile's  *)
(* Inv is inductive, the safety properties follow from it, and editing     *)
(* step by step under the lock implements AtomicFile.                      *)
(***************************************************************************)

\* A fresh file satisfies the invariant.
LEMMA InitInv == Init => Inv
  BY DEF Init, Inv, TypeOK, FileRec, Empty, PC, Working, Overlapless, Prepared, InPlace,
         Durable, NoLostUpdate

\* Every step of every process, a kill or a power cut between any two of them included,
\* preserves the invariant.
LEMMA NextInv == Inv /\ [Next]_vars => Inv'
  <1> USE StateFileAssumption DEF Inv, TypeOK, FileRec, Empty, PC, Working, At, Goto
  <1> SUFFICES ASSUME Inv, [Next]_vars PROVE Inv'
      OBVIOUS
  <1>1. ASSUME NEW p \in Proc, NEW e \in Edit, Open(p, e) PROVE Inv'
        BY <1>1 DEF Open, Overlapless, Prepared, InPlace, Durable, NoLostUpdate
  <1>2. ASSUME NEW p \in Proc, Lock(p) PROVE Inv'
        BY <1>2 DEF Lock, Overlapless, Prepared, InPlace, Durable, NoLostUpdate
  <1>3. ASSUME NEW p \in Proc, Read(p) PROVE Inv'
    <2>1. /\ tmp' = [tmp EXCEPT ![p] = [data |-> file.data \cup {mine[p]}, torn |-> FALSE, synced |-> FALSE]]
          /\ pc' = [pc EXCEPT ![p] = "writing"]
          BY <1>3 DEF Read, Durable
    <2>2. /\ UNCHANGED <<file, past, lock, mine, acked, safe>>
          /\ lock = p
          BY <1>3 DEF Read, Overlapless
    <2>3. tmp' \in [Proc -> FileRec]
          BY <2>1
    <2>4. Prepared' BY <2>1, <2>2 DEF Prepared
    <2> QED BY <2>1, <2>2, <2>3, <2>4 DEF Overlapless, InPlace, Durable, NoLostUpdate
  <1>4. ASSUME NEW p \in Proc, ReadUnchanged(p) PROVE Inv'
        BY <1>4 DEF ReadUnchanged, Overlapless, Prepared, InPlace, Durable, NoLostUpdate
  <1>5. ASSUME NEW p \in Proc, Write(p) PROVE Inv'
        BY <1>5 DEF Write, Overlapless, Prepared, InPlace, Durable, NoLostUpdate
  <1>6. ASSUME NEW p \in Proc, Sync(p) PROVE Inv'
        BY <1>6 DEF Sync, Overlapless, Prepared, InPlace, Durable, NoLostUpdate
  <1>7. ASSUME NEW p \in Proc, Fail(p) PROVE Inv'
        BY <1>7 DEF Fail, Overlapless, Prepared, InPlace, Durable, NoLostUpdate
  <1>8. ASSUME NEW p \in Proc, Rename(p) PROVE Inv'
    <2>1. TypeOK' BY <1>8 DEF Rename
    <2>2. Overlapless' BY <1>8 DEF Rename, Overlapless
    <2>3. file'.data = file.data \cup {mine[p]} /\ ~file'.torn /\ file'.synced
          BY <1>8 DEF Rename, Prepared
    <2>4. Prepared' BY <1>8 DEF Rename, Overlapless, Prepared
    <2>5. InPlace' BY <1>8, <2>3 DEF Rename, InPlace, Overlapless
    <2>6. Durable' BY <1>8, <2>3 DEF Rename, Durable
    <2>7. NoLostUpdate' BY <1>8, <2>3 DEF Rename, NoLostUpdate
    <2> QED BY <2>1, <2>2, <2>4, <2>5, <2>6, <2>7
  <1>9. ASSUME NEW p \in Proc, DirSync(p) PROVE Inv'
        BY <1>9 DEF DirSync, Overlapless, Prepared, InPlace, Durable, NoLostUpdate
  <1>10. ASSUME NEW p \in Proc, DirSyncFails(p) PROVE Inv'
        BY <1>10 DEF DirSyncFails, Overlapless, Prepared, InPlace, Durable, NoLostUpdate
  <1>11. ASSUME NEW p \in Proc, Answer(p) PROVE Inv'
        BY <1>11 DEF Answer, Overlapless, Prepared, InPlace, Durable, NoLostUpdate
  <1>12. ASSUME NEW p \in Proc, Kill(p) PROVE Inv'
        BY <1>12 DEF Kill, Overlapless, Prepared, InPlace, Durable, NoLostUpdate
  <1>13. CASE PowerCut
    <2>1. PICK f \in past \cup {file} : file' \in Found(f)
          BY <1>13 DEF PowerCut
    <2>2. f \in FileRec /\ f.synced /\ ~f.torn /\ safe \subseteq f.data
          BY DEF Durable
    <2>3. file' \in FileRec /\ file'.data = f.data /\ file'.synced /\ ~file'.torn
          BY <2>1, <2>2 DEF Found
    <2> QED
        BY <1>13, <2>2, <2>3 DEF PowerCut, Overlapless, Prepared, InPlace, Durable, NoLostUpdate
  <1>14. CASE UNCHANGED vars
        BY <1>14 DEF vars, Overlapless, Prepared, InPlace, Durable, NoLostUpdate
  <1> QED
      BY <1>1, <1>2, <1>3, <1>4, <1>5, <1>6, <1>7, <1>8, <1>9, <1>10, <1>11, <1>12, <1>13, <1>14
      DEF Next

\* The invariant holds in every reachable state.
THEOREM StateFileInv == Spec => []Inv
  BY InitInv, NextInv, PTL DEF Spec

\* No reader ever meets a torn file, power cuts included: `write_bytes` never renames what it
\* has not synced.
THEOREM ThNeverTorn == Spec => []NeverTorn
  <1>1. Inv => NeverTorn BY DEF Inv, Durable, NeverTorn
  <1> QED BY <1>1, StateFileInv, PTL

\* No acknowledged edit is undone by another process or a kill: `locked` spans the read, the
\* change and the write.
THEOREM ThNoLostUpdate == Spec => []NoLostUpdate
  <1>1. Inv => NoLostUpdate BY DEF Inv
  <1> QED BY <1>1, StateFileInv, PTL

\* What the directory's last fsync made safe survives every power cut.
THEOREM ThSafeSurvives == Spec => []SafeSurvives
  <1>1. Inv => SafeSurvives BY DEF Inv, Durable, SafeSurvives
  <1> QED BY <1>1, StateFileInv, PTL

\* Editing step by step under the lock is editing atomically.
THEOREM ThAtomic == Spec => Atomic
  <1> DEFINE content == file.data
             versions == {f.data : f \in past \cup {file}}
  <1>1. Init => content = {} /\ versions = {{}}
        BY DEF Init, Empty
  <1>2. Inv /\ [Next]_vars => [Abstract!Next]_<<content, versions>>
    <2> SUFFICES ASSUME Inv, [Next]_vars PROVE [Abstract!Next]_<<content, versions>>
        OBVIOUS
    <2>1. ASSUME NEW p \in Proc, Rename(p) PROVE Abstract!Commit(mine[p]) /\ mine[p] \in Edit
      <3>1. file'.data = file.data \cup {mine[p]} /\ past' = past \cup {file} /\ mine[p] \in Edit
            BY <2>1 DEF Rename, Inv, TypeOK, FileRec, Prepared, At
      <3>2. versions' = versions \cup {file'.data}
            BY <3>1
      <3> QED BY <3>1, <3>2 DEF Abstract!Commit
    <2>2. ASSUME NEW p \in Proc, DirSync(p) PROVE Abstract!Harden
          BY <2>2 DEF DirSync, Abstract!Harden
    <2>3. CASE PowerCut
      <3>1. PICK f \in past \cup {file} : file' \in Found(f)
            BY <2>3 DEF PowerCut
      <3>2. file'.data = f.data
            BY <3>1 DEF Found, Inv, TypeOK, Durable, FileRec
      <3>3. past' = {}
            BY <2>3 DEF PowerCut
      <3>4. versions' = {file'.data}
            BY <3>3
      <3> QED BY <3>2, <3>4 DEF Abstract!Cut, Abstract!Next
    <2>4. ASSUME NEW p \in Proc,
                 \/ \E e \in Edit : Open(p, e)
                 \/ Lock(p) \/ Read(p) \/ ReadUnchanged(p) \/ Write(p) \/ Sync(p) \/ Fail(p)
                 \/ DirSyncFails(p) \/ Answer(p) \/ Kill(p)
          PROVE UNCHANGED <<content, versions>>
      <3>1. file' = file /\ past' = past
          BY <2>4 DEF Open, Lock, Read, ReadUnchanged, Write, Sync, Fail, DirSyncFails, Answer, Kill
      <3> QED BY <3>1
    <2>5. CASE UNCHANGED vars
          BY <2>5 DEF vars
    <2>6. CASE \E p \in Proc : Rename(p)
      <3>1. PICK p \in Proc : Rename(p)
            BY <2>6
      <3>2. mine[p] \in Edit /\ Abstract!Commit(mine[p])
            BY <2>1, <3>1
      <3>3. \E e \in Edit : Abstract!Commit(e)
            BY <3>2 DEF Abstract!Commit
      <3> QED BY <3>3 DEF Abstract!Next
    <2>7. CASE \E p \in Proc : DirSync(p)
          BY <2>2, <2>7 DEF Abstract!Next
    <2> HIDE DEF content, versions
    <2> QED BY <2>3, <2>4, <2>5, <2>6, <2>7 DEF Next
  <1> QED BY <1>1, <1>2, StateFileInv, PTL DEF Spec, Atomic, Abstract!Spec, Abstract!Init

-----------------------------------------------------------------------------
(* A state kept in memory and saved.                                       *)

Busy == {"saving", "saved", "failed"}

\* Whoever is between the lock and the answer holds the lock, and so is alone.
LockKept == \A t \in Proc : holder = t <=> at[t] \in Busy

\* A write on a blocking thread is its task's copy, or its task was dropped.
WritesKept ==
    \A w \in flying : IF w.task \in Proc THEN at[w.task] = "saving" /\ w.data = copy[w.task]
                                         ELSE dropped

\* A change is in memory before the save, with it or after it.
ChangesKept ==
    \A t \in Proc :
      /\ at[t] # "idle" => change[t] \in Edit /\ (how = "snapshot" => change[t] \in mem)
      /\ at[t] \in Busy => /\ change[t] \in copy[t]
                           /\ answered \subseteq copy[t]
                           /\ how = "disk" => mem \subseteq copy[t]
                           /\ how # "disk" => copy[t] \subseteq mem

\* Unless a task was dropped: the file is the copy just saved; with no save to answer for, it is
\* what the store remembers writing.
DiskKept ==
    /\ \A t \in Proc : /\ at[t] = "failed" => unsaved
                       /\ at[t] = "saved" /\ ~dropped => disk = copy[t]
    /\ ~dropped /\ (\A t \in Proc : at[t] # "saved") => written = disk

KeptInv == Kept!TypeOK /\ LockKept /\ WritesKept /\ ChangesKept /\ DiskKept /\ Kept!AckedIsKept

\* The first state of a saved value: nothing is written, nobody holds the lock.
LEMMA KeptInit == Kept!Init => KeptInv
  BY StateFileAssumption
  DEF Kept!Init, KeptInv, Kept!TypeOK, Kept!State, Kept!Discipline, LockKept, WritesKept, ChangesKept, DiskKept,
      Kept!AckedIsKept, Busy

\* Every step keeps it, a dropped request and a restart included.
LEMMA KeptNext == KeptInv /\ Kept!Next => KeptInv'
  <1> USE StateFileAssumption
  <1> SUFFICES ASSUME KeptInv, Kept!Next PROVE KeptInv'
      OBVIOUS
  <1>0. /\ Kept!TypeOK /\ LockKept /\ WritesKept /\ ChangesKept /\ DiskKept /\ Kept!AckedIsKept
        BY DEF KeptInv
  <1>1. ASSUME NEW t \in Proc, NEW e \in Edit, Kept!Begin(t, e) PROVE KeptInv'
    <2> USE <1>0, <1>1 DEF Kept!Begin, Kept!Goto, Kept!TypeOK, Kept!State
    <2>1. Kept!TypeOK' OBVIOUS
    <2>2. LockKept' BY DEF LockKept, Busy
    <2>3. WritesKept' BY DEF WritesKept
    <2>4. ChangesKept' BY DEF ChangesKept, Busy
    <2>5. DiskKept' BY DEF DiskKept
    <2>6. Kept!AckedIsKept' BY DEF Kept!AckedIsKept
    <2> QED BY <2>1, <2>2, <2>3, <2>4, <2>5, <2>6 DEF KeptInv
  <1>2. ASSUME NEW t \in Proc, Kept!Save(t) PROVE KeptInv'
    <2> USE <1>0, <1>2 DEF Kept!Save, Kept!Goto, Kept!TypeOK, Kept!State
    <2>1. Kept!Copied(t) \in SUBSET Edit BY DEF Kept!Copied, ChangesKept
    <2>2. Kept!TypeOK' BY <2>1
    <2>3. LockKept' BY DEF LockKept, Busy
    <2>4. WritesKept' BY <2>1 DEF WritesKept, LockKept, Busy
    <2>5. ChangesKept'
      <3>1. mem \subseteq mem' /\ change' = change /\ answered' = answered /\ how' = how
            BY DEF Kept!Copied
      <3>2. /\ mem \subseteq copy'[t] /\ change[t] \in copy'[t]
            /\ how # "disk" => copy'[t] \subseteq mem'
        <4>1. copy'[t] = Kept!Copied(t) /\ at[t] # "idle"
              OBVIOUS
        <4>2. CASE how = "snapshot" BY <4>1, <4>2 DEF ChangesKept, Kept!Copied
        <4>3. CASE how # "snapshot" BY <4>1, <4>3 DEF Kept!Copied, Kept!Discipline
        <4> QED BY <4>2, <4>3
      <3>3. ASSUME NEW u \in Proc, u # t PROVE at'[u] = at[u] /\ at[u] \notin Busy
            BY <3>3 DEF LockKept
      <3> QED BY <3>1, <3>2, <3>3 DEF ChangesKept, Busy, Kept!AckedIsKept
    <2>6. DiskKept' BY DEF DiskKept
    <2>7. Kept!AckedIsKept' BY DEF Kept!AckedIsKept, Kept!Copied
    <2> QED BY <2>2, <2>3, <2>4, <2>5, <2>6, <2>7 DEF KeptInv
  <1>3. ASSUME NEW t \in Proc, Kept!SaveUnchanged(t) PROVE KeptInv'
    <2> USE <1>0, <1>3 DEF Kept!SaveUnchanged, Kept!Goto, Kept!TypeOK, Kept!State
    <2>1. Kept!TypeOK' BY DEF ChangesKept
    <2>2. LockKept' BY DEF LockKept, Busy
    <2>3. WritesKept' BY DEF WritesKept
    <2>4. ChangesKept' BY DEF ChangesKept, LockKept, Busy
    <2>5. DiskKept' BY DEF DiskKept
    <2>6. dropped \/ written = disk BY DEF DiskKept, LockKept, Busy
    <2>7. Kept!AckedIsKept' BY <2>6 DEF Kept!AckedIsKept, ChangesKept
    <2> QED BY <2>1, <2>2, <2>3, <2>4, <2>5, <2>7 DEF KeptInv
  <1>4. ASSUME NEW w \in flying, Kept!WriteLands(w) PROVE KeptInv'
    <2> USE <1>0, <1>4 DEF Kept!WriteLands, Kept!Landed, Kept!TypeOK, Kept!State
    <2>1. Kept!TypeOK' OBVIOUS
    <2>2. LockKept' BY DEF LockKept, WritesKept, Busy
    <2>3. WritesKept' BY DEF WritesKept, LockKept, Busy
    <2>4. ChangesKept' BY DEF ChangesKept, WritesKept, Busy
    <2>5. DiskKept' BY DEF DiskKept, WritesKept, LockKept, Busy
    <2>6. Kept!AckedIsKept' BY DEF Kept!AckedIsKept, WritesKept, ChangesKept, Busy
    <2> QED BY <2>1, <2>2, <2>3, <2>4, <2>5, <2>6 DEF KeptInv
  <1>5. ASSUME NEW w \in flying, Kept!WriteFails(w) PROVE KeptInv'
    <2> USE <1>0, <1>5 DEF Kept!WriteFails, Kept!Landed, Kept!TypeOK, Kept!State
    <2>1. Kept!TypeOK' OBVIOUS
    <2>2. LockKept' BY DEF LockKept, WritesKept, Busy
    <2>3. WritesKept' BY DEF WritesKept, LockKept, Busy
    <2>4. ChangesKept' BY DEF ChangesKept, WritesKept, Busy
    <2>5. DiskKept' BY DEF DiskKept, WritesKept, LockKept, Busy
    <2>6. Kept!AckedIsKept' BY DEF Kept!AckedIsKept
    <2> QED BY <2>1, <2>2, <2>3, <2>4, <2>5, <2>6 DEF KeptInv
  <1>6. ASSUME NEW t \in Proc, Kept!Finish(t) PROVE KeptInv'
    <2> USE <1>0, <1>6 DEF Kept!Finish, Kept!Goto, Kept!TypeOK, Kept!State
    <2>1. Kept!TypeOK' BY DEF ChangesKept
    <2>2. LockKept' BY DEF LockKept, Busy
    <2>3. WritesKept' BY DEF WritesKept
    <2>4. ChangesKept' BY DEF ChangesKept, LockKept, Busy
    <2>5. DiskKept' BY DEF DiskKept, LockKept, Busy
    <2>6. Kept!AckedIsKept' BY DEF Kept!AckedIsKept, ChangesKept, DiskKept, Busy
    <2> QED BY <2>1, <2>2, <2>3, <2>4, <2>5, <2>6 DEF KeptInv
  <1>7. ASSUME NEW t \in Proc, Kept!Fail(t) PROVE KeptInv'
    <2> USE <1>0, <1>7 DEF Kept!Fail, Kept!Goto, Kept!TypeOK, Kept!State
    <2>1. Kept!TypeOK' BY DEF ChangesKept
    <2>2. LockKept' BY DEF LockKept, Busy
    <2>3. WritesKept' BY DEF WritesKept
    <2>4. ChangesKept' BY DEF ChangesKept, LockKept, Busy
    <2>5. DiskKept' BY DEF DiskKept, LockKept, Busy
    <2>6. Kept!AckedIsKept' BY DEF Kept!AckedIsKept, ChangesKept, DiskKept, Busy
    <2> QED BY <2>1, <2>2, <2>3, <2>4, <2>5, <2>6 DEF KeptInv
  <1>8. ASSUME NEW t \in Proc, Kept!Cancel(t) PROVE KeptInv'
    <2> USE <1>0, <1>8 DEF Kept!Cancel, Kept!Goto, Kept!TypeOK, Kept!State
    <2>1. Kept!TypeOK' OBVIOUS
    <2>2. LockKept' BY DEF LockKept, Busy
    <2>3. WritesKept' BY DEF WritesKept
    <2>4. ChangesKept' BY DEF ChangesKept, LockKept, Busy
    <2>5. DiskKept' BY DEF DiskKept, LockKept, Busy
    <2>6. Kept!AckedIsKept' BY DEF Kept!AckedIsKept
    <2> QED BY <2>1, <2>2, <2>3, <2>4, <2>5, <2>6 DEF KeptInv
  <1>9. ASSUME Kept!Restart PROVE KeptInv'
    <2> USE <1>0, <1>9 DEF Kept!Restart, Kept!TypeOK, Kept!State
    <2>1. Kept!TypeOK' OBVIOUS
    <2>2. LockKept' BY DEF LockKept, Busy
    <2>3. WritesKept' BY DEF WritesKept
    <2>4. ChangesKept' BY DEF ChangesKept, Busy
    <2>5. DiskKept' BY DEF DiskKept
    <2>6. Kept!AckedIsKept' BY DEF Kept!AckedIsKept
    <2> QED BY <2>1, <2>2, <2>3, <2>4, <2>5, <2>6 DEF KeptInv
  <1> QED BY <1>1, <1>2, <1>3, <1>4, <1>5, <1>6, <1>7, <1>8, <1>9 DEF Kept!Next

-----------------------------------------------------------------------------
(* The cache of the people's file.                                         *)

\* Whoever reads the file to change it holds the OS lock until it took the stamp, so its book is
\* the file in place.
FileLocked ==
    \A p \in Book!Editor :
      /\ job[p] \in {"writing", "stamping"} => osLock = p
      /\ job[p] = "stamping" => held[p] = version

\* An edit whose task still waits hands back a book as new as its stamp and as the file was when it
\* was asked for; a task that reads has no edit under way.
EditsFresh ==
    \A t \in Proc :
      /\ step[t] \in {"reading", "loading"} => job[t] = "none"
      /\ job[t] \in {"stamping", "done"} => held[t] >= asked[t]
      /\ job[t] = "done" => held[t] >= stamped[t]

\* The cached book is at least as new as the stamp it is kept under, and no book is newer than the
\* file.
CacheFresh == cache # Nil => cache.ver >= cache.stamp

NeverAhead ==
    /\ \A p \in Book!Editor : stamped[p] <= version /\ held[p] <= version
    /\ \A t \in Proc : asked[t] <= version

BookInv == Book!TypeOK /\ FileLocked /\ EditsFresh /\ CacheFresh /\ NeverAhead /\ Book!ReadsAreFresh

\* The first state of the book: the cache is the file.
LEMMA BookInit == Book!Init => BookInv
  BY StorageAssumption
  DEF Book!Init, BookInv, Book!TypeOK, Book!Ver, Book!Editor, FileLocked, EditsFresh, CacheFresh, NeverAhead,
      Book!ReadsAreFresh

\* Every step keeps it, those of other processes and of requests that were dropped included.
LEMMA BookNext == BookInv /\ Book!Next => BookInv'
  <1> USE StateFileAssumption, StorageAssumption DEF Book!Editor, Book!Ver, Book!CacheRec
  <1> SUFFICES ASSUME BookInv, Book!Next PROVE BookInv'
      OBVIOUS
  <1>0. Book!TypeOK /\ FileLocked /\ EditsFresh /\ CacheFresh /\ NeverAhead /\ Book!ReadsAreFresh
        BY DEF BookInv
  <1>1. ASSUME NEW t \in Proc, Book!ReadStart(t) PROVE BookInv'
    <2> USE <1>0, <1>1 DEF Book!ReadStart, Book!Goto, Book!JobGoto, Book!TypeOK
    <2>1. Book!TypeOK' OBVIOUS
    <2>2. FileLocked' BY DEF FileLocked
    <2>3. EditsFresh' BY DEF EditsFresh, NeverAhead, FileLocked
    <2>4. CacheFresh' BY DEF CacheFresh, EditsFresh, NeverAhead
    <2>5. NeverAhead' BY DEF NeverAhead
    <2>6. Book!ReadsAreFresh' BY DEF Book!ReadsAreFresh, CacheFresh, NeverAhead, EditsFresh
    <2> QED BY <2>1, <2>2, <2>3, <2>4, <2>5, <2>6 DEF BookInv
  <1>2. ASSUME NEW t \in Proc, Book!ReadStamp(t) PROVE BookInv'
    <2> USE <1>0, <1>2 DEF Book!ReadStamp, Book!Goto, Book!JobGoto, Book!TypeOK
    <2>1. Book!TypeOK' OBVIOUS
    <2>2. FileLocked' BY DEF FileLocked
    <2>3. EditsFresh' BY DEF EditsFresh, NeverAhead, FileLocked
    <2>4. CacheFresh' BY DEF CacheFresh, EditsFresh, NeverAhead
    <2>5. NeverAhead' BY DEF NeverAhead
    <2>6. Book!ReadsAreFresh' BY DEF Book!ReadsAreFresh, CacheFresh, NeverAhead, EditsFresh
    <2> QED BY <2>1, <2>2, <2>3, <2>4, <2>5, <2>6 DEF BookInv
  <1>3. ASSUME NEW t \in Proc, Book!ReadLoad(t) PROVE BookInv'
    <2> USE <1>0, <1>3 DEF Book!ReadLoad, Book!Goto, Book!JobGoto, Book!TypeOK
    <2>1. Book!TypeOK' OBVIOUS
    <2>2. FileLocked' BY DEF FileLocked
    <2>3. EditsFresh' BY DEF EditsFresh, NeverAhead, FileLocked
    <2>4. CacheFresh' BY DEF CacheFresh, EditsFresh, NeverAhead
    <2>5. NeverAhead' BY DEF NeverAhead
    <2>6. Book!ReadsAreFresh' BY DEF Book!ReadsAreFresh, CacheFresh, NeverAhead, EditsFresh
    <2> QED BY <2>1, <2>2, <2>3, <2>4, <2>5, <2>6 DEF BookInv
  <1>4. ASSUME NEW t \in Proc, Book!EditStart(t) PROVE BookInv'
    <2> USE <1>0, <1>4 DEF Book!EditStart, Book!Goto, Book!JobGoto, Book!TypeOK
    <2>1. Book!TypeOK' OBVIOUS
    <2>2. FileLocked' BY DEF FileLocked
    <2>3. EditsFresh' BY DEF EditsFresh, NeverAhead, FileLocked
    <2>4. CacheFresh' BY DEF CacheFresh, EditsFresh, NeverAhead
    <2>5. NeverAhead' BY DEF NeverAhead
    <2>6. Book!ReadsAreFresh' BY DEF Book!ReadsAreFresh, CacheFresh, NeverAhead, EditsFresh
    <2> QED BY <2>1, <2>2, <2>3, <2>4, <2>5, <2>6 DEF BookInv
  <1>5. ASSUME NEW t \in Proc, Book!EditDone(t) PROVE BookInv'
    <2> USE <1>0, <1>5 DEF Book!EditDone, Book!Goto, Book!JobGoto, Book!TypeOK
    <2>1. Book!TypeOK' OBVIOUS
    <2>2. FileLocked' BY DEF FileLocked
    <2>3. EditsFresh' BY DEF EditsFresh, NeverAhead, FileLocked
    <2>4. CacheFresh' BY DEF CacheFresh, EditsFresh, NeverAhead
    <2>5. NeverAhead' BY DEF NeverAhead
    <2>6. Book!ReadsAreFresh' BY DEF Book!ReadsAreFresh, CacheFresh, NeverAhead, EditsFresh
    <2> QED BY <2>1, <2>2, <2>3, <2>4, <2>5, <2>6 DEF BookInv
  <1>6. ASSUME NEW t \in Proc, Book!Cancel(t) PROVE BookInv'
    <2> USE <1>0, <1>6 DEF Book!Cancel, Book!Goto, Book!JobGoto, Book!TypeOK
    <2>1. Book!TypeOK' OBVIOUS
    <2>2. FileLocked' BY DEF FileLocked
    <2>3. EditsFresh' BY DEF EditsFresh, NeverAhead, FileLocked
    <2>4. CacheFresh' BY DEF CacheFresh, EditsFresh, NeverAhead
    <2>5. NeverAhead' BY DEF NeverAhead
    <2>6. Book!ReadsAreFresh' BY DEF Book!ReadsAreFresh, CacheFresh, NeverAhead, EditsFresh
    <2> QED BY <2>1, <2>2, <2>3, <2>4, <2>5, <2>6 DEF BookInv
  <1>7. ASSUME NEW c \in Cli, Book!CliStart(c) PROVE BookInv'
    <2> USE <1>0, <1>7 DEF Book!CliStart, Book!Goto, Book!JobGoto, Book!TypeOK
    <2>1. Book!TypeOK' OBVIOUS
    <2>2. FileLocked' BY DEF FileLocked
    <2>3. EditsFresh' BY DEF EditsFresh, NeverAhead, FileLocked
    <2>4. CacheFresh' BY DEF CacheFresh, EditsFresh, NeverAhead
    <2>5. NeverAhead' BY DEF NeverAhead
    <2>6. Book!ReadsAreFresh' BY DEF Book!ReadsAreFresh, CacheFresh, NeverAhead, EditsFresh
    <2> QED BY <2>1, <2>2, <2>3, <2>4, <2>5, <2>6 DEF BookInv
  <1>8. ASSUME NEW p \in Book!Editor, Book!JobLock(p) PROVE BookInv'
    <2> USE <1>0, <1>8 DEF Book!JobLock, Book!Goto, Book!JobGoto, Book!TypeOK
    <2>1. Book!TypeOK' OBVIOUS
    <2>2. FileLocked' BY DEF FileLocked
    <2>3. EditsFresh' BY DEF EditsFresh, NeverAhead, FileLocked
    <2>4. CacheFresh' BY DEF CacheFresh, EditsFresh, NeverAhead
    <2>5. NeverAhead' BY DEF NeverAhead
    <2>6. Book!ReadsAreFresh' BY DEF Book!ReadsAreFresh, CacheFresh, NeverAhead, EditsFresh
    <2> QED BY <2>1, <2>2, <2>3, <2>4, <2>5, <2>6 DEF BookInv
  <1>9. ASSUME NEW p \in Book!Editor, Book!JobWrite(p) PROVE BookInv'
    <2> USE <1>0, <1>9 DEF Book!JobWrite, Book!Goto, Book!JobGoto, Book!TypeOK
    <2>1. Book!TypeOK' OBVIOUS
    <2>2. FileLocked' BY DEF FileLocked
    <2>3. EditsFresh' BY DEF EditsFresh, NeverAhead, FileLocked
    <2>4. CacheFresh' BY DEF CacheFresh, EditsFresh, NeverAhead
    <2>5. NeverAhead' BY DEF NeverAhead
    <2>6. Book!ReadsAreFresh' BY DEF Book!ReadsAreFresh, CacheFresh, NeverAhead, EditsFresh
    <2> QED BY <2>1, <2>2, <2>3, <2>4, <2>5, <2>6 DEF BookInv
  <1>10. ASSUME NEW p \in Book!Editor, Book!JobSkip(p) PROVE BookInv'
    <2> USE <1>0, <1>10 DEF Book!JobSkip, Book!Goto, Book!JobGoto, Book!TypeOK
    <2>1. Book!TypeOK' OBVIOUS
    <2>2. FileLocked' BY DEF FileLocked
    <2>3. EditsFresh' BY DEF EditsFresh, NeverAhead, FileLocked
    <2>4. CacheFresh' BY DEF CacheFresh, EditsFresh, NeverAhead
    <2>5. NeverAhead' BY DEF NeverAhead
    <2>6. Book!ReadsAreFresh' BY DEF Book!ReadsAreFresh, CacheFresh, NeverAhead, EditsFresh
    <2> QED BY <2>1, <2>2, <2>3, <2>4, <2>5, <2>6 DEF BookInv
  <1>11. ASSUME NEW p \in Book!Editor, Book!JobFail(p) PROVE BookInv'
    <2> USE <1>0, <1>11 DEF Book!JobFail, Book!Goto, Book!JobGoto, Book!TypeOK
    <2>1. Book!TypeOK' OBVIOUS
    <2>2. FileLocked' BY DEF FileLocked
    <2>3. EditsFresh' BY DEF EditsFresh, NeverAhead, FileLocked
    <2>4. CacheFresh' BY DEF CacheFresh, EditsFresh, NeverAhead
    <2>5. NeverAhead' BY DEF NeverAhead
    <2>6. Book!ReadsAreFresh' BY DEF Book!ReadsAreFresh, CacheFresh, NeverAhead, EditsFresh
    <2> QED BY <2>1, <2>2, <2>3, <2>4, <2>5, <2>6 DEF BookInv
  <1>12. ASSUME NEW p \in Book!Editor, Book!JobStamp(p) PROVE BookInv'
    <2> USE <1>0, <1>12 DEF Book!JobStamp, Book!Goto, Book!JobGoto, Book!TypeOK
    <2>1. Book!TypeOK' OBVIOUS
    <2>2. FileLocked' BY DEF FileLocked
    <2>3. EditsFresh' BY DEF EditsFresh, NeverAhead, FileLocked
    <2>4. CacheFresh' BY DEF CacheFresh, EditsFresh, NeverAhead
    <2>5. NeverAhead' BY DEF NeverAhead
    <2>6. Book!ReadsAreFresh' BY DEF Book!ReadsAreFresh, CacheFresh, NeverAhead, EditsFresh
    <2> QED BY <2>1, <2>2, <2>3, <2>4, <2>5, <2>6 DEF BookInv
  <1> QED BY <1>1, <1>2, <1>3, <1>4, <1>5, <1>6, <1>7, <1>8, <1>9, <1>10, <1>11, <1>12 DEF Book!Next

-----------------------------------------------------------------------------
(* The limits on signing in.                                               *)

Chore == {"hit", "invite", "put", "finish"}

Count == [n : Nat, age : Nat, theirs : BOOLEAN]

\* What was counted is this home's own, and a window that is over counts nothing.
Counts(entry) == entry.age >= Window => entry.n = 0

\* Everything an errand consists of is a chore; a failure takes the place of what was left.
VisitRec == [todo : Seq(Chore) \cup {<<"fail">>}, checked : BOOLEAN, origin : Home \cup {Nil}, home : Home \cup {Nil}]

LimitTypes ==
    /\ failed \in [Home -> Count] /\ started \in [Home -> Count]
    /\ \A h \in Home : Counts(failed[h]) /\ Counts(started[h])
    /\ visit \in [Proc -> VisitRec]

\* The visits of a home that were let through and may still be counted: failures, starts.
Trying(h) == {v \in Proc : /\ visit[v].home = h
                           /\ \/ visit[v].todo = <<"fail">>
                              \/ Limits!Doing(v, {"invite", "finish"}) /\ visit[v].checked}

Starting(h) == {v \in Proc : visit[v].home = h /\ Limits!Doing(v, {"hit"}) /\ visit[v].checked}

\* The last check found fewer than the limit, and each of the others is counted once.
WindowsFit ==
    \A h \in Home :
      /\ failed[h].n + Cardinality(Trying(h)) < Attempts + Cardinality(Proc)
      /\ started[h].n + Cardinality(Starting(h)) < Starts + Cardinality(Proc)

\* Attempts are counted for the home they come from.
OwnOnly ==
    /\ \A v \in Proc : visit[v].origin = visit[v].home
    /\ \A h \in Home : ~failed[h].theirs /\ ~started[h].theirs

LimitsInv == LimitTypes /\ WindowsFit /\ OwnOnly

\* The visits under way are finitely many, and so are any of them.
LEMMA SomeFinite ==
    /\ Cardinality(Proc) \in Nat
    /\ \A T : T \subseteq Proc => IsFiniteSet(T) /\ Cardinality(T) \in Nat /\ Cardinality(T) <= Cardinality(Proc)
  BY StorageAssumption, FS_Subset, FS_CardinalityType

\* The first state of the limits: nobody has visited.
LEMMA LimitsInit == Limits!LimitsInit => LimitsInv
  <1> SUFFICES ASSUME Limits!LimitsInit PROVE LimitsInv
      OBVIOUS
  <1> USE StorageAssumption DEF Limits!LimitsInit, Limits!Unseen, Limits!Away
  <1>1. LimitTypes
    <2>1. Limits!Unseen \in Count /\ Counts(Limits!Unseen)
          BY DEF Count, Counts
    <2>2. Limits!Away \in VisitRec
      <3>1. <<>> \in Seq(Chore)
            OBVIOUS
      <3> QED BY <3>1 DEF VisitRec
    <2> HIDE DEF Limits!Unseen
    <2> QED BY <2>1, <2>2 DEF LimitTypes
  <1>2. \A h \in Home : Trying(h) = {} /\ Starting(h) = {}
        BY DEF Trying, Starting, Limits!Doing
  <1>3. WindowsFit BY <1>2, SomeFinite, FS_EmptySet DEF WindowsFit
  <1>4. OwnOnly BY DEF OwnOnly
  <1> QED BY <1>1, <1>3, <1>4 DEF LimitsInv

\* A set that loses a member is one smaller.
LEMMA OneFewer ==
    ASSUME NEW S, S \subseteq Proc, NEW v \in S PROVE Cardinality(S \ {v}) = Cardinality(S) - 1
  BY SomeFinite, FS_RemoveElement

\* The windows fit after a step that, for each home: lets no more visits through and counts no
\* more; or finds fewer counted than the limit; or counts once one that was let through.
Steady(S, n, T, m) == T \subseteq S /\ m <= n
Checked(n, m, most) == m = n /\ n < most
Counted1(S, n, T, m) == \E v \in S : T = S \ {v} /\ m <= n + 1

\* One window: what it counts and what is let through together stay below the limit and the visits.
LEMMA OneWindow ==
    ASSUME NEW S, NEW T, S \subseteq Proc, T \subseteq Proc, NEW n \in Nat, NEW m \in Nat, NEW most \in Nat,
           n + Cardinality(S) < most + Cardinality(Proc),
           Steady(S, n, T, m) \/ Checked(n, m, most) \/ Counted1(S, n, T, m)
    PROVE  m + Cardinality(T) < most + Cardinality(Proc)
  <1>1. Cardinality(S) \in Nat /\ Cardinality(T) \in Nat /\ Cardinality(T) <= Cardinality(Proc)
        BY SomeFinite
  <1>2. CASE Steady(S, n, T, m)
    <2>1. Cardinality(T) <= Cardinality(S)
          BY <1>2, SomeFinite, FS_Subset DEF Steady
    <2> QED BY <1>1, <1>2, <2>1, SomeFinite DEF Steady
  <1>3. CASE Checked(n, m, most)
        BY <1>1, <1>3, SomeFinite DEF Checked
  <1>4. CASE Counted1(S, n, T, m)
    <2>1. PICK v \in S : T = S \ {v} /\ m <= n + 1
          BY <1>4 DEF Counted1
    <2>2. Cardinality(T) = Cardinality(S) - 1
          BY <2>1, OneFewer
    <2> QED BY <1>1, <2>1, <2>2, SomeFinite
  <1> QED BY <1>2, <1>3, <1>4

\* What a step may do to the windows.
Fits ==
    \A h \in Home :
      /\ \/ Steady(Trying(h), failed[h].n, Trying(h)', failed'[h].n)
         \/ Checked(failed[h].n, failed'[h].n, Attempts)
         \/ Counted1(Trying(h), failed[h].n, Trying(h)', failed'[h].n)
      /\ \/ Steady(Starting(h), started[h].n, Starting(h)', started'[h].n)
         \/ Checked(started[h].n, started'[h].n, Starts)
         \/ Counted1(Starting(h), started[h].n, Starting(h)', started'[h].n)

\* The same for the windows of every home.
LEMMA FitsOn == LimitTypes /\ LimitTypes' /\ WindowsFit /\ Fits => WindowsFit'
  <1> SUFFICES ASSUME LimitTypes, LimitTypes', WindowsFit, Fits, NEW h \in Home
               PROVE  /\ failed'[h].n + Cardinality(Trying(h)') < Attempts + Cardinality(Proc)
                      /\ started'[h].n + Cardinality(Starting(h)') < Starts + Cardinality(Proc)
      BY DEF WindowsFit
  <1>1. /\ failed[h].n \in Nat /\ failed'[h].n \in Nat
        /\ started[h].n \in Nat /\ started'[h].n \in Nat
        BY DEF LimitTypes, Count
  <1>2. /\ Trying(h) \subseteq Proc /\ Trying(h)' \subseteq Proc
        /\ Starting(h) \subseteq Proc /\ Starting(h)' \subseteq Proc
        BY DEF Trying, Starting
  <1>3. failed'[h].n + Cardinality(Trying(h)') < Attempts + Cardinality(Proc)
        BY <1>1, <1>2, OneWindow, StorageAssumption DEF WindowsFit, Fits
  <1>4. started'[h].n + Cardinality(Starting(h)') < Starts + Cardinality(Proc)
        BY <1>1, <1>2, OneWindow, StorageAssumption DEF WindowsFit, Fits
  <1> QED BY <1>3, <1>4

\* What counting makes of a window, and what time does.
LEMMA CountedOne ==
    ASSUME NEW e \in Count, Counts(e), ~e.theirs
    PROVE  LET c == Limits!Counted(e, FALSE) IN c \in Count /\ Counts(c) /\ c.n <= e.n + 1 /\ ~c.theirs
  <1>1. Window \in Nat /\ Window > 0
        BY StorageAssumption
  <1>2. CASE e.age >= Window
        BY <1>1, <1>2 DEF Limits!Counted, Count, Counts
  <1>3. CASE ~(e.age >= Window)
    <2> DEFINE c == Limits!Counted(e, FALSE)
    <2>1. c = [e EXCEPT !.n = @ + 1, !.theirs = (@ \/ FALSE)]
          BY <1>3 DEF Limits!Counted
    <2>2. (e.theirs \/ FALSE) = FALSE
          OBVIOUS
    <2>3. c = [n |-> e.n + 1, age |-> e.age, theirs |-> FALSE]
          BY <2>1, <2>2 DEF Count
    <2> HIDE DEF c
    <2>4. c.n = e.n + 1 /\ c.age = e.age /\ ~c.theirs /\ c \in Count
          BY <2>3 DEF Count
    <2>5. c \in Count /\ Counts(c) /\ c.n <= e.n + 1 /\ ~c.theirs
      <3>1. e.n \in Nat
            BY DEF Count
      <3> QED BY <1>3, <2>4, <3>1 DEF Counts
    <2> QED BY <2>5 DEF c
  <1> QED BY <1>2, <1>3

\* A count a tick later counts no more than before, or is a new window.
LEMMA OlderOne ==
    ASSUME NEW e \in Count, Counts(e), ~e.theirs
    PROVE  LET o == Limits!Older(e) IN o \in Count /\ Counts(o) /\ o.n <= e.n /\ ~o.theirs
  <1>1. Window \in Nat /\ Window > 0
        BY StorageAssumption
  <1>2. CASE e.age + 1 >= Window
        BY <1>1, <1>2 DEF Limits!Older, Limits!Unseen, Count, Counts
  <1>3. CASE ~(e.age + 1 >= Window)
    <2> DEFINE o == Limits!Older(e)
    <2>1. o.n = e.n /\ o.age = e.age + 1 /\ o.theirs = e.theirs /\ o \in Count
          BY <1>3 DEF Limits!Older, Count
    <2> QED BY <1>1, <1>3, <2>1 DEF Counts, Count
  <1> QED BY <1>2, <1>3

\* A refusal is no list of chores.
LEMMA ChoresOnly == <<"fail">> \notin Seq(Chore)
  <1>1. Head(<<"fail">>) = "fail" /\ <<"fail">> # <<>>
        OBVIOUS
  <1>2. \A s \in Seq(Chore) : s # <<>> => Head(s) \in Chore
        OBVIOUS
  <1> QED BY <1>1, <1>2 DEF Chore

\* A visit that goes on is to be checked again, one that ends waits for nothing.
LEMMA GoesOnWell ==
    ASSUME LimitTypes, NEW v \in Proc, visit[v].todo # <<"fail">>, visit[v].todo # <<>>, Limits!GoesOn(v)
    PROVE  /\ visit' \in [Proc -> VisitRec]
           /\ \A u \in Proc : visit'[u].home = visit[u].home /\ visit'[u].origin = visit[u].origin
           /\ \A h \in Home : Trying(h)' = Trying(h) \ {v} /\ Starting(h)' = Starting(h) \ {v}
  <1>1. visit[v] \in VisitRec /\ visit[v].todo \in Seq(Chore)
        BY DEF LimitTypes, VisitRec
  <1>2. Tail(visit[v].todo) \in Seq(Chore)
        BY <1>1
  <1>3. PICK r \in VisitRec : /\ visit' = [visit EXCEPT ![v] = r]
                              /\ r.todo = Tail(visit[v].todo) /\ r.checked = FALSE
                              /\ r.home = visit[v].home /\ r.origin = visit[v].origin
    <2> DEFINE r == [visit[v] EXCEPT !.todo = Tail(@), !.checked = FALSE]
    <2>1. visit' = [visit EXCEPT ![v] = r]
          BY <1>1 DEF Limits!GoesOn, LimitTypes
    <2>2. r \in VisitRec /\ r.todo = Tail(visit[v].todo) /\ r.checked = FALSE
          /\ r.home = visit[v].home /\ r.origin = visit[v].origin
          BY <1>1, <1>2 DEF VisitRec
    <2> QED BY <2>1, <2>2
  <1>4. \A u \in Proc : visit'[u] = IF u = v THEN r ELSE visit[u]
        BY <1>3 DEF LimitTypes
  <1>5. r.todo # <<"fail">>
        BY <1>2, <1>3, ChoresOnly
  <1>6. \A h \in Home : Trying(h)' = Trying(h) \ {v} /\ Starting(h)' = Starting(h) \ {v}
        BY <1>3, <1>4, <1>5 DEF Trying, Starting, Limits!Doing
  <1>7. visit' \in [Proc -> VisitRec]
        BY <1>3 DEF LimitTypes
  <1> QED BY <1>3, <1>4, <1>6, <1>7

\* A visit that ends leaves the others as they are.
LEMMA EndsWell ==
    ASSUME LimitTypes, NEW v \in Proc, Limits!Ends(v)
    PROVE  /\ visit' \in [Proc -> VisitRec]
           /\ \A u \in Proc : \/ visit'[u].home = visit[u].home /\ visit'[u].origin = visit[u].origin
                              \/ visit'[u].home = Nil /\ visit'[u].origin = Nil
           /\ \A h \in Home : Trying(h)' = Trying(h) \ {v} /\ Starting(h)' = Starting(h) \ {v}
  <1>1. visit' = [visit EXCEPT ![v] = Limits!Away]
        BY DEF Limits!Ends
  <1>2. \A u \in Proc : visit'[u] = IF u = v THEN Limits!Away ELSE visit[u]
        BY <1>1 DEF LimitTypes
  <1>3. Limits!Away \in VisitRec
    <2>1. <<>> \in Seq(Chore)
          OBVIOUS
    <2> QED BY <2>1 DEF VisitRec, Limits!Away
  <1>4. visit' \in [Proc -> VisitRec]
        BY <1>1, <1>3 DEF LimitTypes
  <1>5. /\ Limits!Away.todo = <<>> /\ Limits!Away.home = Nil /\ Limits!Away.origin = Nil
        /\ <<"fail">> # <<>>
        BY DEF Limits!Away
  <1>6. \A h \in Home : Trying(h)' = Trying(h) \ {v} /\ Starting(h)' = Starting(h) \ {v}
        BY <1>2, <1>5 DEF Trying, Starting, Limits!Doing
  <1> QED BY <1>2, <1>4, <1>5, <1>6

\* Every step keeps what is known of the limits.
LEMMA LimitsNext == LimitsInv /\ Limits!LimitsNext => LimitsInv'
  <1> SUFFICES ASSUME LimitsInv, Limits!LimitsNext PROVE LimitsInv'
      OBVIOUS
  <1>0. LimitTypes /\ WindowsFit /\ OwnOnly
        BY DEF LimitsInv
  <1> SUFFICES LimitTypes' /\ Fits /\ OwnOnly'
      BY <1>0, FitsOn DEF LimitsInv
  <1> DEFINE Result == LimitTypes' /\ Fits /\ OwnOnly'
  <1>a. ASSUME visit' \in [Proc -> VisitRec], UNCHANGED <<failed, started>>,
               \A u \in Proc : \/ visit'[u].home = visit[u].home /\ visit'[u].origin = visit[u].origin
                               \/ visit'[u].home = visit'[u].origin,
               \A h \in Home : Trying(h)' \subseteq Trying(h) /\ Starting(h)' \subseteq Starting(h)
        PROVE  Result
    <2>1. LimitTypes' BY <1>0, <1>a DEF LimitTypes
    <2>2. OwnOnly' BY <1>0, <1>a DEF OwnOnly
    <2>3. \A h \in Home : failed[h].n \in Nat /\ started[h].n \in Nat
          BY <1>0 DEF LimitTypes, Count
    <2>4. Fits BY <1>a, <2>3 DEF Fits, Steady
    <2> QED BY <2>1, <2>2, <2>4
  <1>b. \A v \in Proc : visit[v] \in VisitRec
        BY <1>0 DEF LimitTypes
  <1>c. \A v \in Proc : \A what \in SUBSET Chore : Limits!Doing(v, what) => visit[v].todo # <<>> /\ visit[v].todo # <<"fail">>
        BY DEF Limits!Doing, Chore
  <1> HIDE DEF Result
  <1>1. ASSUME NEW v \in Proc, Limits!Leave(v) \/ Limits!Refused(v) PROVE Result
    <2>1. Limits!Ends(v) /\ UNCHANGED <<failed, started>>
          BY <1>1 DEF Limits!Leave, Limits!Refused
    <2> QED BY <1>0, <1>a, <2>1, EndsWell
  <1>2. ASSUME NEW v \in Proc, Limits!Put(v) PROVE Result
    <2>1. Limits!GoesOn(v) /\ UNCHANGED <<failed, started>> /\ Limits!Doing(v, {"put"})
          BY <1>2 DEF Limits!Put
    <2>2. visit[v].todo # <<>> /\ visit[v].todo # <<"fail">>
          BY <2>1, <1>c DEF Chore
    <2> QED BY <1>0, <1>a, <2>1, <2>2, GoesOnWell
  <1>3. ASSUME NEW v \in Proc, NEW ok \in BOOLEAN, Limits!Verify(v, ok) PROVE Result
    <2>1. /\ UNCHANGED <<failed, started>> /\ Limits!Doing(v, {"invite", "finish"}) /\ visit[v].checked
          /\ Limits!Ends(v) \/ Limits!GoesOn(v) \/ visit' = [visit EXCEPT ![v].todo = <<"fail">>]
          BY <1>3 DEF Limits!Verify
    <2>2. visit[v].todo # <<>> /\ visit[v].todo # <<"fail">>
          BY <2>1, <1>c DEF Chore
    <2>3. CASE Limits!Ends(v)
          BY <1>0, <1>a, <2>1, <2>3, EndsWell
    <2>4. CASE Limits!GoesOn(v)
          BY <1>0, <1>a, <2>1, <2>2, <2>4, GoesOnWell
    <2>5. CASE visit' = [visit EXCEPT ![v].todo = <<"fail">>]
      <3>1. PICK r \in VisitRec : /\ visit' = [visit EXCEPT ![v] = r]
                                  /\ r.todo = <<"fail">> /\ r.home = visit[v].home /\ r.origin = visit[v].origin
        <4> DEFINE r == [visit[v] EXCEPT !.todo = <<"fail">>]
        <4>1. visit' = [visit EXCEPT ![v] = r]
              BY <1>0, <2>5 DEF LimitTypes
        <4>2. r \in VisitRec /\ r.todo = <<"fail">> /\ r.home = visit[v].home /\ r.origin = visit[v].origin
              BY <1>b DEF VisitRec
        <4> QED BY <4>1, <4>2
      <3>2. visit' \in [Proc -> VisitRec] /\ \A u \in Proc : visit'[u] = IF u = v THEN r ELSE visit[u]
            BY <1>0, <3>1 DEF LimitTypes
      <3>3. Head(<<"fail">>) = "fail"
            OBVIOUS
      <3>4. \A h \in Home : Trying(h)' \subseteq Trying(h) /\ Starting(h)' \subseteq Starting(h)
            BY <2>1, <3>1, <3>2, <3>3 DEF Trying, Starting, Limits!Doing
      <3> QED BY <1>a, <2>1, <3>1, <3>2, <3>4
    <2> QED BY <2>1, <2>3, <2>4, <2>5

  <1>4. ASSUME NEW v \in Proc, Limits!Check(v) PROVE Result
    <2> DEFINE h == visit[v].home
    <2>1. /\ UNCHANGED <<failed, started>>
          /\ Limits!Doing(v, {"hit", "invite", "finish"}) /\ ~visit[v].checked
          /\ IF Limits!Doing(v, {"hit"}) THEN Limits!Allowed(started[h], Starts) ELSE Limits!Allowed(failed[h], Attempts)
          /\ visit' = [visit EXCEPT ![v].checked = TRUE]
          BY <1>4 DEF Limits!Check
    <2>2. visit[v].todo # <<>> /\ visit[v].todo # <<"fail">>
          BY <2>1, <1>c DEF Chore
    <2>3. PICK r \in VisitRec : /\ visit' = [visit EXCEPT ![v] = r]
                                /\ r.todo = visit[v].todo /\ r.home = visit[v].home /\ r.origin = visit[v].origin
      <3> DEFINE r == [visit[v] EXCEPT !.checked = TRUE]
      <3>1. visit' = [visit EXCEPT ![v] = r]
            BY <1>0, <2>1 DEF LimitTypes
      <3>2. r \in VisitRec /\ r.todo = visit[v].todo /\ r.home = visit[v].home /\ r.origin = visit[v].origin
            BY <1>b DEF VisitRec
      <3> QED BY <3>1, <3>2
    <2>4. visit' \in [Proc -> VisitRec] /\ \A u \in Proc : visit'[u] = IF u = v THEN r ELSE visit[u]
          BY <1>0, <2>3 DEF LimitTypes
    <2>5. LimitTypes' BY <1>0, <2>1, <2>4 DEF LimitTypes
    <2>6. OwnOnly' BY <1>0, <2>1, <2>3, <2>4 DEF OwnOnly
    <2>7. \A g \in Home : /\ failed[g] \in Count /\ started[g] \in Count
                          /\ Counts(failed[g]) /\ Counts(started[g])
          BY <1>0 DEF LimitTypes
    <2>8. ASSUME NEW g \in Home
          PROVE  /\ Trying(g)' \subseteq Trying(g) \/ Checked(failed[g].n, failed'[g].n, Attempts)
                 /\ Starting(g)' \subseteq Starting(g) \/ Checked(started[g].n, started'[g].n, Starts)
      <3>1. CASE g # h
            BY <2>3, <2>4, <3>1 DEF Trying, Starting, Limits!Doing
      <3>2. CASE g = h /\ Limits!Doing(v, {"hit"})
        <4>1. started[g].n < Starts
              BY <2>1, <2>7, <3>2, StorageAssumption DEF Limits!Allowed, Counts
        <4>2. Trying(g)' \subseteq Trying(g)
              BY <2>2, <2>3, <2>4, <3>2 DEF Trying, Limits!Doing
        <4> QED BY <2>1, <4>1, <4>2 DEF Checked
      <3>3. CASE g = h /\ ~Limits!Doing(v, {"hit"})
        <4>1. failed[g].n < Attempts
              BY <2>1, <2>7, <3>3, StorageAssumption DEF Limits!Allowed, Counts
        <4>2. Starting(g)' \subseteq Starting(g)
              BY <2>2, <2>3, <2>4, <3>3 DEF Starting, Limits!Doing
        <4> QED BY <2>1, <4>1, <4>2 DEF Checked
      <3> QED BY <3>1, <3>2, <3>3
    <2>9. Fits BY <2>1, <2>7, <2>8 DEF Fits, Steady, Count
    <2> QED BY <2>5, <2>6, <2>9 DEF Result
  <1>5. ASSUME NEW v \in Proc, Limits!Count(v) PROVE Result
    <2> DEFINE h == visit[v].home
               new == Limits!Counted(started[h], visit[v].origin # h)
    <2>1. /\ Limits!Doing(v, {"hit"}) /\ visit[v].checked /\ failed' = failed
          /\ started' = [started EXCEPT ![h] = new]
          /\ Limits!GoesOn(v)
          BY <1>5 DEF Limits!Count
    <2>2. visit[v].todo # <<>> /\ visit[v].todo # <<"fail">>
          BY <2>1, <1>c DEF Chore
    <2>3. /\ visit' \in [Proc -> VisitRec]
          /\ \A u \in Proc : visit'[u].home = visit[u].home /\ visit'[u].origin = visit[u].origin
          /\ \A g \in Home : Trying(g)' = Trying(g) \ {v} /\ Starting(g)' = Starting(g) \ {v}
          BY <1>0, <2>1, <2>2, GoesOnWell
    <2>4. h \in Home => new \in Count /\ Counts(new) /\ new.n <= started[h].n + 1 /\ ~new.theirs
      <3>1. (visit[v].origin # h) = FALSE
            BY <1>0 DEF OwnOnly
      <3>2. h \in Home => started[h] \in Count /\ Counts(started[h]) /\ ~started[h].theirs
            BY <1>0 DEF LimitTypes, OwnOnly
      <3> QED BY <3>1, <3>2, CountedOne
    <2>5. started \in [Home -> Count]
          BY <1>0 DEF LimitTypes
    <2> HIDE DEF new
    <2>6. \A g \in Home : started'[g] = IF g = h THEN new ELSE started[g]
          BY <2>1, <2>5
    <2>7. started' \in [Home -> Count]
          BY <2>1, <2>4, <2>5
    <2>8. LimitTypes' BY <1>0, <2>1, <2>3, <2>4, <2>6, <2>7 DEF LimitTypes
    <2>9. OwnOnly' BY <1>0, <2>1, <2>3, <2>4, <2>6 DEF OwnOnly
    <2>10. ASSUME NEW g \in Home
           PROVE  \/ Steady(Starting(g), started[g].n, Starting(g)', started'[g].n)
                  \/ Counted1(Starting(g), started[g].n, Starting(g)', started'[g].n)
      <3>1. started[g].n \in Nat
            BY <2>5 DEF Count
      <3>2. CASE g # h
            BY <2>3, <2>6, <3>1, <3>2 DEF Steady
      <3>3. CASE g = h
        <4>1. v \in Starting(g)
              BY <2>1, <3>3 DEF Starting
        <4> QED BY <2>3, <2>4, <2>6, <3>3, <4>1 DEF Counted1
      <3> QED BY <3>2, <3>3
    <2>11. \A g \in Home : Steady(Trying(g), failed[g].n, Trying(g)', failed'[g].n)
      <3>1. \A g \in Home : failed[g].n \in Nat
            BY <1>0 DEF LimitTypes, Count
      <3> QED BY <2>1, <2>3, <3>1 DEF Steady
    <2>12. Fits BY <2>10, <2>11 DEF Fits
    <2> QED BY <2>8, <2>9, <2>12 DEF Result
  <1>6. ASSUME NEW v \in Proc, Limits!Fail(v) PROVE Result
    <2> DEFINE h == visit[v].home
               new == Limits!Counted(failed[h], visit[v].origin # h)
    <2>1. /\ Limits!Doing(v, {"fail"}) /\ started' = started
          /\ failed' = [failed EXCEPT ![h] = new]
          /\ Limits!Ends(v)
          BY <1>6 DEF Limits!Fail
    <2>2. visit[v].todo = <<"fail">>
      <3>1. visit[v].todo \in Seq(Chore) => visit[v].todo = <<>> \/ Head(visit[v].todo) \in Chore
            OBVIOUS
      <3> QED BY <1>b, <2>1, <3>1 DEF VisitRec, Limits!Doing, Chore
    <2>3. /\ visit' \in [Proc -> VisitRec]
          /\ \A u \in Proc : \/ visit'[u].home = visit[u].home /\ visit'[u].origin = visit[u].origin
                             \/ visit'[u].home = Nil /\ visit'[u].origin = Nil
          /\ \A g \in Home : Trying(g)' = Trying(g) \ {v} /\ Starting(g)' = Starting(g) \ {v}
          BY <1>0, <2>1, EndsWell
    <2>4. h \in Home => new \in Count /\ Counts(new) /\ new.n <= failed[h].n + 1 /\ ~new.theirs
      <3>1. (visit[v].origin # h) = FALSE
            BY <1>0 DEF OwnOnly
      <3>2. h \in Home => failed[h] \in Count /\ Counts(failed[h]) /\ ~failed[h].theirs
            BY <1>0 DEF LimitTypes, OwnOnly
      <3> QED BY <3>1, <3>2, CountedOne
    <2>5. failed \in [Home -> Count]
          BY <1>0 DEF LimitTypes
    <2> HIDE DEF new
    <2>6. \A g \in Home : failed'[g] = IF g = h THEN new ELSE failed[g]
          BY <2>1, <2>5
    <2>7. failed' \in [Home -> Count]
          BY <2>1, <2>4, <2>5
    <2>8. LimitTypes' BY <1>0, <2>1, <2>3, <2>4, <2>6, <2>7 DEF LimitTypes
    <2>9. OwnOnly' BY <1>0, <2>1, <2>3, <2>4, <2>6 DEF OwnOnly
    <2>10. ASSUME NEW g \in Home
           PROVE  \/ Steady(Trying(g), failed[g].n, Trying(g)', failed'[g].n)
                  \/ Counted1(Trying(g), failed[g].n, Trying(g)', failed'[g].n)
      <3>1. failed[g].n \in Nat
            BY <2>5 DEF Count
      <3>2. CASE g # h
            BY <2>3, <2>6, <3>1, <3>2 DEF Steady
      <3>3. CASE g = h
        <4>1. v \in Trying(g)
              BY <2>2, <3>3 DEF Trying
        <4> QED BY <2>3, <2>4, <2>6, <3>3, <4>1 DEF Counted1
      <3> QED BY <3>2, <3>3
    <2>11. \A g \in Home : Steady(Starting(g), started[g].n, Starting(g)', started'[g].n)
      <3>1. \A g \in Home : started[g].n \in Nat
            BY <1>0 DEF LimitTypes, Count
      <3> QED BY <2>1, <2>3, <3>1 DEF Steady
    <2>12. Fits BY <2>10, <2>11 DEF Fits
    <2> QED BY <2>8, <2>9, <2>12 DEF Result
  <1>7. ASSUME NEW v \in Proc, NEW errand \in Limits!Errands, NEW peer, NEW header, Limits!Come(v, errand, peer, header),
               \/ peer = Limits!Loopback /\ header \in Limits!Address
               \/ peer \in Limits!Address
        PROVE  Result
    <2> DEFINE origin == IF peer = Limits!Loopback THEN header ELSE peer
               r == [todo |-> errand, checked |-> FALSE, origin |-> origin.home,
                     home |-> Limits!AddressKey(Limits!ClientIp(peer, header))]
    <2>1. visit[v] = Limits!Away /\ visit' = [visit EXCEPT ![v] = r] /\ UNCHANGED <<failed, started>>
          BY <1>7 DEF Limits!Come
    <2>2. r.home = origin.home /\ r.origin = origin.home /\ origin.home \in Home
      <3>1. \A ip \in Limits!Address : ip.home \in Home /\ ip # Limits!Loopback /\ ip # Nil
            BY StorageAssumption DEF Limits!Address, Limits!Loopback
      <3> QED BY <1>7, <3>1 DEF Limits!ClientIp, Limits!AddressKey
    <2>3. errand \in Seq(Chore) /\ errand # <<"fail">>
      <3>1. errand \in Seq(Chore)
        <4>1. /\ <<"invite">> \in Seq(Chore) /\ <<"put", "finish">> \in Seq(Chore)
              /\ <<"hit", "put", "finish">> \in Seq(Chore)
              BY DEF Chore
        <4>2. <<"hit", "invite", "put", "finish">> \in Seq(Chore) /\ <<"invite", "put", "finish">> \in Seq(Chore)
              BY DEF Chore
        <4> QED BY <1>7, <4>1, <4>2 DEF Limits!Errands
      <3> QED BY <3>1, ChoresOnly
    <2>4. r \in VisitRec /\ r.todo = errand /\ r.checked = FALSE
          BY <2>2, <2>3 DEF VisitRec
    <2> HIDE DEF r
    <2>5. visit' \in [Proc -> VisitRec] /\ \A u \in Proc : visit'[u] = IF u = v THEN r ELSE visit[u]
          BY <1>0, <2>1, <2>4 DEF LimitTypes
    <2>6. \A h \in Home : Trying(h)' \subseteq Trying(h) /\ Starting(h)' \subseteq Starting(h)
          BY <2>3, <2>4, <2>5 DEF Trying, Starting, Limits!Doing
    <2> QED BY <1>a, <2>1, <2>2, <2>5, <2>6
  <1>8. ASSUME Limits!Passes PROVE Result
    <2>1. /\ failed' = [h \in Home |-> Limits!Older(failed[h])]
          /\ started' = [h \in Home |-> Limits!Older(started[h])]
          /\ visit' = visit
          BY <1>8 DEF Limits!Passes
    <2>2. \A h \in Home : /\ failed[h] \in Count /\ Counts(failed[h]) /\ ~failed[h].theirs
                          /\ started[h] \in Count /\ Counts(started[h]) /\ ~started[h].theirs
          BY <1>0 DEF LimitTypes, OwnOnly
    <2>3. ASSUME NEW h \in Home
          PROVE  /\ failed'[h] \in Count /\ Counts(failed'[h]) /\ failed'[h].n <= failed[h].n /\ ~failed'[h].theirs
                 /\ started'[h] \in Count /\ Counts(started'[h]) /\ started'[h].n <= started[h].n /\ ~started'[h].theirs
      <3>1. failed'[h] = Limits!Older(failed[h]) /\ started'[h] = Limits!Older(started[h])
            BY <2>1
      <3> QED BY <2>2, <3>1, OlderOne
    <2>4. \A h \in Home : Trying(h)' = Trying(h) /\ Starting(h)' = Starting(h)
          BY <2>1 DEF Trying, Starting, Limits!Doing
    <2>5. failed' \in [Home -> Count] /\ started' \in [Home -> Count]
          BY <2>1, <2>3
    <2>6. LimitTypes' BY <1>0, <2>1, <2>3, <2>5 DEF LimitTypes
    <2>7. OwnOnly' BY <1>0, <2>1, <2>3 DEF OwnOnly
    <2>8. Fits BY <2>3, <2>4 DEF Fits, Steady
    <2> QED BY <2>6, <2>7, <2>8 DEF Result
  <1>9. CASE \E v \in Proc : \/ Limits!Check(v) \/ Limits!Refused(v) \/ Limits!Count(v) \/ Limits!Put(v)
                             \/ Limits!Fail(v) \/ Limits!Leave(v) \/ \E ok \in BOOLEAN : Limits!Verify(v, ok)
        BY <1>1, <1>2, <1>3, <1>4, <1>5, <1>6, <1>9 DEF Result
  <1>10. CASE \E v \in Proc : \E errand \in Limits!Errands, ip \in Limits!Address : Limits!Come(v, errand, Limits!Loopback, ip)
        BY <1>7, <1>10 DEF Result
  <1>11. CASE \E v \in Proc : \E errand \in Limits!Errands, ip \in Limits!Address :
                \E said \in Limits!Claims(ip) : Limits!Come(v, errand, ip, said)
        BY <1>7, <1>11 DEF Result
  <1> QED BY <1>8, <1>9, <1>10, <1>11 DEF Limits!LimitsNext, Result

-----------------------------------------------------------------------------
(* The ceremonies kept: a full address gives way to itself, so the list is *)
(* never too full when it does.                                            *)

IsList(s) == s \in Seq({s[i] : i \in DOMAIN s})

CrowdInv == IsList(kept) /\ Len(kept) <= Cap /\ ~crowded

UpTo(K, i) == {j \in K : j <= i}

\* Of finitely many positions one is the first.
LEMMA Least ==
  ASSUME NEW K, K \subseteq Nat, IsFiniteSet(K), K # {}
  PROVE  \E i \in K : \A j \in K : ~(j < i)
  <1> DEFINE All == {UpTo(K, i) : i \in K}
  <1>1. \A i \in K : UpTo(K, i) \in SUBSET K /\ IsFiniteSet(UpTo(K, i))
    <2>1. \A i \in K : UpTo(K, i) \in SUBSET K
          BY DEF UpTo
    <2> QED BY <2>1, FS_Subset
  <1>2. All \subseteq FiniteSubsetsOf(K) /\ All # {}
        BY <1>1 DEF FiniteSubsetsOf
  <1>3. PICK s \in All : \A t \in All : <<t, s>> \notin StrictSubsetOrdering(K)
        BY <1>2, FS_StrictSubsetOrderingWellFounded, WFMin
  <1>4. PICK i \in K : s = UpTo(K, i)
        BY <1>3
  <1>5. ASSUME NEW j \in K, j < i PROVE FALSE
    <2>1. UpTo(K, j) \subseteq s /\ i \in s /\ i \notin UpTo(K, j)
      <3>1. \A k \in K : k <= j => k <= i
            BY <1>5
      <3>2. i <= i /\ ~(i <= j)
            BY <1>5
      <3> QED BY <1>4, <3>1, <3>2 DEF UpTo
    <2>2. <<UpTo(K, j), s>> \in StrictSubsetOrdering(K)
      <3> DEFINE t == UpTo(K, j)
      <3>1. t \in SUBSET K /\ s \in SUBSET K /\ t \subseteq s /\ t # s
            BY <1>1, <1>4, <2>1
      <3> HIDE DEF t
      <3>2. <<t, s>> \in StrictSubsetOrdering(K)
            BY <3>1 DEF StrictSubsetOrdering
      <3> QED BY <3>2 DEF t
    <2> QED BY <1>3, <2>2
  <1> QED BY <1>5

\* A sequence is a list of its elements.
LEMMA ListIs ==
  ASSUME NEW S, NEW s \in Seq(S)
  PROVE  IsList(s)
  <1>1. Len(s) \in Nat /\ s \in [1 .. Len(s) -> {s[i] : i \in DOMAIN s}]
        OBVIOUS
  <1> QED BY <1>1 DEF IsList

\* A list with some of its elements is one, and shorter without one of them.
LEMMA PickedList ==
  ASSUME NEW s, IsList(s), NEW K, K \subseteq DOMAIN s
  PROVE  /\ IsList(Limits!Picked(s, K)) /\ Len(Limits!Picked(s, K)) \in Nat /\ Len(s) \in Nat
         /\ Len(Limits!Picked(s, K)) <= Len(s)
         /\ K # DOMAIN s => Len(Limits!Picked(s, K)) < Len(s)
  <1> DEFINE p == Limits!Picked(s, K)
             T == {s[Limits!Nth(K, n)] : n \in 1 .. Cardinality(K)}
  <1>1. Len(s) \in Nat /\ DOMAIN s = 1 .. Len(s)
        BY DEF IsList
  <1>2. IsFiniteSet(DOMAIN s) /\ Cardinality(DOMAIN s) = Len(s)
        BY <1>1, FS_Interval
  <1>3. /\ Cardinality(K) \in Nat /\ Cardinality(K) <= Len(s)
        /\ K # DOMAIN s => Cardinality(K) < Len(s)
        BY <1>1, <1>2, FS_Subset, FS_CardinalityType
  <1>4. Limits!Cardinality(K) = Cardinality(K)
        BY DEF Limits!Cardinality, Cardinality
  <1>5. p = [n \in 1 .. Cardinality(K) |-> s[Limits!Nth(K, n)]]
        BY <1>4 DEF Limits!Picked
  <1>6. p \in [1 .. Cardinality(K) -> T]
        BY <1>5
  <1> HIDE DEF p, T
  <1>7. p \in Seq(T) /\ Len(p) = Cardinality(K)
        BY <1>3, <1>6
  <1>8. IsList(p)
        BY <1>7, ListIs
  <1> QED BY <1>1, <1>3, <1>7, <1>8 DEF p

\* Elements that change in their places.
LEMMA SameLength ==
  ASSUME NEW s, IsList(s), NEW t, t = [i \in DOMAIN s |-> t[i]]
  PROVE  IsList(t) /\ Len(t) = Len(s)
  <1>1. Len(s) \in Nat /\ DOMAIN s = 1 .. Len(s)
        BY DEF IsList
  <1>2. t \in [1 .. Len(s) -> {t[i] : i \in DOMAIN s}]
        BY <1>1
  <1>3. t \in Seq({t[i] : i \in DOMAIN s}) /\ Len(t) = Len(s)
        BY <1>1, <1>2
  <1> QED BY <1>3, ListIs

\* A new ceremony pushes out one of another address only when its own has room.
LEMMA PutKeeps ==
  ASSUME CrowdInv, NEW v, Limits!Put(v)
  PROVE  CrowdInv'
  <1> DEFINE h == visit[v].home
             fresh == Limits!Picked(kept, {i \in DOMAIN kept : kept[i].age < Ttl})
             theirs == Limits!Of(fresh, h)
             rest == {i \in DOMAIN fresh : i \in theirs => \E j \in theirs : j < i}
             own == IF Limits!Full(fresh, h) THEN Limits!WithoutOldest(fresh, h) ELSE fresh
             some == IF Len(own) >= Cap THEN Tail(own) ELSE own
             new == [of |-> v, home |-> h, age |-> 0]
  <1>1. /\ kept' = Append(some, new)
        /\ crowded' = (crowded \/ (Len(own) >= Cap /\ Head(own).home # h /\ Limits!Cardinality(theirs) >= PerAddress))
        BY DEF Limits!Put
  <1>2. IsList(kept) /\ Len(kept) <= Cap /\ ~crowded /\ Cap \in Nat /\ Cap > 0 /\ PerAddress \in Nat /\ PerAddress > 0
        BY StorageAssumption DEF CrowdInv
  <1>3. IsList(fresh) /\ Len(fresh) \in Nat /\ Len(kept) \in Nat /\ Len(fresh) <= Len(kept)
        BY <1>2, PickedList
  <1>4. Limits!Cardinality(theirs) = Cardinality(theirs)
        BY DEF Limits!Cardinality, Cardinality
  <1>5. theirs \subseteq DOMAIN fresh /\ rest \subseteq DOMAIN fresh
        BY DEF Limits!Of
  <1>6. DOMAIN fresh = 1 .. Len(fresh)
        BY <1>3 DEF IsList
  <1> HIDE DEF fresh, theirs
  <1>7. IsFiniteSet(theirs) /\ theirs \subseteq Nat /\ Cardinality(theirs) \in Nat
    <2>1. IsFiniteSet(DOMAIN fresh) /\ DOMAIN fresh \subseteq Nat
          BY <1>3, <1>6, FS_Interval
    <2>2. IsFiniteSet(theirs)
          BY <1>5, <2>1, FS_Subset
    <2>3. Cardinality(theirs) \in Nat
          BY <2>2, FS_CardinalityType
    <2> QED BY <1>5, <2>1, <2>2, <2>3
  <1>8. Limits!Full(fresh, h) => Cardinality(theirs) >= PerAddress
        BY <1>4 DEF Limits!Full, theirs
  <1>9. Cardinality(theirs) >= PerAddress => Limits!Full(fresh, h)
        BY <1>4 DEF Limits!Full, theirs
  <1>10. Limits!Full(fresh, h) => rest # DOMAIN fresh
    <2>1. SUFFICES ASSUME Limits!Full(fresh, h) PROVE rest # DOMAIN fresh
          OBVIOUS
    <2>2. theirs # {}
          BY <1>2, <1>7, <1>8, <2>1, FS_EmptySet
    <2>3. PICK i \in theirs : \A j \in theirs : ~(j < i)
          BY <1>7, <2>2, Least
    <2> QED BY <1>5, <2>3
  <1>11. Limits!WithoutOldest(fresh, h) = Limits!Picked(fresh, rest)
         BY DEF Limits!WithoutOldest, theirs
  <1> HIDE DEF rest
  <1>12. /\ IsList(own) /\ Len(own) \in Nat /\ Len(own) <= Cap
         /\ Limits!Full(fresh, h) => Len(own) < Cap
    <2>1. CASE Limits!Full(fresh, h)
      <3>1. own = Limits!Picked(fresh, rest)
            BY <1>11, <2>1
      <3>2. IsList(own) /\ Len(own) \in Nat /\ Len(own) < Len(fresh)
            BY <1>3, <1>5, <1>10, <2>1, <3>1, PickedList
      <3> HIDE DEF own
      <3> QED BY <1>2, <1>3, <3>2
    <2>2. CASE ~Limits!Full(fresh, h)
          BY <1>2, <1>3, <2>2
    <2> QED BY <2>1, <2>2
  <1> HIDE DEF own
  <1>13. ~crowded'
    <2>1. ~(Len(own) >= Cap /\ Limits!Cardinality(theirs) >= PerAddress)
          BY <1>2, <1>4, <1>9, <1>12
    <2> QED BY <1>1, <1>2, <2>1, Zenon
  <1> DEFINE S == {own[i] : i \in DOMAIN own}
  <1>14. some \in Seq(S) /\ Len(some) < Cap
    <2>1. own \in Seq(S)
          BY <1>12 DEF IsList
    <2> HIDE DEF S
    <2>2. CASE Len(own) >= Cap
      <3>1. own # <<>>
            BY <1>2, <2>2
      <3> QED BY <1>2, <1>12, <2>1, <2>2, <3>1
    <2>3. CASE ~(Len(own) >= Cap)
          BY <1>2, <1>12, <2>1, <2>3
    <2> QED BY <2>2, <2>3
  <1> HIDE DEF S, some, new
  <1>15. kept' \in Seq(S \cup {new}) /\ Len(kept') = Len(some) + 1 /\ Len(some) \in Nat
    <2>1. some \in Seq(S \cup {new})
          BY <1>14
    <2> QED BY <1>1, <2>1
  <1> QED BY <1>2, <1>13, <1>14, <1>15, ListIs DEF CrowdInv

\* No ceremony is kept at first.
LEMMA CrowdStart == Limits!LimitsInit => CrowdInv
  <1> SUFFICES ASSUME Limits!LimitsInit PROVE CrowdInv
      OBVIOUS
  <1>1. kept = <<>> /\ crowded = FALSE
        BY DEF Limits!LimitsInit
  <1>2. kept \in Seq({}) /\ Len(kept) = 0
        BY <1>1
  <1>3. Len(kept) <= Cap
        BY <1>2, StorageAssumption
  <1> QED BY <1>1, <1>2, <1>3, ListIs DEF CrowdInv

\* No other step makes the list longer.
LEMMA CrowdNext == CrowdInv /\ Limits!LimitsNext => CrowdInv'
  <1> SUFFICES ASSUME CrowdInv, Limits!LimitsNext PROVE CrowdInv'
      OBVIOUS
  <1>1. IsList(kept) /\ Len(kept) <= Cap /\ ~crowded /\ Len(kept) \in Nat /\ Cap \in Nat
        BY StorageAssumption DEF CrowdInv, IsList
  <1>2. ASSUME kept' = kept, crowded' = crowded PROVE CrowdInv'
        BY <1>1, <1>2 DEF CrowdInv
  <1>3. ASSUME NEW f, kept' = [i \in DOMAIN kept |-> f[i]], crowded' = crowded PROVE CrowdInv'
    <2>1. kept' = [i \in DOMAIN kept |-> kept'[i]]
          BY <1>3
    <2>2. IsList(kept') /\ Len(kept') = Len(kept)
          BY <1>1, <2>1, SameLength
    <2> QED BY <1>1, <1>3, <2>2 DEF CrowdInv
  <1>4. ASSUME NEW v, kept' = Limits!Others(v), crowded' = crowded PROVE CrowdInv'
    <2>1. IsList(kept') /\ Len(kept') \in Nat /\ Len(kept') <= Len(kept)
          BY <1>1, <1>4, PickedList DEF Limits!Others
    <2> QED BY <1>1, <1>4, <2>1 DEF CrowdInv
  <1>5. ASSUME NEW v, kept' = [i \in DOMAIN kept |-> IF kept[i].of = v THEN [kept[i] EXCEPT !.of = Nil] ELSE kept[i]],
               crowded' = crowded
        PROVE  CrowdInv'
    <2> DEFINE f == [i \in DOMAIN kept |-> IF kept[i].of = v THEN [kept[i] EXCEPT !.of = Nil] ELSE kept[i]]
    <2>1. kept' = [i \in DOMAIN kept |-> f[i]]
          BY <1>5
    <2> HIDE DEF f
    <2> QED BY <1>3, <1>5, <2>1
  <1>6. ASSUME NEW v \in Proc, Limits!Put(v) PROVE CrowdInv'
        BY <1>6, PutKeeps
  <1>7. ASSUME NEW v \in Proc, Limits!Check(v) \/ Limits!Count(v) \/ Limits!Fail(v) PROVE CrowdInv'
        BY <1>2, <1>7 DEF Limits!Check, Limits!Count, Limits!Fail
  <1>8. ASSUME NEW v \in Proc, Limits!Refused(v) PROVE CrowdInv'
        BY <1>5, <1>8 DEF Limits!Refused
  <1>9. ASSUME NEW v \in Proc, NEW ok \in BOOLEAN, Limits!Verify(v, ok) PROVE CrowdInv'
        BY <1>2, <1>4, <1>9 DEF Limits!Verify
  <1>10. ASSUME NEW v \in Proc, Limits!Leave(v) PROVE CrowdInv'
         BY <1>4, <1>5, <1>10 DEF Limits!Leave
  <1>11. ASSUME NEW v, NEW errand, NEW peer, NEW header, Limits!Come(v, errand, peer, header) PROVE CrowdInv'
         BY <1>2, <1>11 DEF Limits!Come
  <1>12. ASSUME Limits!Passes PROVE CrowdInv'
    <2> DEFINE f == [i \in DOMAIN kept |-> [kept[i] EXCEPT !.age = IF @ = Ttl THEN @ ELSE @ + 1]]
    <2>1. kept' = [i \in DOMAIN kept |-> f[i]] /\ crowded' = crowded
          BY <1>12 DEF Limits!Passes
    <2> HIDE DEF f
    <2> QED BY <1>3, <2>1
  <1> QED BY <1>6, <1>7, <1>8, <1>9, <1>10, <1>11, <1>12 DEF Limits!LimitsNext

-----------------------------------------------------------------------------
(* The machines side by side.                                              *)

MCInv == KeptInv /\ BookInv /\ LimitsInv /\ CrowdInv

\* What the saved values, the book and the limits keep holds in every state of the three.
THEOREM ThInv == MCSpec => []MCInv
  <1>1. MCInit => MCInv
        BY KeptInit, BookInit, LimitsInit, CrowdStart DEF MCInit, MCInv
  <1>2. MCInv /\ [MCNext]_<<part, vars, keptVars, bookVars, limitVars>> => MCInv'
    <2> SUFFICES ASSUME MCInv, [MCNext]_<<part, vars, keptVars, bookVars, limitVars>> PROVE MCInv'
        OBVIOUS
    <2>1. KeptInv /\ UNCHANGED keptVars => KeptInv'
          BY DEF keptVars, KeptInv, Kept!TypeOK, LockKept, WritesKept, ChangesKept, DiskKept, Kept!AckedIsKept
    <2>2. BookInv /\ UNCHANGED bookVars => BookInv'
          BY DEF bookVars, BookInv, Book!TypeOK, FileLocked, EditsFresh, CacheFresh, NeverAhead, Book!ReadsAreFresh
    <2>3. LimitsInv /\ UNCHANGED limitVars => LimitsInv'
      <3> SUFFICES ASSUME LimitsInv, UNCHANGED limitVars PROVE LimitsInv'
          OBVIOUS
      <3>1. UNCHANGED <<kept, failed, started, visit, crowded>>
            BY DEF limitVars
      <3>2. \A h : Trying(h)' = Trying(h) /\ Starting(h)' = Starting(h)
            BY <3>1 DEF Trying, Starting, Limits!Doing
      <3> QED BY <3>1, <3>2 DEF LimitsInv, LimitTypes, WindowsFit, OwnOnly
    <2>4. KeptInv' BY <2>1, KeptNext DEF MCInv, MCNext
    <2>5. BookInv' BY <2>2, BookNext DEF MCInv, MCNext
    <2>6. LimitsInv' BY <2>3, LimitsNext DEF MCInv, MCNext
    <2>7. CrowdInv /\ UNCHANGED limitVars => CrowdInv'
          BY DEF limitVars, CrowdInv
    <2>8. CrowdInv' BY <2>7, CrowdNext DEF MCInv, MCNext
    <2> QED BY <2>4, <2>5, <2>6, <2>8 DEF MCInv
  <1> QED BY <1>1, <1>2, PTL DEF MCSpec

\* What was answered Ok is in memory, and in the file unless a save failed or a request was dropped
\* (json_config.rs, scenes.rs, lamps.rs, auth.rs), whatever the number of tasks and changes.
THEOREM ThAckedIsKept == MCSpec => []AckedIsKept
  <1>1. MCInv => AckedIsKept
        BY DEF MCInv, KeptInv, AckedIsKept
  <1> QED BY <1>1, ThInv, PTL

\* Nobody is answered from a book older than the file was when they asked (people.rs), whatever the
\* number of tasks, command lines and edits.
THEOREM ThReadsAreFresh == MCSpec => []ReadsAreFresh
  <1>1. MCInv => ReadsAreFresh
        BY DEF MCInv, BookInv, ReadsAreFresh
  <1> QED BY <1>1, ThInv, PTL

\* A window counts at most the limit less one and one for each visit at once, and only the attempts
\* of the home it is for, whatever its visitors say they are; and no ceremony is pushed out by one of
\* another home that had as many as it may (passkey.rs: guarded, hit, client_ip, put).
THEOREM ThLimitsAreOwn == MCSpec => []LimitsAreOwn
  <1>1. MCInv => LimitsAreOwn
    <2> SUFFICES ASSUME MCInv PROVE LimitsAreOwn
        OBVIOUS
    <2>1. ASSUME NEW h \in Home
          PROVE  failed[h].n < Attempts + Cardinality(Proc) /\ started[h].n < Starts + Cardinality(Proc)
      <3>1. failed[h].n \in Nat /\ started[h].n \in Nat
            BY DEF MCInv, LimitsInv, LimitTypes, Count
      <3>2. Trying(h) \subseteq Proc /\ Starting(h) \subseteq Proc
            BY DEF Trying, Starting
      <3>3. Cardinality(Trying(h)) \in Nat /\ Cardinality(Starting(h)) \in Nat /\ Cardinality(Proc) \in Nat
            BY <3>2, SomeFinite
      <3> QED BY <3>1, <3>3, StorageAssumption DEF MCInv, LimitsInv, WindowsFit
    <2>2. \A h \in Home : ~failed[h].theirs /\ ~started[h].theirs
          BY DEF MCInv, LimitsInv, OwnOnly
    <2>3. Limits!Cardinality(Proc) = Cardinality(Proc)
          BY DEF Limits!Cardinality, Cardinality
    <2>4. Limits!WindowHolds BY <2>1, <2>3 DEF Limits!WindowHolds
    <2>5. ~crowded BY DEF MCInv, CrowdInv
    <2> QED BY <2>2, <2>4, <2>5 DEF LimitsAreOwn, Limits!LimitsAreOwn
  <1> QED BY <1>1, ThInv, PTL

=============================================================================
