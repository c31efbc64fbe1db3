----------------------------- MODULE AtomicFile -----------------------------
(***************************************************************************)
(* What backend/src/store.rs promises of a state file edited by several    *)
(* processes: an edit applies to the file as it is, whole or not at all,   *)
(* and a power cut leaves the file or one it replaced since the directory  *)
(* was last synced ("either the old file or the new one").                 *)
(* The content is the set of the edits it contains.                        *)
(***************************************************************************)
CONSTANT Edit

VARIABLES
    content,   \* what a reader finds now
    versions   \* what a reader may find after a power cut

Init == content = {} /\ versions = {{}}

Commit(e) ==
    /\ content' = content \cup {e}
    /\ versions' = versions \cup {content \cup {e}}

Harden ==
    /\ content' = content
    /\ versions' = {content}

Cut ==
    /\ content' \in versions
    /\ versions' = {content'}

Next == (\E e \in Edit : Commit(e)) \/ Harden \/ Cut

Spec == Init /\ [][Next]_<<content, versions>>

=============================================================================
