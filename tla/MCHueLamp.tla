----------------------------- MODULE MCHueLamp -----------------------------
(***************************************************************************)
(* One lamp, blacklisted at its second failure, events up to two late.     *)
(***************************************************************************)
EXTENDS HueLamp
=============================================================================
