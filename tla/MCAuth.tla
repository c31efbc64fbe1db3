------------------------------- MODULE MCAuth -------------------------------
(***************************************************************************)
(* Instances of Auth for TLC.                                              *)
(***************************************************************************)
EXTENDS Auth, TLC

CONSTANTS p1, p2, k1, k2, k3

\* p1 has one passkey, the others nobody's.
OnePerson == [c \in Cred |-> IF c = k1 THEN p1 ELSE Nil]

\* p1 and p2 have one each, the others nobody's.
OneEach == [c \in Cred |-> IF c = k1 THEN p1 ELSE IF c = k2 THEN p2 ELSE Nil]

\* p1 has two passkeys, the third is nobody's.
TwoKeys == [c \in Cred |-> IF c \in {k1, k2} THEN p1 ELSE Nil]

\* Ids drawn at random, and the requests, are interchangeable.
Interchangeable == Permutations(Tok) \cup Permutations(Req) \cup Permutations(Cer) \cup Permutations(Invite)

=============================================================================
