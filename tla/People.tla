------------------------------- MODULE People -------------------------------
(***************************************************************************)
(* The book of backend/src/people.rs (auth.json): who may come in, with    *)
(* which passkeys, and the invitations still out.  Every operation of      *)
(* `People` that goes through `edit` is an operator from a book to a book; *)
(* `edit` runs it under the file's lock, so one application is one step.   *)
(*                                                                         *)
(* Names, dates shown to people and the credential's own JSON are left     *)
(* out.  A passkey record remembers the invitation it came from            *)
(* (provenance, not in the file) so that a property can speak of it.       *)
(***************************************************************************)
EXTENDS Naturals

CONSTANTS
    Person,      \* the slugs people are known by
    Cred,        \* credentials authenticators hold; also the stored passkey's id
    Invite,      \* invitation ids, each made at most once
    Handle,      \* WebAuthn user handles
    Nil,         \* nothing there
    InviteLife,  \* INVITE_DAYS, in clock ticks
    MaxNow       \* bound on the clock

ASSUME PeopleAssumption ==
    /\ MaxNow \in Nat
    /\ InviteLife \in Nat \ {0}
    /\ Nil \notin Person \cup Cred \cup Invite \cup Handle

Time == 0 .. MaxNow

Role == {"admin", "member"}

\* A person who is in the book.  notBefore: sessions issued earlier are over.
PersonRec == [role : Role, handle : Handle, notBefore : Time]

\* A registered passkey: whose, for which user handle, and from which invitation (Nil: from a session).
PasskeyRec == [person : Person, handle : Handle, via : Invite \cup {Nil}]

InviteRec == [person : Person, role : Role, created : Time, used : BOOLEAN]

ASSUME NilAssumption == Nil \notin PersonRec /\ Nil \notin PasskeyRec /\ Nil \notin InviteRec

Book == [people   : [Person -> PersonRec \cup {Nil}],
         passkeys : [Cred -> PasskeyRec \cup {Nil}],
         invites  : [Invite -> InviteRec \cup {Nil}]]

-----------------------------------------------------------------------------

Known(b, p) == b.people[p] # Nil

Holds(b, p, c) == b.passkeys[c] # Nil /\ b.passkeys[c].person = p

PasskeysOf(b, p) == {c \in Cred : Holds(b, p, c)}

\* Mutant: an invitation is good until it expires, used or not.
PendingUsed(b, i, t) ==
    /\ b.invites[i] # Nil
    /\ b.invites[i].created + InviteLife > t

\* `pending`: made, not used, not expired.
Pending(b, i, t) ==
    /\ b.invites[i] # Nil
    /\ ~b.invites[i].used
    /\ b.invites[i].created + InviteLife > t

\* The person's own handle, or `fresh` for someone who is not there yet.
UserHandle(b, p, fresh) == IF Known(b, p) THEN b.people[p].handle ELSE fresh

-----------------------------------------------------------------------------

\* The person, their passkeys and their invitations go; someone unknown changes nothing.
RemovePerson(b, p) ==
    IF Known(b, p)
    THEN [people   |-> [b.people EXCEPT ![p] = Nil],
          passkeys |-> [c \in Cred |-> IF Holds(b, p, c) THEN Nil ELSE b.passkeys[c]],
          invites  |-> [i \in Invite |-> IF b.invites[i] # Nil /\ b.invites[i].person = p
                                         THEN Nil ELSE b.invites[i]]]
    ELSE b

\* `not_before_ms` is assigned the caller's clock, whatever it held.
EndSessions(b, p, t) ==
    IF Known(b, p) THEN [b EXCEPT !.people[p].notBefore = t] ELSE b

\* Refused when the credential is registered, for anyone; the person is not looked up.
AddPasskey(b, c, key) ==
    IF b.passkeys[c] = Nil THEN [b EXCEPT !.passkeys[c] = key] ELSE b

\* Mutant: the last one too.
MayDeleteLast(b, p, c) == Holds(b, p, c)

\* Theirs, and not the only one of theirs.
MayDelete(b, p, c) == Holds(b, p, c) /\ \E d \in PasskeysOf(b, p) : d # c

DeletePasskey(b, p, c) ==
    IF MayDelete(b, p, c) THEN [b EXCEPT !.passkeys[c] = Nil] ELSE b

\* The spent and the expired go, and the person's pending one: a new link replaces it.
CreateInvite(b, i, p, r, t) ==
    [b EXCEPT !.invites =
        [j \in Invite |->
            IF j = i THEN [person |-> p, role |-> r, created |-> t, used |-> FALSE]
            ELSE IF Pending(b, j, t) /\ b.invites[j].person # p THEN b.invites[j] ELSE Nil]]

DeleteInvite(b, i) == [b EXCEPT !.invites[i] = Nil]

MayRedeem(b, i, c, t) == Pending(b, i, t) /\ b.passkeys[c] = Nil

\* Spent and its passkey registered at once.  A new person takes the ceremony's handle; one
\* who exists keeps theirs, and is made an admin by an admin's invitation, never unmade.
RedeemInvite(b, i, h, c, t) ==
    LET who == b.invites[i].person
        rec == IF Known(b, who)
               THEN [b.people[who] EXCEPT !.role = IF b.invites[i].role = "admin" THEN "admin" ELSE @]
               ELSE [role |-> b.invites[i].role, handle |-> h, notBefore |-> 0]
    IN  IF MayRedeem(b, i, c, t)
        THEN [people   |-> [b.people EXCEPT ![who] = rec],
              passkeys |-> [b.passkeys EXCEPT ![c] = [person |-> who, handle |-> h, via |-> i]],
              invites  |-> [b.invites EXCEPT ![i].used = TRUE]]
        ELSE b

=============================================================================
