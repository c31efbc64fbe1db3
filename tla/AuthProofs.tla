----------------------------- MODULE AuthProofs -----------------------------
(***************************************************************************)
(* Who is let in, for any people, credentials, invitations, requests and   *)
(* lifetimes.  The invariant has four parts: the types, with what a        *)
(* request must carry at each place; the book and the links into it that   *)
(* requests and ceremonies hold; the families of refresh tokens; who       *)
(* proved themselves when.                                                 *)
(***************************************************************************)
EXTENDS Auth, TLAPS

-----------------------------------------------------------------------------
(* The invariant.                                                          *)

\* What a request carries at the place it is at.
Carries(q) ==
    /\ q.pc \notin {"idle", "revoking"} => q.who \in Person
    /\ q.pc \in {"greeted", "redeeming", "revoking"} => q.inv \in Invite
    /\ q.pc \in {"redeeming", "planting"} => q.cred \in Cred /\ q.hand \in Handle
    /\ q.pc = "unkeying" => q.cred \in Cred
    /\ q.pc \in {"unkeying", "ending", "dropping"} => q.op \in Kind

\* What a ceremony that registers a passkey is for.
Registers(cer) ==
    /\ cer.via # "login" => cer.person \in Person /\ cer.handle \in Handle
    /\ cer.via = "invite" => cer.inv \in Invite

\* Tokens the service speaks of were handed out.
Drawn(t) == sess[t] # Nil

TypeInv ==
    /\ TypeOK
    /\ \A r \in Req : Carries(req[r]) /\ (Rotating(r) => Drawn(req[r].from))
    /\ \A x \in Cer : cers[x] # Nil => Registers(cers[x])
    /\ \A t \in live \cup spent : Drawn(t)

\* Nobody is in the book b without a passkey.
Keyed(b) == \A p \in Person : Known(b, p) => \E c \in Cred : Holds(b, p, c)

Redeemed(b, c) == b.passkeys[c] # Nil /\ b.passkeys[c].via # Nil

\* A passkey that came from an invitation: the invitation is spent (of the ids in D, the ones drawn
\* so far), its person is there under its handle.
Rooted(b, D) ==
    \A c \in Cred : Redeemed(b, c) =>
        /\ b.passkeys[c].via \in D
        /\ b.invites[b.passkeys[c].via] # Nil => b.invites[b.passkeys[c].via].used
        /\ Known(b, b.passkeys[c].person)
        /\ b.people[b.passkeys[c].person].handle = b.passkeys[c].handle

\* And it is the only one of that invitation.
Single(b) ==
    \A c, d \in Cred : Redeemed(b, c) /\ Redeemed(b, d) /\ b.passkeys[c].via = b.passkeys[d].via => c = d

Listed(b, D) == \A i \in Invite : b.invites[i] # Nil => i \in D

Unspent(b, i) == b.invites[i] # Nil /\ ~b.invites[i].used

\* One unspent invitation for a person.
OneUnspent(b) ==
    \A i, j \in Invite : Unspent(b, i) /\ Unspent(b, j) /\ b.invites[i].person = b.invites[j].person => i = j

BookFits(b, D) == Keyed(b) /\ Rooted(b, D) /\ Single(b) /\ Listed(b, D) /\ OneUnspent(b)

\* i was made for p, and is for nobody else.
Ticket(b, D, i, p) == i \in D /\ (b.invites[i] # Nil => b.invites[i].person = p)

\* And as long as it is unspent, h is the handle p has or will have.
Redeemable(b, D, i, p, h) ==
    /\ Ticket(b, D, i, p)
    /\ Unspent(b, i) /\ Known(b, p) => b.people[p].handle = h

BookInv ==
    /\ BookFits(book, drawn)
    /\ \A r \in Req :
          /\ req[r].pc = "greeted" => Ticket(book, drawn, req[r].inv, req[r].who)
          /\ req[r].pc = "redeeming" => Redeemable(book, drawn, req[r].inv, req[r].who, req[r].hand)
    /\ \A x \in Cer : cers[x] # Nil /\ cers[x].via = "invite" =>
          Redeemable(book, drawn, cers[x].inv, cers[x].person, cers[x].handle)

\* A family is one sign-in of one person: its tokens name each other, one at most is live or being
\* rotated, and that one has no heir yet.  Families that were ended are out, but for those caught.
FamilyInv ==
    /\ \A t \in Tok : Drawn(t) => /\ Drawn(FamilyOf(t))
                                  /\ sess[t].parent # Nil => Drawn(sess[t].parent)
    /\ \A t, u \in Tok : Drawn(t) /\ Drawn(u) /\ FamilyOf(t) = FamilyOf(u) => sess[t].user = sess[u].user
    /\ \A r \in Req : Rotating(r) => sess[req[r].from].user = req[r].who
    /\ OneHeir
    /\ \A t, u \in Tok : Drawn(u) /\ sess[u].parent = t => t \notin live
    /\ \A r \in Req, u \in Tok : Rotating(r) /\ Drawn(u) => sess[u].parent # req[r].from
    /\ \A t \in ended : Drawn(t)
    /\ SignOutHolds
    /\ \A r \in Req : Rotating(r) /\ FamilyOf(req[r].from) \in ended => FamilyOf(req[r].from) \in caught

\* Where a request holds a proof that it may put in a session.
Proven(q) == q.pc \in {"rotating", "opening", "unkeying", "reopening"} \/ (q.pc \in {"ending", "dropping"} /\ q.op = "unkey")

ProofInv ==
    /\ AuthIsProof
    /\ \A r \in Req : Proven(req[r]) => <<req[r].who, req[r].auth>> \in proofs

IInv == TypeInv /\ BookInv /\ FamilyInv /\ ProofInv

-----------------------------------------------------------------------------
(* The operations of the book.                                             *)

\* The book n, with the ids in E drawn, honours the links that b did.
Honours(b, D, n, E) ==
    \A i \in Invite, q \in Person, h \in Handle :
        /\ Ticket(b, D, i, q) => Ticket(n, E, i, q)
        /\ Redeemable(b, D, i, q, h) => Redeemable(n, E, i, q, h)

\* More ids are drawn.
LEMMA DrawKeeps ==
  ASSUME NEW b \in Book, NEW D, NEW E, D \subseteq E, BookFits(b, D)
  PROVE  BookFits(b, E) /\ Honours(b, D, b, E)
  BY DEF BookFits, Rooted, Redeemed, Listed, Honours, Ticket, Redeemable

\* RemovePerson takes the person, their passkeys and their invitations together.
LEMMA RemoveKeeps ==
  ASSUME NEW b \in Book, NEW D, NEW p \in Person, BookFits(b, D)
  PROVE  /\ RemovePerson(b, p) \in Book
         /\ BookFits(RemovePerson(b, p), D)
         /\ Honours(b, D, RemovePerson(b, p), D)
  <1> DEFINE n == RemovePerson(b, p)
  <1>1. CASE ~Known(b, p)
        BY <1>1, DrawKeeps DEF RemovePerson
  <1>2. CASE Known(b, p)
    <2>1. /\ n.people = [b.people EXCEPT ![p] = Nil]
          /\ n.passkeys = [c \in Cred |-> IF Holds(b, p, c) THEN Nil ELSE b.passkeys[c]]
          /\ n.invites = [i \in Invite |-> IF b.invites[i] # Nil /\ b.invites[i].person = p THEN Nil ELSE b.invites[i]]
          /\ n = [people |-> n.people, passkeys |-> n.passkeys, invites |-> n.invites]
          BY <1>2 DEF RemovePerson
    <2>2. n \in Book
          BY <2>1 DEF Book
    <2> HIDE DEF n
    <2> USE <2>1 DEF BookFits, Known, Holds, Book
    <2>3. Keyed(n)
          BY DEF Keyed
    <2>4. Rooted(n, D)
          BY DEF Rooted, Redeemed, PasskeyRec
    <2>5. Single(n) /\ Listed(n, D) /\ OneUnspent(n)
          BY DEF Single, Redeemed, Listed, OneUnspent, Unspent
    <2>6. Honours(b, D, n, D)
          BY DEF Honours, Ticket, Redeemable, Unspent
    <2> QED BY <2>2, <2>3, <2>4, <2>5, <2>6 DEF n
  <1> QED BY <1>1, <1>2

\* EndSessions touches nobody's handle.
LEMMA EndKeeps ==
  ASSUME NEW b \in Book, NEW D, NEW p \in Person, NEW t \in Time, BookFits(b, D)
  PROVE  /\ EndSessions(b, p, t) \in Book
         /\ BookFits(EndSessions(b, p, t), D)
         /\ Honours(b, D, EndSessions(b, p, t), D)
  <1> DEFINE n == EndSessions(b, p, t)
  <1>1. CASE ~Known(b, p)
        BY <1>1, DrawKeeps DEF EndSessions
  <1>2. CASE Known(b, p)
    <2> DEFINE rec == [b.people[p] EXCEPT !.notBefore = t]
    <2>1. n = [b EXCEPT !.people[p].notBefore = t]
          BY <1>2 DEF EndSessions
    <2>2. b.people[p] \in PersonRec
          BY <1>2 DEF Known, Book
    <2>3. rec \in PersonRec /\ rec.handle = b.people[p].handle /\ rec # Nil
          BY <2>2, NilAssumption DEF PersonRec
    <2>4. /\ n.people = [b.people EXCEPT ![p] = rec]
          /\ n.passkeys = b.passkeys /\ n.invites = b.invites
          /\ n = [people |-> n.people, passkeys |-> n.passkeys, invites |-> n.invites]
          BY <2>1 DEF Book
    <2> HIDE DEF n, rec
    <2>5. n \in Book
          BY <2>3, <2>4 DEF Book
    <2>6. \A q \in Person : (Known(n, q) <=> Known(b, q)) /\ n.people[q].handle = b.people[q].handle
          BY <1>2, <2>3, <2>4 DEF Known, Book
    <2> USE <2>4, <2>6 DEF BookFits, Book
    <2>7. Keyed(n) /\ Single(n) /\ Listed(n, D) /\ OneUnspent(n)
          BY DEF Keyed, Holds, Single, Redeemed, Listed, OneUnspent, Unspent
    <2>8. Rooted(n, D)
          BY DEF Rooted, Redeemed, PasskeyRec
    <2>9. Honours(b, D, n, D)
          BY DEF Honours, Ticket, Redeemable, Unspent
    <2> QED BY <2>5, <2>7, <2>8, <2>9 DEF n
  <1> QED BY <1>1, <1>2

\* AddPasskey registers one that came from a session.
LEMMA AddKeeps ==
  ASSUME NEW b \in Book, NEW D, NEW c \in Cred, NEW key \in PasskeyRec, key.via = Nil, BookFits(b, D)
  PROVE  /\ AddPasskey(b, c, key) \in Book
         /\ BookFits(AddPasskey(b, c, key), D)
         /\ Honours(b, D, AddPasskey(b, c, key), D)
  <1> DEFINE n == AddPasskey(b, c, key)
  <1>1. CASE b.passkeys[c] # Nil
        BY <1>1, DrawKeeps DEF AddPasskey
  <1>2. CASE b.passkeys[c] = Nil
    <2>1. /\ n.people = b.people /\ n.invites = b.invites
          /\ n.passkeys = [b.passkeys EXCEPT ![c] = key]
          /\ n = [people |-> n.people, passkeys |-> n.passkeys, invites |-> n.invites]
          BY <1>2 DEF AddPasskey, Book
    <2> HIDE DEF n
    <2>2. n \in Book
          BY <2>1 DEF Book
    <2> USE <2>1, <1>2 DEF BookFits, Known, Holds, Book
    <2>3. Keyed(n)
          BY DEF Keyed
    <2>4. Rooted(n, D)
          BY DEF Rooted, Redeemed, PasskeyRec
    <2>5. Single(n) /\ Listed(n, D) /\ OneUnspent(n)
          BY DEF Single, Redeemed, Listed, OneUnspent, Unspent
    <2>6. Honours(b, D, n, D)
          BY DEF Honours, Ticket, Redeemable, Unspent
    <2> QED BY <2>2, <2>3, <2>4, <2>5, <2>6 DEF n
  <1> QED BY <1>1, <1>2

\* DeletePasskey leaves another of the same person.
LEMMA DeleteKeeps ==
  ASSUME NEW b \in Book, NEW D, NEW p \in Person, NEW c \in Cred, BookFits(b, D)
  PROVE  /\ DeletePasskey(b, p, c) \in Book
         /\ BookFits(DeletePasskey(b, p, c), D)
         /\ Honours(b, D, DeletePasskey(b, p, c), D)
  <1> DEFINE n == DeletePasskey(b, p, c)
  <1>1. CASE ~MayDelete(b, p, c)
        BY <1>1, DrawKeeps DEF DeletePasskey
  <1>2. CASE MayDelete(b, p, c)
    <2>1. /\ n.people = b.people /\ n.invites = b.invites
          /\ n.passkeys = [b.passkeys EXCEPT ![c] = Nil]
          /\ n = [people |-> n.people, passkeys |-> n.passkeys, invites |-> n.invites]
          BY <1>2 DEF DeletePasskey, Book
    <2>2. PICK d \in Cred : Holds(b, p, d) /\ d # c
          BY <1>2 DEF MayDelete, PasskeysOf
    <2> HIDE DEF n
    <2>3. n \in Book
          BY <2>1 DEF Book
    <2> USE <2>1 DEF BookFits, Book
    <2>4. Keyed(n)
      <3> SUFFICES ASSUME NEW q \in Person, Known(n, q) PROVE \E e \in Cred : Holds(n, q, e)
          BY DEF Keyed
      <3>1. PICK e \in Cred : Holds(b, q, e)
            BY DEF Keyed, Known
      <3>2. CASE e # c BY <3>1, <3>2 DEF Holds
      <3>3. CASE e = c
        <4>1. q = p BY <1>2, <3>1, <3>3 DEF MayDelete, Holds
        <4> QED BY <2>2, <4>1 DEF Holds
      <3> QED BY <3>2, <3>3
    <2>5. Rooted(n, D)
          BY DEF Rooted, Redeemed, PasskeyRec, Known
    <2>6. Single(n) /\ Listed(n, D) /\ OneUnspent(n)
          BY DEF Single, Redeemed, Listed, OneUnspent, Unspent
    <2>7. Honours(b, D, n, D)
          BY DEF Honours, Ticket, Redeemable, Unspent, Known
    <2> QED BY <2>3, <2>4, <2>5, <2>6, <2>7 DEF n
  <1> QED BY <1>1, <1>2

\* CreateInvite lists a new id, and no other unspent one for the same person.
LEMMA CreateKeeps ==
  ASSUME NEW b \in Book, NEW D, NEW i \in Invite, NEW p \in Person, NEW r \in Role, NEW t \in Time,
         BookFits(b, D), i \notin D
  PROVE  /\ CreateInvite(b, i, p, r, t) \in Book
         /\ BookFits(CreateInvite(b, i, p, r, t), D \cup {i})
         /\ Honours(b, D, CreateInvite(b, i, p, r, t), D \cup {i})
  <1> DEFINE n == CreateInvite(b, i, p, r, t)
             new == [person |-> p, role |-> r, created |-> t, used |-> FALSE]
             after == [j \in Invite |->
                          IF j = i THEN new
                          ELSE IF Pending(b, j, t) /\ b.invites[j].person # p THEN b.invites[j] ELSE Nil]
  <1>1. /\ n.people = b.people /\ n.passkeys = b.passkeys
        /\ n.invites = after
        /\ n = [people |-> n.people, passkeys |-> n.passkeys, invites |-> n.invites]
    <2>1. n = [b EXCEPT !.invites = after]
          BY DEF CreateInvite
    <2> HIDE DEF n, after
    <2> QED BY <2>1 DEF Book
  <1>2. new \in InviteRec /\ new.person = p /\ ~new.used
        BY DEF InviteRec
  <1>3. new # Nil
        BY <1>2, NilAssumption
  <1> HIDE DEF n, new
  <1>4. n \in Book
        BY <1>1, <1>2 DEF Book
  <1>5. /\ n.invites[i] = new
        /\ \A j \in Invite \ {i} : n.invites[j] # Nil => n.invites[j] = b.invites[j] /\ b.invites[j].person # p
        BY <1>1
  <1> USE <1>5 DEF BookFits, Book
  <1>6. Keyed(n)
        BY <1>1 DEF Keyed, Known, Holds
  <1>7. Rooted(n, D \cup {i})
        BY <1>1 DEF Rooted, Redeemed, PasskeyRec, Known
  <1>8. Single(n) /\ Listed(n, D \cup {i})
        BY <1>1 DEF Single, Redeemed, Listed
  <1>9. OneUnspent(n)
        BY <1>2 DEF OneUnspent, Unspent
  <1>10. Honours(b, D, n, D \cup {i})
        BY <1>1 DEF Honours, Ticket, Redeemable, Unspent, Known
  <1> QED BY <1>4, <1>6, <1>7, <1>8, <1>9, <1>10 DEF n

\* DeleteInvite leaves spent and unspent links to nothing.
LEMMA RevokeKeeps ==
  ASSUME NEW b \in Book, NEW D, NEW i \in Invite, BookFits(b, D)
  PROVE  /\ DeleteInvite(b, i) \in Book
         /\ BookFits(DeleteInvite(b, i), D)
         /\ Honours(b, D, DeleteInvite(b, i), D)
  <1> DEFINE n == DeleteInvite(b, i)
  <1>1. /\ n.people = b.people /\ n.passkeys = b.passkeys
        /\ n.invites = [b.invites EXCEPT ![i] = Nil]
        /\ n = [people |-> n.people, passkeys |-> n.passkeys, invites |-> n.invites]
        BY DEF DeleteInvite, Book
  <1> HIDE DEF n
  <1>2. n \in Book
        BY <1>1 DEF Book
  <1> USE <1>1 DEF BookFits, Book
  <1>3. Keyed(n) /\ Single(n) /\ Listed(n, D) /\ OneUnspent(n)
        BY DEF Keyed, Known, Holds, Single, Redeemed, Listed, OneUnspent, Unspent
  <1>4. Rooted(n, D)
        BY DEF Rooted, Redeemed, PasskeyRec, Known
  <1>5. Honours(b, D, n, D)
        BY DEF Honours, Ticket, Redeemable, Unspent, Known
  <1> QED BY <1>2, <1>3, <1>4, <1>5 DEF n

\* RedeemInvite, over a link that is honoured: the handle is the one the person has in the end.
LEMMA RedeemKeeps ==
  ASSUME NEW b \in Book, NEW D, NEW i \in Invite, NEW p \in Person, NEW h \in Handle, NEW c \in Cred,
         NEW t \in Time, BookFits(b, D), Redeemable(b, D, i, p, h)
  PROVE  /\ RedeemInvite(b, i, h, c, t) \in Book
         /\ BookFits(RedeemInvite(b, i, h, c, t), D)
         /\ Honours(b, D, RedeemInvite(b, i, h, c, t), D)
  <1> DEFINE n == RedeemInvite(b, i, h, c, t)
  <1>1. CASE ~MayRedeem(b, i, c, t)
        BY <1>1, DrawKeeps DEF RedeemInvite
  <1>2. CASE MayRedeem(b, i, c, t)
    <2>1. /\ b.invites[i] \in InviteRec /\ b.invites[i].person = p /\ Unspent(b, i) /\ i \in D
          /\ b.passkeys[c] = Nil /\ b.invites[i].role \in Role
          BY <1>2 DEF MayRedeem, Pending, Redeemable, Ticket, Unspent, Book, InviteRec
    <2> DEFINE key == [person |-> p, handle |-> h, via |-> i]
               rec == IF Known(b, p)
                      THEN [b.people[p] EXCEPT !.role = IF b.invites[i].role = "admin" THEN "admin" ELSE @]
                      ELSE [role |-> b.invites[i].role, handle |-> h, notBefore |-> 0]
               made == [b.invites[i] EXCEPT !.used = TRUE]
    <2>2. n = [people   |-> [b.people EXCEPT ![p] = rec],
               passkeys |-> [b.passkeys EXCEPT ![c] = key],
               invites  |-> [b.invites EXCEPT ![i].used = TRUE]]
          BY <1>2, <2>1 DEF RedeemInvite
    <2>3. [b.invites EXCEPT ![i].used = TRUE] = [b.invites EXCEPT ![i] = made]
          BY DEF Book
    <2>4. /\ n.people = [b.people EXCEPT ![p] = rec] /\ n.passkeys = [b.passkeys EXCEPT ![c] = key]
          /\ n.invites = [b.invites EXCEPT ![i] = made]
          /\ n = [people |-> n.people, passkeys |-> n.passkeys, invites |-> n.invites]
          BY <2>2, <2>3
    <2>5. key \in PasskeyRec /\ key # Nil /\ key.person = p /\ key.handle = h /\ key.via = i
          BY NilAssumption DEF PasskeyRec
    <2>6. made \in InviteRec /\ made.used /\ made.person = p
          BY <2>1 DEF InviteRec
    <2>7. rec \in PersonRec /\ rec # Nil /\ rec.handle = h
      <3>1. CASE Known(b, p)
        <4>1. b.people[p] \in PersonRec /\ b.people[p].handle = h
              BY <2>1, <3>1 DEF Known, Book, Redeemable
        <4> QED BY <3>1, <4>1, NilAssumption DEF PersonRec, Role
      <3>2. CASE ~Known(b, p)
            BY <2>1, <3>2, PeopleAssumption, NilAssumption DEF PersonRec, Time
      <3> QED BY <3>1, <3>2
    <2> HIDE DEF n, key, rec, made
    <2>8. n \in Book
          BY <2>4, <2>5, <2>6, <2>7 DEF Book
    <2>9. \A q \in Person : /\ Known(b, q) => Known(n, q) /\ n.people[q].handle = b.people[q].handle
                            /\ q # p => (Known(n, q) <=> Known(b, q))
      <3>1. Known(b, p) => b.people[p].handle = h
            BY <2>1 DEF Redeemable
      <3> QED BY <2>4, <2>7, <3>1 DEF Known, Book
    <2>10. Known(n, p) /\ n.people[p].handle = h
          BY <2>4, <2>7 DEF Known, Book
    <2> USE DEF BookFits
    <2>11. Keyed(n)
          BY <2>1, <2>4, <2>5, <2>9 DEF Keyed, Holds, Book
    <2>12. Rooted(n, D)
      <3> SUFFICES ASSUME NEW d \in Cred, Redeemed(n, d)
                   PROVE  /\ n.passkeys[d].via \in D
                          /\ n.invites[n.passkeys[d].via] # Nil => n.invites[n.passkeys[d].via].used
                          /\ Known(n, n.passkeys[d].person)
                          /\ n.people[n.passkeys[d].person].handle = n.passkeys[d].handle
          BY DEF Rooted
      <3>1. CASE d = c
            BY <2>1, <2>4, <2>5, <2>6, <2>10, <3>1 DEF Book
      <3>2. CASE d # c
        <4>1. n.passkeys[d] = b.passkeys[d] /\ Redeemed(b, d) /\ b.passkeys[d] \in PasskeyRec
              BY <2>4, <3>2 DEF Redeemed, Book
        <4>2. b.passkeys[d].person \in Person /\ b.passkeys[d].via \in Invite
              BY <4>1 DEF Redeemed, PasskeyRec
        <4> QED BY <2>4, <2>6, <2>9, <4>1, <4>2 DEF Rooted, Book
      <3> QED BY <3>1, <3>2
    <2>13. Single(n)
      <3>1. \A d \in Cred : Redeemed(b, d) => b.passkeys[d].via # i
            BY <2>1 DEF Rooted, Unspent
      <3>2. \A d \in Cred \ {c} : n.passkeys[d] = b.passkeys[d]
            BY <2>4 DEF Book
      <3>3. n.passkeys[c].via = i
            BY <2>4, <2>5 DEF Book
      <3> QED BY <3>1, <3>2, <3>3 DEF Single, Redeemed
    <2>14. Listed(n, D) /\ OneUnspent(n)
      <3>1. /\ n.invites[i].used
            /\ \A j \in Invite \ {i} : n.invites[j] = b.invites[j]
            BY <2>4, <2>6 DEF Book
      <3> QED BY <2>1, <3>1 DEF Listed, OneUnspent, Unspent
    <2>15. Honours(b, D, n, D)
      <3>1. /\ n.invites[i].used /\ n.invites[i].person = b.invites[i].person
            /\ \A j \in Invite \ {i} : n.invites[j] = b.invites[j]
            BY <2>1, <2>4, <2>6 DEF Book
      <3>2. \A j \in Invite, q \in Person : Ticket(b, D, j, q) => Ticket(n, D, j, q)
            BY <2>1, <3>1 DEF Ticket, Unspent
      <3>3. ASSUME NEW j \in Invite, NEW q \in Person, NEW g \in Handle,
                   Redeemable(b, D, j, q, g), Unspent(n, j), Known(n, q)
            PROVE  n.people[q].handle = g
        <4>1. j # i /\ Unspent(b, j) /\ b.invites[j].person = q
              BY <3>1, <3>3 DEF Unspent, Redeemable, Ticket
        <4>2. q # p
              BY <2>1, <4>1 DEF OneUnspent
        <4> QED BY <2>9, <3>3, <4>1, <4>2 DEF Redeemable
      <3> QED BY <3>2, <3>3 DEF Honours, Redeemable
    <2> QED BY <2>8, <2>11, <2>12, <2>13, <2>14, <2>15 DEF n
  <1> QED BY <1>1, <1>2

-----------------------------------------------------------------------------
(* The first state.                                                        *)

\* The house starts with its founders, signed out and with no link pending.
LEMMA InitIInv == Init => IInv
  <1> SUFFICES ASSUME Init PROVE IInv
      OBVIOUS
  <1> USE DEF Init
  <1>1. Person \subseteq Handle /\ Nil \notin Person /\ 0 \in Time
        BY AuthAssumption, PeopleAssumption DEF Time
  <1>2. Idle \in ReqRec /\ Carries(Idle) /\ Idle.from = Nil /\ Idle.pc = "idle"
        BY <1>1 DEF Idle, ReqRec, PC, Role, Carries
  <1>3. ASSUME NEW c \in Cred
        PROVE  /\ InitBook.passkeys[c] \in PasskeyRec \cup {Nil}
               /\ ~Redeemed(InitBook, c)
               /\ \A p \in Person : Owner[c] = p => Holds(InitBook, p, c)
    <2>1. CASE Owner[c] = Nil
          BY <1>1, <2>1 DEF InitBook, Redeemed
    <2>2. CASE Owner[c] # Nil
      <3> DEFINE key == [person |-> Owner[c], handle |-> Owner[c], via |-> Nil]
      <3>1. key \in PasskeyRec /\ key.person = Owner[c] /\ key.via = Nil
            BY <1>1, <2>2, AuthAssumption DEF PasskeyRec
      <3>2. InitBook.passkeys[c] = key /\ key # Nil
            BY <2>2, <3>1, NilAssumption DEF InitBook
      <3> HIDE DEF key
      <3> QED BY <3>1, <3>2 DEF Redeemed, Holds
    <2> QED BY <2>1, <2>2
  <1>4. ASSUME NEW p \in Person
        PROVE  /\ InitBook.people[p] \in PersonRec \cup {Nil}
               /\ Known(InitBook, p) => \E c \in Cred : Owner[c] = p
        BY <1>1 DEF InitBook, PersonRec, Role, Known
  <1>5. InitBook \in Book
    <2>1. /\ InitBook.people \in [Person -> PersonRec \cup {Nil}]
          /\ InitBook.passkeys \in [Cred -> PasskeyRec \cup {Nil}]
      <3>1. /\ InitBook.people = [p \in Person |-> InitBook.people[p]]
            /\ InitBook.passkeys = [c \in Cred |-> InitBook.passkeys[c]]
            BY DEF InitBook
      <3> QED BY <1>3, <1>4, <3>1
    <2>2. InitBook.invites \in [Invite -> InviteRec \cup {Nil}]
          BY DEF InitBook
    <2>3. InitBook = [people |-> InitBook.people, passkeys |-> InitBook.passkeys, invites |-> InitBook.invites]
          BY DEF InitBook
    <2> QED BY <2>1, <2>2, <2>3 DEF Book
  <1>6. TypeInv
        BY <1>1, <1>2, <1>5 DEF TypeInv, TypeOK, Rotating
  <1>7. BookInv
    <2>1. BookFits(InitBook, {})
      <3>1. \A i \in Invite : InitBook.invites[i] = Nil
            BY DEF InitBook
      <3> QED BY <1>3, <1>4, <3>1 DEF BookFits, Keyed, Rooted, Single, Listed, OneUnspent, Unspent
    <2> QED BY <1>2, <2>1 DEF BookInv
  <1>8. FamilyInv
        BY <1>2 DEF FamilyInv, Drawn, Rotating, OneHeir, SignOutHolds
  <1>9. ProofInv
        BY <1>2 DEF ProofInv, AuthIsProof, Proven
  <1> QED BY <1>6, <1>7, <1>8, <1>9 DEF IInv

-----------------------------------------------------------------------------
(* Types.                                                                  *)

\* What a request at rest or in flight may be.
Fits(q) == q \in ReqRec /\ Carries(q) /\ (q.from # Nil => Drawn(q.from))

\* A request at rest carries nothing.
LEMMA IdleFits == Fits(Idle) /\ Idle.pc = "idle" /\ Idle.from = Nil
  <1>1. 0 \in Time
        BY PeopleAssumption DEF Time
  <1> QED BY <1>1 DEF Fits, Idle, ReqRec, PC, Role, Carries

\* A request moves on, and the tokens the service speaks of are drawn ones still.
LEMMA GotoFits ==
  ASSUME TypeInv, NEW r \in Req, NEW q, Fits(q), Goto(r, q), UNCHANGED sess
  PROVE  req' \in [Req -> ReqRec] /\ \A s \in Req : Fits(req[s])'
  BY DEF TypeInv, TypeOK, Goto, Fits, Rotating, Drawn

\* A request ends, whatever it was at: tokens drawn stay drawn.
LEMMA DoneFits ==
  ASSUME TypeInv, NEW r \in Req, Done(r), \A t \in Tok : Drawn(t) => Drawn(t)'
  PROVE  req' \in [Req -> ReqRec] /\ \A s \in Req : Fits(req[s])'
  <1>1. \A q : Fits(q) => Fits(q)'
        BY DEF Fits, ReqRec
  <1> QED BY <1>1, IdleFits DEF TypeInv, TypeOK, Done, Fits, Rotating

\* What any step may do to the book: it stays one that fits, and honours its links.
LEMMA BookStep ==
  ASSUME TypeInv, BookInv, [Next]_vars
  PROVE  book' \in Book /\ BookFits(book', drawn') /\ Honours(book, drawn, book', drawn')
  <1> USE DEF TypeInv, TypeOK
  <1>1. BookFits(book, drawn)
        BY DEF BookInv
  <1>2. CASE UNCHANGED book /\ drawn \subseteq drawn'
        BY <1>1, <1>2, DrawKeeps
  <1>3. ASSUME NEW r \in Req, End(r) \/ Evict(r)
        PROVE  book' \in Book /\ BookFits(book', drawn') /\ Honours(book, drawn, book', drawn')
    <2>1. req[r].who \in Person /\ req[r].at \in Time
          BY <1>3 DEF End, Evict, At, Carries, ReqRec
    <2>2. UNCHANGED drawn /\ (book' = EndSessions(book, req[r].who, req[r].at) \/ book' = RemovePerson(book, req[r].who))
          BY <1>3 DEF End, Evict
    <2> QED BY <1>1, <2>1, <2>2, EndKeeps, RemoveKeeps
  <1>4. ASSUME NEW r \in Req, Redeem(r)
        PROVE  book' \in Book /\ BookFits(book', drawn') /\ Honours(book, drawn, book', drawn')
    <2> DEFINE q == req[r]
    <2>1. q.who \in Person /\ q.inv \in Invite /\ q.hand \in Handle /\ q.cred \in Cred /\ q.at \in Time
          BY <1>4 DEF Redeem, At, Carries, ReqRec
    <2>2. Redeemable(book, drawn, q.inv, q.who, q.hand)
          BY <1>4 DEF BookInv, Redeem, At
    <2>3. UNCHANGED drawn /\ book' = RedeemInvite(book, q.inv, q.hand, q.cred, q.at)
          BY <1>4 DEF Redeem
    <2> HIDE DEF q
    <2> QED BY <1>1, <2>1, <2>2, <2>3, RedeemKeeps
  <1>5. ASSUME NEW r \in Req, Plant(r)
        PROVE  book' \in Book /\ BookFits(book', drawn') /\ Honours(book, drawn, book', drawn')
    <2> DEFINE key == [person |-> req[r].who, handle |-> req[r].hand, via |-> Nil]
    <2>1. req[r].who \in Person /\ req[r].hand \in Handle /\ req[r].cred \in Cred
          BY <1>5 DEF Plant, At, Carries
    <2>2. key \in PasskeyRec /\ key.via = Nil
          BY <2>1 DEF PasskeyRec
    <2>3. UNCHANGED drawn /\ book' = AddPasskey(book, req[r].cred, key)
          BY <1>5 DEF Plant
    <2> HIDE DEF key
    <2> QED BY <1>1, <2>1, <2>2, <2>3, AddKeeps
  <1>6. ASSUME NEW r \in Req, Unkey(r)
        PROVE  book' \in Book /\ BookFits(book', drawn') /\ Honours(book, drawn, book', drawn')
    <2>1. req[r].who \in Person /\ req[r].cred \in Cred
          BY <1>6 DEF Unkey, At, Carries
    <2>2. UNCHANGED drawn /\ book' = DeletePasskey(book, req[r].who, req[r].cred)
          BY <1>6 DEF Unkey
    <2> QED BY <1>1, <2>1, <2>2, DeleteKeeps
  <1>7. ASSUME NEW r \in Req, NEW i \in Invite, NewInvite(r, i)
        PROVE  book' \in Book /\ BookFits(book', drawn') /\ Honours(book, drawn, book', drawn')
    <2>1. req[r].who \in Person /\ req[r].role \in Role /\ req[r].at \in Time
          BY <1>7 DEF NewInvite, At, Carries, ReqRec
    <2>2. /\ i \notin drawn /\ drawn' = drawn \cup {i}
          /\ book' = CreateInvite(book, i, req[r].who, req[r].role, req[r].at)
          BY <1>7 DEF NewInvite
    <2> QED BY <1>1, <2>1, <2>2, CreateKeeps
  <1>8. ASSUME NEW r \in Req, Revoke(r)
        PROVE  book' \in Book /\ BookFits(book', drawn') /\ Honours(book, drawn, book', drawn')
    <2>1. req[r].inv \in Invite
          BY <1>8 DEF Revoke, At, Carries
    <2>2. UNCHANGED drawn /\ book' = DeleteInvite(book, req[r].inv)
          BY <1>8 DEF Revoke
    <2> QED BY <1>1, <2>1, <2>2, RevokeKeeps
  <1>9. ASSUME NEW r \in Req, Sessions(r)
        PROVE  End(r) \/ (UNCHANGED book /\ drawn \subseteq drawn')
        BY <1>9 DEF Sessions, RefreshTake, RefreshReplayed, RefreshUnknown, OpenSession, EverywhereStart,
                    RefreshPerson, Drop
  <1>10. ASSUME NEW r \in Req, Ceremonies(r)
         PROVE  Redeem(r) \/ Plant(r) \/ (UNCHANGED book /\ drawn \subseteq drawn')
         BY <1>10 DEF Ceremonies, InvitePut, AddPut, LoginFinish, RegisterFinish, LoginUsed, InviteStart, AddStart
  <1>11. ASSUME NEW r \in Req, Accounts(r)
         PROVE  \/ \E i \in Invite : NewInvite(r, i)
                \/ Unkey(r) \/ Evict(r) \/ Revoke(r) \/ (UNCHANGED book /\ drawn \subseteq drawn')
         BY <1>11 DEF Accounts, UnkeyStart, EvictStart, InviteByName, InviteBack, RevokeStart, CliInvite,
                      Reopen, InviteName
  <1>12. CASE \/ \E r \in Req : Cancel(r)
              \/ \E t \in Tok : Logout(t)
              \/ \E x \in Cer : LoginStart(x) \/ ForgetCeremony(x)
              \/ Restart \/ Tick \/ UNCHANGED vars
         BY <1>2, <1>12 DEF Cancel, Logout, LoginStart, ForgetCeremony, Restart, Tick, vars
  <1> QED BY <1>2, <1>3, <1>4, <1>5, <1>6, <1>7, <1>8, <1>9, <1>10, <1>11, <1>12 DEF Next

\* What a token that was handed out says of its session.
LEMMA SessOf ==
  ASSUME TypeInv, NEW t \in Tok, Drawn(t)
  PROVE  /\ sess[t] \in SessRec
         /\ sess[t].user \in Person /\ sess[t].auth \in Time /\ sess[t].issued \in Time
         /\ sess[t].family \in Tok /\ sess[t].parent \in Tok \cup {Nil}
  BY DEF TypeInv, TypeOK, Drawn, SessRec

\* What any step of a session request does to the requests.
LEMMA SessionsFit ==
  ASSUME TypeInv, NEW r \in Req, Sessions(r)
  PROVE  req' \in [Req -> ReqRec] /\ \A s \in Req : Fits(req[s])'
  <1> DEFINE Result == req' \in [Req -> ReqRec] /\ \A s \in Req : Fits(req[s])'
  <1>1. now \in Time /\ req[r] \in ReqRec /\ Carries(req[r]) /\ (req[r].from # Nil => Drawn(req[r].from)) /\ 0 \in Time
        BY PeopleAssumption DEF TypeInv, TypeOK, Rotating, Time
  <1>2. ASSUME UNCHANGED <<req, sess>> PROVE Result
    <2>1. \A s \in Req : Fits(req[s])
          BY DEF TypeInv, TypeOK, Fits, Rotating
    <2> QED BY <1>2, <2>1 DEF TypeInv, TypeOK, Fits, Drawn, Carries
  <1>3. ASSUME NEW t \in Tok, RefreshTake(r, t) PROVE Result
    <2> DEFINE q == [Idle EXCEPT !.pc = "rotating", !.who = sess[t].user, !.auth = sess[t].auth, !.from = t]
    <2>1. Drawn(t)
          BY <1>3 DEF RefreshTake, Unexpired, TypeInv
    <2>2. Fits(q)
          BY <1>1, <2>1, SessOf DEF Fits, Idle, ReqRec, PC, Role, Carries
    <2>3. Goto(r, q) /\ UNCHANGED sess
          BY <1>3 DEF RefreshTake
    <2> HIDE DEF q
    <2> QED BY <2>2, <2>3, GotoFits
  <1>4. ASSUME NEW t \in Tok, OpenSession(r, t) PROVE Result
    <2>1. Opened(r, t) # Nil
      <3>1. Opened(r, t) \in SessRec
        <4>1. /\ At(r, "opening") => req[r].who \in Person
              /\ req[r].from # Nil => FamilyOf(req[r].from) \in Tok
              BY <1>1, SessOf DEF Carries, At, FamilyOf, ReqRec
        <4> QED BY <1>1, <1>4, <4>1 DEF OpenSession, Opened, SessRec, ReqRec
      <3> QED BY <3>1, NilSessAssumption
    <2>2. \A u \in Tok : Drawn(u) => Drawn(u)'
          BY <1>4, <2>1 DEF OpenSession, Drawn, TypeInv, TypeOK
    <2> QED BY <1>4, <2>2, DoneFits DEF OpenSession
  <1>5. ASSUME NEW t \in Tok, EverywhereStart(r, t) PROVE Result
    <2> DEFINE q == [Idle EXCEPT !.pc = "ending", !.op = "everywhere", !.who = sess[t].user, !.at = now]
    <2>1. Drawn(t) /\ "everywhere" \in Kind
          BY <1>5 DEF EverywhereStart, AccessValid, Drawn, Arrives
    <2>2. Fits(q)
          BY <1>1, <2>1, SessOf DEF Fits, Idle, ReqRec, PC, Role, Carries
    <2>3. Goto(r, q) /\ UNCHANGED sess
          BY <1>5 DEF EverywhereStart, tokens
    <2> HIDE DEF q
    <2> QED BY <2>2, <2>3, GotoFits
  <1>6. ASSUME RefreshPerson(r) PROVE Result
    <2> DEFINE q == [req[r] EXCEPT !.pc = "opening", !.at = now]
    <2>1. Fits(q)
          BY <1>1, <1>6 DEF RefreshPerson, At, Fits, ReqRec, PC, Carries
    <2>2. (Goto(r, q) \/ Done(r)) /\ UNCHANGED sess
          BY <1>6 DEF RefreshPerson, tokens
    <2> HIDE DEF q
    <2> QED BY <2>1, <2>2, GotoFits, DoneFits DEF Drawn
  <1>7. ASSUME End(r) PROVE Result
    <2> DEFINE q == [req[r] EXCEPT !.pc = "dropping"]
    <2>1. Fits(q)
          BY <1>1, <1>7 DEF End, At, Fits, ReqRec, PC, Carries
    <2>2. Goto(r, q) /\ UNCHANGED sess
          BY <1>7 DEF End, tokens
    <2> HIDE DEF q
    <2> QED BY <2>1, <2>2, GotoFits
  <1>8. ASSUME Drop(r) PROVE Result
    <2> DEFINE q == [req[r] EXCEPT !.pc = AfterDrop[req[r].op]]
    <2>1. req[r].op \in Kind /\ req[r].who \in Person
          BY <1>1, <1>8 DEF Drop, At, Carries
    <2>2. AfterDrop[req[r].op] \in {"idle", "reopening", "evicting"}
          BY <2>1 DEF AfterDrop
    <2>3. Fits(q)
          BY <1>1, <2>1, <2>2 DEF Fits, ReqRec, PC, Carries
    <2>4. (Goto(r, q) \/ Done(r)) /\ UNCHANGED sess
          BY <1>8 DEF Drop
    <2> HIDE DEF q
    <2> QED BY <2>3, <2>4, GotoFits, DoneFits DEF Drawn
  <1> QED BY <1>2, <1>3, <1>4, <1>5, <1>6, <1>7, <1>8 DEF Sessions, RefreshReplayed, RefreshUnknown

\* Of a ceremony's request: those of a ceremony carry what it is for.
LEMMA CeremoniesFit ==
  ASSUME TypeInv, NEW r \in Req, Ceremonies(r)
  PROVE  req' \in [Req -> ReqRec] /\ \A s \in Req : Fits(req[s])'
  <1> DEFINE Result == req' \in [Req -> ReqRec] /\ \A s \in Req : Fits(req[s])'
  <1>1. now \in Time /\ req[r] \in ReqRec /\ Carries(req[r]) /\ (req[r].from # Nil => Drawn(req[r].from)) /\ 0 \in Time
        BY PeopleAssumption DEF TypeInv, TypeOK, Rotating, Time
  <1>2. UNCHANGED sess
        BY DEF Ceremonies, InvitePut, AddPut, LoginFinish, RegisterFinish, LoginUsed, InviteStart, AddStart,
               Redeem, Plant, tokens
  <1>3. ASSUME Done(r) PROVE Result
        BY <1>2, <1>3, DoneFits DEF Drawn
  <1>4. ASSUME NEW q, Fits(q), Goto(r, q) PROVE Result
        BY <1>2, <1>4, GotoFits
  <1> HIDE DEF Result
  <1>5. ASSUME NEW x \in Cer, NEW c \in Cred, LoginFinish(r, x, c) PROVE Result
    <2> DEFINE q == [Idle EXCEPT !.pc = "identified", !.who = book.passkeys[c].person]
    <2>1. Identifies(c) => Fits(q)
      <3>1. Identifies(c) => book.passkeys[c].person \in Person
            BY DEF Identifies, TypeInv, TypeOK, Book, PasskeyRec
      <3> QED BY <1>1, <3>1 DEF Fits, Idle, ReqRec, PC, Role, Carries
    <2>2. (Identifies(c) /\ Goto(r, q)) \/ Done(r)
          BY <1>5 DEF LoginFinish
    <2> HIDE DEF q
    <2> QED BY <1>3, <1>4, <2>1, <2>2
  <1>6. ASSUME LoginUsed(r) PROVE Result
    <2> DEFINE q == [req[r] EXCEPT !.pc = "opening", !.auth = now, !.at = now]
    <2>1. Fits(q)
          BY <1>1, <1>6 DEF LoginUsed, At, Fits, ReqRec, PC, Carries
    <2>2. Goto(r, q)
          BY <1>6 DEF LoginUsed
    <2> HIDE DEF q
    <2> QED BY <1>4, <2>1, <2>2
  <1>7. ASSUME NEW i \in Invite, InviteStart(r, i) PROVE Result
    <2> DEFINE q == [Idle EXCEPT !.pc = "greeted", !.who = book.invites[i].person, !.inv = i]
    <2>1. book.invites[i].person \in Person
          BY <1>7 DEF InviteStart, Pending, TypeInv, TypeOK, Book, InviteRec
    <2>2. Fits(q)
          BY <1>1, <2>1 DEF Fits, Idle, ReqRec, PC, Role, Carries
    <2>3. Goto(r, q)
          BY <1>7 DEF InviteStart
    <2> HIDE DEF q
    <2> QED BY <1>4, <2>2, <2>3
  <1>8. ASSUME NEW t \in Tok, AddStart(r, t) PROVE Result
    <2> DEFINE q == [Idle EXCEPT !.pc = "adding", !.who = sess[t].user]
    <2>1. Drawn(t)
          BY <1>8 DEF AddStart, AccessValid, Drawn
    <2>2. Fits(q)
          BY <1>1, <2>1, SessOf DEF Fits, Idle, ReqRec, PC, Role, Carries
    <2>3. Goto(r, q)
          BY <1>8 DEF AddStart
    <2> HIDE DEF q
    <2> QED BY <1>4, <2>2, <2>3
  <1>9. ASSUME NEW x \in Cer, NEW c \in Cred, RegisterFinish(r, x, c) PROVE Result
    <2> DEFINE cer == cers[x]
               next == [Idle EXCEPT !.who = cer.person, !.inv = cer.inv, !.hand = cer.handle,
                                    !.cred = c, !.at = now]
               redeeming == [next EXCEPT !.pc = "redeeming"]
               planting == [next EXCEPT !.pc = "planting"]
    <2>1. /\ cer \in CerRec /\ cer.person \in Person /\ cer.handle \in Handle
          /\ cer.inv \in Invite \cup {Nil} /\ (cer.via = "invite" => cer.inv \in Invite)
          BY <1>9 DEF RegisterFinish, TypeInv, TypeOK, Registers, CerRec
    <2> HIDE DEF cer
    <2>2. (cer.via = "invite" => Fits(redeeming)) /\ Fits(planting)
      <3>1. /\ next \in ReqRec
            /\ next.who = cer.person /\ next.inv = cer.inv /\ next.hand = cer.handle
            /\ next.cred = c /\ next.from = Nil
            BY <1>1, <2>1 DEF Idle, ReqRec, PC, Role
      <3> HIDE DEF next
      <3> QED BY <2>1, <3>1 DEF Fits, ReqRec, PC, Carries
    <2>3. (cer.via = "invite" /\ Goto(r, redeeming)) \/ Goto(r, planting) \/ Done(r)
          BY <1>9 DEF RegisterFinish, cer, next
    <2> HIDE DEF redeeming, planting
    <2> QED BY <1>3, <1>4, <2>2, <2>3
  <1>10. ASSUME Redeem(r) PROVE Result
    <2> DEFINE q == [Idle EXCEPT !.pc = "opening", !.who = req[r].who, !.auth = now, !.at = now]
    <2>1. Fits(q)
          BY <1>1, <1>10 DEF Redeem, At, Fits, Idle, ReqRec, PC, Role, Carries
    <2>2. Goto(r, q) \/ Done(r)
          BY <1>10 DEF Redeem
    <2> HIDE DEF q
    <2> QED BY <1>3, <1>4, <2>1, <2>2
  <1>11. ASSUME Plant(r) \/ \E x \in Cer : InvitePut(r, x) \/ AddPut(r, x) PROVE Result
         BY <1>3, <1>11 DEF InvitePut, AddPut, Plant
  <1> QED BY <1>5, <1>6, <1>7, <1>8, <1>9, <1>10, <1>11 DEF Ceremonies, Result

\* Of an account's request.
LEMMA AccountsFit ==
  ASSUME TypeInv, NEW r \in Req, Accounts(r)
  PROVE  req' \in [Req -> ReqRec] /\ \A s \in Req : Fits(req[s])'
  <1> DEFINE Result == req' \in [Req -> ReqRec] /\ \A s \in Req : Fits(req[s])'
  <1>1. now \in Time /\ req[r] \in ReqRec /\ Carries(req[r]) /\ (req[r].from # Nil => Drawn(req[r].from)) /\ 0 \in Time
        BY PeopleAssumption DEF TypeInv, TypeOK, Rotating, Time
  <1>2. UNCHANGED sess
        BY DEF Accounts, UnkeyStart, EvictStart, InviteByName, InviteBack, RevokeStart, CliInvite, NewInvite,
               Unkey, Reopen, Evict, InviteName, Revoke, tokens
  <1>3. ASSUME Done(r) PROVE Result
        BY <1>2, <1>3, DoneFits DEF Drawn
  <1>4. ASSUME NEW q, Fits(q), Goto(r, q) PROVE Result
        BY <1>2, <1>4, GotoFits
  <1>5. \A t \in Tok : AccessValid(t) => sess[t].user \in Person /\ sess[t].auth \in Time
        BY SessOf DEF AccessValid, Drawn
  <1> HIDE DEF Result
  <1>6. ASSUME NEW t \in Tok, NEW c \in Cred, UnkeyStart(r, t, c) PROVE Result
    <2> DEFINE q == [Idle EXCEPT !.pc = "unkeying", !.op = "unkey", !.who = sess[t].user,
                                 !.auth = sess[t].auth, !.cred = c]
    <2>1. Fits(q) /\ Goto(r, q)
      <3>1. AccessValid(t) /\ "unkey" \in Kind /\ Goto(r, q)
            BY <1>6 DEF UnkeyStart, Arrives
      <3> QED BY <1>1, <1>5, <3>1 DEF Fits, Idle, ReqRec, PC, Role, Carries
    <2> HIDE DEF q
    <2> QED BY <1>4, <2>1
  <1>7. ASSUME NEW p \in Person, NEW t \in Tok, EvictStart(r, t, p) PROVE Result
    <2> DEFINE q == [Idle EXCEPT !.pc = "ending", !.op = "evict", !.who = p, !.at = now]
    <2>1. Fits(q) /\ Goto(r, q)
      <3>1. "evict" \in Kind /\ Goto(r, q)
            BY <1>7 DEF EvictStart, Arrives
      <3> QED BY <1>1, <3>1 DEF Fits, Idle, ReqRec, PC, Role, Carries
    <2> HIDE DEF q
    <2> QED BY <1>4, <2>1
  <1>8. ASSUME NEW p \in Person, NEW t \in Tok, NEW role \in Role, InviteByName(r, t, p, role) PROVE Result
    <2> DEFINE q == [Idle EXCEPT !.pc = "naming", !.op = "name", !.who = p, !.role = role]
    <2>1. Fits(q) /\ Goto(r, q)
      <3>1. "name" \in Kind /\ Goto(r, q)
            BY <1>8 DEF InviteByName, Arrives
      <3> QED BY <1>1, <3>1 DEF Fits, Idle, ReqRec, PC, Carries
    <2> HIDE DEF q
    <2> QED BY <1>4, <2>1
  <1>9. ASSUME NEW p \in Person, NEW role \in Role, NEW kind \in Kind,
               Goto(r, [Idle EXCEPT !.pc = "inviting", !.op = kind, !.who = p, !.role = role, !.at = now])
        PROVE  Result
    <2> DEFINE q == [Idle EXCEPT !.pc = "inviting", !.op = kind, !.who = p, !.role = role, !.at = now]
    <2>1. Fits(q)
          BY <1>1 DEF Fits, Idle, ReqRec, PC, Carries
    <2> HIDE DEF q
    <2> QED BY <1>4, <1>9, <2>1 DEF q
  <1>10. ASSUME NEW p \in Person, NEW role \in Role,
                CliInvite(r, p, role) \/ \E t \in Tok : InviteBack(r, t, p, role)
         PROVE  Result
         BY <1>9, <1>10 DEF InviteBack, CliInvite, Arrives
  <1>11. ASSUME NEW t \in Tok, NEW i \in Invite, RevokeStart(r, t, i) PROVE Result
    <2> DEFINE q == [Idle EXCEPT !.pc = "revoking", !.inv = i]
    <2>1. Fits(q)
          BY <1>1 DEF Fits, Idle, ReqRec, PC, Role, Carries
    <2>2. Goto(r, q)
          BY <1>11 DEF RevokeStart
    <2> HIDE DEF q
    <2> QED BY <1>4, <2>1, <2>2
  <1>12. ASSUME Unkey(r) PROVE Result
    <2> DEFINE q == [req[r] EXCEPT !.pc = "ending", !.at = now]
    <2>1. Fits(q)
          BY <1>1, <1>12 DEF Unkey, At, Fits, ReqRec, PC, Carries
    <2>2. Goto(r, q) \/ Done(r)
          BY <1>12 DEF Unkey
    <2> HIDE DEF q
    <2> QED BY <1>3, <1>4, <2>1, <2>2
  <1>13. ASSUME Reopen(r) PROVE Result
    <2> DEFINE q == [req[r] EXCEPT !.pc = "opening", !.at = now]
    <2>1. Fits(q)
          BY <1>1, <1>13 DEF Reopen, At, Fits, ReqRec, PC, Carries
    <2>2. Goto(r, q) \/ Done(r)
          BY <1>13 DEF Reopen
    <2> HIDE DEF q
    <2> QED BY <1>3, <1>4, <2>1, <2>2
  <1>14. ASSUME InviteName(r) PROVE Result
    <2> DEFINE q == [req[r] EXCEPT !.pc = "inviting", !.at = now]
    <2>1. Fits(q)
          BY <1>1, <1>14 DEF InviteName, At, Fits, ReqRec, PC, Carries
    <2>2. Goto(r, q) \/ Done(r)
          BY <1>14 DEF InviteName
    <2> HIDE DEF q
    <2> QED BY <1>3, <1>4, <2>1, <2>2
  <1>15. ASSUME Evict(r) \/ Revoke(r) \/ \E i \in Invite : NewInvite(r, i) PROVE Result
         BY <1>3, <1>15 DEF Evict, Revoke, NewInvite
  <1> QED BY <1>6, <1>7, <1>8, <1>10, <1>11, <1>12, <1>13, <1>14, <1>15 DEF Accounts, Result

\* What any step does to the ceremonies: what they are for is theirs for good.
LEMMA CeremonyStep ==
  ASSUME TypeInv, [Next]_vars
  PROVE  /\ cers' \in [Cer -> CerRec \cup {Nil}]
         /\ drawn' \subseteq Cer \cup Invite
         /\ \A x \in Cer : cers'[x] # Nil => Registers(cers'[x])
  <1> DEFINE Result == /\ cers' \in [Cer -> CerRec \cup {Nil}]
                       /\ drawn' \subseteq Cer \cup Invite
                       /\ \A x \in Cer : cers'[x] # Nil => Registers(cers'[x])
  <1> USE DEF TypeInv, TypeOK
  <1>1. ASSUME UNCHANGED <<cers, drawn>> PROVE Result
        BY <1>1
  <1>2. ASSUME NEW x \in Cer, NEW cer \in CerRec, Registers(cer),
               cers' = [cers EXCEPT ![x] = cer], drawn' = drawn \cup {x}
        PROVE  Result
        BY <1>2
  <1>3. ASSUME NEW x \in Cer, cers' = [cers EXCEPT ![x] = Nil], UNCHANGED drawn PROVE Result
        BY <1>3
  <1> HIDE DEF Result
  <1>4. ASSUME NEW r \in Req, NEW x \in Cer, InvitePut(r, x) PROVE Result
    <2> DEFINE cer == [via |-> "invite", person |-> req[r].who, inv |-> req[r].inv,
                       handle |-> UserHandle(book, req[r].who, x)]
    <2>1. req[r].who \in Person /\ req[r].inv \in Invite
          BY <1>4 DEF InvitePut, At, Carries
    <2>2. UserHandle(book, req[r].who, x) \in Handle
          BY <2>1, AuthAssumption DEF UserHandle, Known, Book, PersonRec
    <2>3. cer \in CerRec /\ Registers(cer)
          BY <2>1, <2>2 DEF CerRec, Registers
    <2>4. cers' = [cers EXCEPT ![x] = cer] /\ drawn' = drawn \cup {x}
          BY <1>4 DEF InvitePut
    <2> HIDE DEF cer
    <2> QED BY <1>2, <2>3, <2>4
  <1>5. ASSUME NEW r \in Req, NEW x \in Cer, AddPut(r, x) PROVE Result
    <2> DEFINE cer == [via |-> "session", person |-> req[r].who, inv |-> Nil, handle |-> book.people[req[r].who].handle]
    <2>1. req[r].who \in Person
          BY <1>5 DEF AddPut, At, Carries
    <2>2. Known(book, req[r].who) => cer \in CerRec /\ Registers(cer)
          BY <2>1 DEF Known, Book, PersonRec, CerRec, Registers
    <2>3. \/ Known(book, req[r].who) /\ cers' = [cers EXCEPT ![x] = cer] /\ drawn' = drawn \cup {x}
          \/ UNCHANGED <<cers, drawn>>
          BY <1>5 DEF AddPut
    <2> HIDE DEF cer
    <2> QED BY <1>1, <1>2, <2>2, <2>3
  <1>6. ASSUME NEW x \in Cer, LoginStart(x) PROVE Result
    <2> DEFINE cer == [via |-> "login", person |-> Nil, handle |-> Nil, inv |-> Nil]
    <2>1. cer \in CerRec /\ Registers(cer)
          BY DEF CerRec, Registers
    <2>2. cers' = [cers EXCEPT ![x] = cer] /\ drawn' = drawn \cup {x}
          BY <1>6 DEF LoginStart
    <2> HIDE DEF cer
    <2> QED BY <1>2, <2>1, <2>2
  <1>7. ASSUME NEW r \in Req, NEW x \in Cer, NEW c \in Cred, LoginFinish(r, x, c) \/ RegisterFinish(r, x, c) PROVE Result
        BY <1>3, <1>7 DEF LoginFinish, RegisterFinish
  <1>8. ASSUME NEW x \in Cer, ForgetCeremony(x) PROVE Result
        BY <1>3, <1>8 DEF ForgetCeremony
  <1>9. ASSUME Restart PROVE Result
        BY <1>9 DEF Restart, Result
  <1>10. ASSUME NEW r \in Req, NEW i \in Invite, NewInvite(r, i) PROVE Result
        BY <1>10 DEF NewInvite, Result
  <1>11. ASSUME NEW r \in Req, Sessions(r) PROVE Result
    <2>1. UNCHANGED <<cers, drawn>>
          BY <1>11 DEF Sessions, RefreshTake, RefreshReplayed, RefreshUnknown, OpenSession, EverywhereStart,
                       RefreshPerson, End, Drop
    <2> QED BY <1>1, <2>1
  <1>12. ASSUME NEW r \in Req, Ceremonies(r) PROVE Result
    <2>1. \/ UNCHANGED <<cers, drawn>>
          \/ \E x \in Cer : InvitePut(r, x) \/ AddPut(r, x) \/ \E c \in Cred : LoginFinish(r, x, c) \/ RegisterFinish(r, x, c)
          BY <1>12 DEF Ceremonies, LoginUsed, InviteStart, AddStart, Redeem, Plant
    <2> QED BY <1>1, <1>4, <1>5, <1>7, <2>1
  <1>13. ASSUME NEW r \in Req, Accounts(r) PROVE Result
    <2>1. UNCHANGED <<cers, drawn>> \/ \E i \in Invite : NewInvite(r, i)
          BY <1>13 DEF Accounts, UnkeyStart, EvictStart, InviteByName, InviteBack, RevokeStart, CliInvite,
                       Unkey, Evict, Revoke, Reopen, InviteName
    <2> QED BY <1>1, <1>10, <2>1
  <1>14. ASSUME (\E r \in Req : Cancel(r)) \/ (\E t \in Tok : Logout(t)) \/ Tick \/ UNCHANGED vars PROVE Result
    <2>1. UNCHANGED <<cers, drawn>>
          BY <1>14 DEF Cancel, Logout, Tick, vars
    <2> QED BY <1>1, <2>1
  <1> QED BY <1>6, <1>8, <1>9, <1>11, <1>12, <1>13, <1>14 DEF Next, Result

\* What any step does to the tokens: handed out once and for all, and only such are live.
LEMMA TokenStep ==
  ASSUME TypeInv, [Next]_vars
  PROVE  /\ sess' \in [Tok -> SessRec \cup {Nil}]
         /\ \A t \in Tok : Drawn(t) => sess'[t] = sess[t]
         /\ live' \subseteq Tok /\ spent' \subseteq Tok /\ \A t \in live' \cup spent' : Drawn(t)'
         /\ ended' \subseteq Tok /\ caught' \subseteq Tok
  <1> DEFINE Result == /\ sess' \in [Tok -> SessRec \cup {Nil}]
                       /\ \A t \in Tok : Drawn(t) => sess'[t] = sess[t]
                       /\ live' \subseteq Tok /\ spent' \subseteq Tok /\ \A t \in live' \cup spent' : Drawn(t)'
                       /\ ended' \subseteq Tok /\ caught' \subseteq Tok
  <1>1. ASSUME UNCHANGED <<sess, ended, caught>>, live' \subseteq live, spent' \subseteq spent \cup live PROVE Result
        BY <1>1 DEF TypeInv, TypeOK, Drawn
  <1>2. ASSUME NEW F \in SUBSET Tok, Ending(F), UNCHANGED sess, live' \subseteq live, spent' \subseteq spent PROVE Result
        BY <1>2 DEF TypeInv, TypeOK, Drawn, Ending
  <1>3. ASSUME NEW r \in Req, NEW t \in Tok, OpenSession(r, t) PROVE Result
    <2>1. req[r] \in ReqRec /\ req[r].who \in Person /\ (req[r].from # Nil => FamilyOf(req[r].from) \in Tok)
          BY <1>3, SessOf DEF TypeInv, TypeOK, OpenSession, At, Carries, Rotating, FamilyOf, ReqRec
    <2>2. Opened(r, t) \in SessRec
          BY <2>1 DEF Opened, SessRec, ReqRec
    <2>3. Opened(r, t) # Nil
          BY <2>2, NilSessAssumption
    <2> QED BY <1>3, <2>2, <2>3 DEF OpenSession, TypeInv, TypeOK, Drawn, history
  <1> HIDE DEF Result
  <1>4. ASSUME NEW r \in Req, Drop(r) PROVE Result
    <2> DEFINE F == {FamilyOf(t) : t \in {u \in Tok : sess[u] # Nil /\ sess[u].user = req[r].who}}
    <2>1. F \in SUBSET Tok
          BY SessOf DEF Drawn, FamilyOf
    <2>2. Ending(F) /\ UNCHANGED <<sess, spent>> /\ live' \subseteq live
          BY <1>4 DEF Drop, LiveNotOf
    <2> HIDE DEF F
    <2> QED BY <1>2, <2>1, <2>2
  <1>5. ASSUME NEW t \in Tok, Logout(t) \/ \E r \in Req : RefreshReplayed(r, t) PROVE Result
    <2>1. Drawn(t)
          BY <1>5 DEF Logout, RefreshReplayed, Unexpired, TypeInv
    <2>2. {FamilyOf(t)} \in SUBSET Tok
          BY <2>1, SessOf DEF FamilyOf
    <2>3. Ending({FamilyOf(t)}) /\ UNCHANGED sess /\ live' \subseteq live /\ spent' \subseteq spent
          BY <1>5 DEF Logout, RefreshReplayed, Unexpired
    <2> QED BY <1>2, <2>2, <2>3
  <1>6. ASSUME \/ \E r \in Req, t \in Tok : RefreshTake(r, t) \/ RefreshUnknown(r, t)
               \/ Restart
        PROVE  Result
    <2>1. UNCHANGED <<sess, ended, caught>> /\ live' \subseteq live /\ spent' \subseteq spent \cup live
          BY <1>6 DEF RefreshTake, RefreshUnknown, Restart, Unexpired, history
    <2> QED BY <1>1, <2>1
  <1>7. ASSUME UNCHANGED <<tokens, ended, caught>> PROVE Result
        BY <1>1, <1>7 DEF tokens
  <1>8. ASSUME NEW r \in Req, Sessions(r) PROVE Result
    <2>1. \/ UNCHANGED <<tokens, ended, caught>> \/ Drop(r)
          \/ \E t \in Tok : RefreshTake(r, t) \/ RefreshReplayed(r, t) \/ RefreshUnknown(r, t) \/ OpenSession(r, t)
          BY <1>8 DEF Sessions, EverywhereStart, RefreshPerson, End, history
    <2> QED BY <1>3, <1>4, <1>5, <1>6, <1>7, <2>1
  <1>9. ASSUME NEW r \in Req, Ceremonies(r) PROVE Result
    <2>1. UNCHANGED <<tokens, ended, caught>>
          BY <1>9 DEF Ceremonies, InvitePut, AddPut, LoginFinish, RegisterFinish, LoginUsed, InviteStart, AddStart,
                      Redeem, Plant, history
    <2> QED BY <1>7, <2>1
  <1>10. ASSUME NEW r \in Req, Accounts(r) PROVE Result
    <2>1. UNCHANGED <<tokens, ended, caught>>
          BY <1>10 DEF Accounts, UnkeyStart, EvictStart, InviteByName, InviteBack, RevokeStart, CliInvite, NewInvite,
                       Unkey, Evict, Revoke, Reopen, InviteName, history
    <2> QED BY <1>7, <2>1
  <1>11. ASSUME \/ \E r \in Req : Cancel(r)
                \/ \E x \in Cer : LoginStart(x) \/ ForgetCeremony(x)
                \/ Tick \/ UNCHANGED vars
         PROVE  Result
    <2>1. UNCHANGED <<tokens, ended, caught>>
          BY <1>11 DEF Cancel, LoginStart, ForgetCeremony, Tick, vars, history, tokens
    <2> QED BY <1>7, <2>1
  <1> QED BY <1>5, <1>6, <1>8, <1>9, <1>10, <1>11 DEF Next, Result

\* What any step does to the requests.
LEMMA RequestStep ==
  ASSUME TypeInv, [Next]_vars
  PROVE  req' \in [Req -> ReqRec] /\ \A s \in Req : Fits(req[s])'
  <1> DEFINE Result == req' \in [Req -> ReqRec] /\ \A s \in Req : Fits(req[s])'
  <1>1. \A s \in Req : Fits(req[s])
        BY DEF TypeInv, TypeOK, Fits, Rotating
  <1>2. ASSUME UNCHANGED <<req, sess>> PROVE Result
        BY <1>1, <1>2 DEF TypeInv, TypeOK, Fits, Drawn, Carries
  <1>3. ASSUME NEW r \in Req, Cancel(r) PROVE Result
        BY <1>3, DoneFits DEF Cancel, tokens, Drawn
  <1>4. ASSUME Restart PROVE Result
    <2>1. \A s \in Req : req'[s] = Idle
          BY <1>4 DEF Restart
    <2>2. req' \in [Req -> ReqRec]
          BY <1>4, IdleFits DEF Restart, Fits
    <2>3. Fits(Idle)'
          BY IdleFits DEF Fits, Idle, Carries, ReqRec
    <2> QED BY <2>1, <2>2, <2>3 DEF Fits
  <1>5. ASSUME \/ \E t \in Tok : Logout(t)
               \/ \E x \in Cer : LoginStart(x) \/ ForgetCeremony(x)
               \/ Tick \/ UNCHANGED vars
        PROVE  Result
    <2>1. UNCHANGED <<req, sess>>
          BY <1>5 DEF Logout, LoginStart, ForgetCeremony, Tick, vars, tokens
    <2> QED BY <1>2, <2>1
  <1> QED BY <1>3, <1>4, <1>5, SessionsFit, CeremoniesFit, AccountsFit DEF Next

\* Proofs are of people, and kept.
LEMMA ProofStep ==
  ASSUME TypeInv, [Next]_vars
  PROVE  now' \in Time /\ proofs' \subseteq Person \X Time /\ proofs \subseteq proofs'
  <1> DEFINE Result == now' \in Time /\ proofs' \subseteq Person \X Time /\ proofs \subseteq proofs'
  <1> USE DEF TypeInv, TypeOK
  <1>1. ASSUME UNCHANGED <<now, proofs>> PROVE Result
        BY <1>1
  <1>2. ASSUME NEW r \in Req, LoginUsed(r) \/ Redeem(r) PROVE Result
    <2>1. req[r].who \in Person
          BY <1>2 DEF LoginUsed, Redeem, At, Carries
    <2>2. UNCHANGED now /\ (proofs' = proofs \cup {<<req[r].who, now>>} \/ UNCHANGED proofs)
          BY <1>2 DEF LoginUsed, Redeem
    <2> QED BY <2>1, <2>2
  <1>3. ASSUME Tick PROVE Result
        BY <1>3, PeopleAssumption DEF Tick, Time, history
  <1> HIDE DEF Result
  <1>4. ASSUME NEW r \in Req, Sessions(r) PROVE Result
    <2>1. UNCHANGED <<now, proofs>>
          BY <1>4 DEF Sessions, RefreshTake, RefreshReplayed, RefreshUnknown, OpenSession, EverywhereStart,
                      RefreshPerson, End, Drop, history, Ending
    <2> QED BY <1>1, <2>1
  <1>5. ASSUME NEW r \in Req, Ceremonies(r) PROVE Result
    <2>1. UNCHANGED <<now, proofs>> \/ LoginUsed(r) \/ Redeem(r)
          BY <1>5 DEF Ceremonies, InvitePut, AddPut, LoginFinish, RegisterFinish, InviteStart, AddStart, Plant, history
    <2> QED BY <1>1, <1>2, <2>1
  <1>6. ASSUME NEW r \in Req, Accounts(r) PROVE Result
    <2>1. UNCHANGED <<now, proofs>>
          BY <1>6 DEF Accounts, UnkeyStart, EvictStart, InviteByName, InviteBack, RevokeStart, CliInvite, NewInvite,
                      Unkey, Evict, Revoke, Reopen, InviteName, history
    <2> QED BY <1>1, <2>1
  <1>7. ASSUME \/ \E r \in Req : Cancel(r)
               \/ \E t \in Tok : Logout(t)
               \/ \E x \in Cer : LoginStart(x) \/ ForgetCeremony(x)
               \/ Restart \/ UNCHANGED vars
        PROVE  Result
    <2>1. UNCHANGED <<now, proofs>>
          BY <1>7 DEF Cancel, Logout, Ending, LoginStart, ForgetCeremony, Restart, vars, history
    <2> QED BY <1>1, <2>1
  <1> QED BY <1>3, <1>4, <1>5, <1>6, <1>7 DEF Next, Result

\* Types are kept: of the book because it fits, of the rest component by component.
LEMMA NextTypes == TypeInv /\ BookInv /\ [Next]_vars => TypeInv'
  <1> SUFFICES ASSUME TypeInv, BookInv, [Next]_vars PROVE TypeInv'
      OBVIOUS
  <1>1. TypeOK'
        BY BookStep, CeremonyStep, TokenStep, RequestStep, ProofStep DEF TypeOK
  <1>2. \A r \in Req : Carries(req[r])' /\ (Rotating(r)' => Drawn(req[r].from)')
        BY RequestStep DEF Fits, Rotating
  <1> QED BY <1>1, <1>2, CeremonyStep, TokenStep DEF TypeInv

-----------------------------------------------------------------------------
(* The links into the book.                                                *)

\* Where a request or a ceremony gets its link: from a pending invitation, a ceremony, or another link.
LEMMA LinkStep ==
  ASSUME TypeInv, [Next]_vars, NEW r \in Req
  PROVE  /\ req'[r].pc = "greeted" =>
               \/ req'[r] = req[r]
               \/ Unspent(book, req'[r].inv) /\ req'[r].inv \in Invite /\ book.invites[req'[r].inv].person = req'[r].who
         /\ req'[r].pc = "redeeming" =>
               \/ req'[r] = req[r]
               \/ \E x \in Cer : /\ cers[x] # Nil /\ cers[x].via = "invite" /\ cers[x].inv = req'[r].inv
                                 /\ cers[x].person = req'[r].who /\ cers[x].handle = req'[r].hand
  <1> DEFINE From(q) ==
               /\ q.pc = "greeted" => Unspent(book, q.inv) /\ q.inv \in Invite /\ book.invites[q.inv].person = q.who
               /\ q.pc = "redeeming" =>
                     \E x \in Cer : /\ cers[x] # Nil /\ cers[x].via = "invite" /\ cers[x].inv = q.inv
                                    /\ cers[x].person = q.who /\ cers[x].handle = q.hand
             Result == req'[r] = req[r] \/ From(req'[r])
             Away(s) == req'[s].pc \notin {"greeted", "redeeming"} /\ \A u \in Req \ {s} : req'[u] = req[u]
  <1>1. ASSUME UNCHANGED req PROVE Result
        BY <1>1
  <1>2. ASSUME NEW s \in Req, Away(s) PROVE Result
        BY <1>2
  <1>3. ASSUME NEW s \in Req, Done(s) PROVE Result
        BY <1>3, IdleFits DEF Done, TypeInv, TypeOK
  <1>4. ASSUME Restart PROVE Result
        BY <1>4, IdleFits DEF Restart
  <1>5. ASSUME NEW s \in Req, NEW i \in Invite, InviteStart(s, i) PROVE Result
    <2> DEFINE q == [Idle EXCEPT !.pc = "greeted", !.who = book.invites[i].person, !.inv = i]
    <2>1. q.pc = "greeted" /\ q.inv = i /\ q.who = book.invites[i].person
          BY DEF Idle
    <2>2. Goto(s, q) /\ Pending(book, i, now)
          BY <1>5 DEF InviteStart
    <2> HIDE DEF q
    <2>3. From(q)
          BY <2>1, <2>2 DEF Pending, Unspent
    <2> QED BY <2>2, <2>3 DEF Goto, TypeInv, TypeOK
  <1>6. ASSUME NEW s \in Req, NEW x \in Cer, NEW c \in Cred, RegisterFinish(s, x, c) PROVE Result
    <2> DEFINE cer == cers[x]
               next == [Idle EXCEPT !.who = cer.person, !.inv = cer.inv, !.hand = cer.handle,
                                    !.cred = c, !.at = now]
               redeeming == [next EXCEPT !.pc = "redeeming"]
               planting == [next EXCEPT !.pc = "planting"]
    <2>1. /\ redeeming.pc = "redeeming" /\ redeeming.inv = cer.inv /\ redeeming.who = cer.person
          /\ redeeming.hand = cer.handle /\ planting.pc = "planting"
          BY DEF Idle
    <2>2. \/ cer # Nil /\ cer.via = "invite" /\ Goto(s, redeeming)
          \/ Goto(s, planting) \/ Done(s)
          BY <1>6 DEF RegisterFinish
    <2> HIDE DEF redeeming, planting
    <2>3. CASE cer # Nil /\ cer.via = "invite" /\ Goto(s, redeeming)
      <3>1. From(redeeming)
            BY <2>1, <2>3
      <3> QED BY <2>3, <3>1 DEF Goto, TypeInv, TypeOK
    <2>4. CASE Goto(s, planting)
          BY <1>2, <2>1, <2>4 DEF Goto, TypeInv, TypeOK
    <2> QED BY <1>3, <2>2, <2>3, <2>4
  <1> HIDE DEF Result
  <1>7. ASSUME NEW s \in Req, Sessions(s) PROVE Result
    <2>1. \/ UNCHANGED req \/ Done(s)
          \/ Away(s)
      <3>1. ASSUME NEW t \in Tok, RefreshTake(s, t)
            PROVE  Away(s)
            BY <3>1 DEF RefreshTake, Goto, Idle, TypeInv, TypeOK
      <3>2. ASSUME NEW t \in Tok, EverywhereStart(s, t)
            PROVE  Away(s)
            BY <3>2 DEF EverywhereStart, Goto, Idle, TypeInv, TypeOK
      <3>3. ASSUME RefreshPerson(s) \/ End(s)
            PROVE  Done(s) \/ Away(s)
            BY <3>3 DEF RefreshPerson, End, Goto, TypeInv, TypeOK, ReqRec
      <3>4. ASSUME Drop(s)
            PROVE  Done(s) \/ Away(s)
        <4>1. AfterDrop[req[s].op] \in {"idle", "reopening", "evicting"}
              BY <3>4 DEF Drop, At, TypeInv, Carries, AfterDrop
        <4> QED BY <3>4, <4>1 DEF Drop, Goto, TypeInv, TypeOK, ReqRec
      <3> QED BY <1>7, <3>1, <3>2, <3>3, <3>4 DEF Sessions, RefreshReplayed, RefreshUnknown, OpenSession
    <2> QED BY <1>1, <1>2, <1>3, <2>1
  <1>8. ASSUME NEW s \in Req, Ceremonies(s) PROVE Result
    <2>1. ASSUME LoginUsed(s) PROVE Away(s)
          BY <2>1 DEF LoginUsed, Goto, TypeInv, TypeOK, ReqRec
    <2>2. ASSUME NEW t \in Tok, AddStart(s, t) PROVE Away(s)
          BY <2>2 DEF AddStart, Goto, Idle, TypeInv, TypeOK
    <2>3. ASSUME Redeem(s) PROVE Done(s) \/ Away(s)
          BY <2>3 DEF Redeem, Goto, Done, Idle, TypeInv, TypeOK
    <2>4. ASSUME NEW x \in Cer, NEW c \in Cred, LoginFinish(s, x, c)
          PROVE  Done(s) \/ Away(s)
          BY <2>4 DEF LoginFinish, Goto, Done, Idle, TypeInv, TypeOK
    <2>5. ASSUME Plant(s) \/ \E x \in Cer : InvitePut(s, x) \/ AddPut(s, x) PROVE Done(s)
          BY <2>5 DEF Plant, InvitePut, AddPut
    <2> QED BY <1>2, <1>3, <1>5, <1>6, <1>8, <2>1, <2>2, <2>3, <2>4, <2>5 DEF Ceremonies
  <1>9. ASSUME NEW s \in Req, Accounts(s) PROVE Result
    <2>1. ASSUME NEW t \in Tok, NEW c \in Cred, UnkeyStart(s, t, c) PROVE Away(s)
          BY <2>1 DEF UnkeyStart, Goto, Idle, TypeInv, TypeOK
    <2>2. ASSUME NEW t \in Tok, NEW p \in Person, EvictStart(s, t, p) PROVE Away(s)
          BY <2>2 DEF EvictStart, Goto, Idle, TypeInv, TypeOK
    <2>3. ASSUME NEW t \in Tok, NEW p \in Person, NEW role \in Role, InviteByName(s, t, p, role) PROVE Away(s)
          BY <2>3 DEF InviteByName, Goto, Idle, TypeInv, TypeOK
    <2>4. ASSUME NEW p \in Person, NEW role \in Role,
                 CliInvite(s, p, role) \/ \E t \in Tok : InviteBack(s, t, p, role)
          PROVE  Away(s)
          BY <2>4 DEF CliInvite, InviteBack, Goto, Idle, TypeInv, TypeOK
    <2>5. ASSUME NEW t \in Tok, NEW i \in Invite, RevokeStart(s, t, i) PROVE Away(s)
          BY <2>5 DEF RevokeStart, Goto, Idle, TypeInv, TypeOK
    <2>6. ASSUME Unkey(s) \/ Reopen(s) \/ InviteName(s) PROVE Done(s) \/ Away(s)
          BY <2>6 DEF Unkey, Reopen, InviteName, Goto, TypeInv, TypeOK, ReqRec
    <2>7. ASSUME Evict(s) \/ Revoke(s) \/ \E i \in Invite : NewInvite(s, i) PROVE Done(s)
          BY <2>7 DEF Evict, Revoke, NewInvite
    <2>8. Done(s) \/ Away(s)
          BY <1>9, <2>1, <2>2, <2>3, <2>4, <2>5, <2>6, <2>7 DEF Accounts
    <2> QED BY <1>2, <1>3, <2>8
  <1>10. ASSUME \/ \E t \in Tok : Logout(t)
                \/ \E x \in Cer : LoginStart(x) \/ ForgetCeremony(x)
                \/ Tick \/ UNCHANGED vars
         PROVE  Result
    <2>1. UNCHANGED req
          BY <1>10 DEF Logout, LoginStart, ForgetCeremony, Tick, vars
    <2> QED BY <1>1, <2>1
  <1>11. ASSUME NEW s \in Req, Cancel(s) PROVE Result
         BY <1>3, <1>11 DEF Cancel
  <1>12. Result
         BY <1>4, <1>7, <1>8, <1>9, <1>10, <1>11 DEF Next
  <1> QED BY <1>12 DEF Result

\* A ceremony for an invitation is made by InvitePut and never changes.
LEMMA CeremonyLink ==
  ASSUME TypeInv, [Next]_vars, NEW x \in Cer, cers'[x] # Nil, cers'[x].via = "invite"
  PROVE  cers'[x] = cers[x] \/ \E r \in Req : InvitePut(r, x)
  <1> DEFINE Result == cers'[x] = cers[x] \/ \E r \in Req : InvitePut(r, x)
  <1>1. ASSUME UNCHANGED cers PROVE Result
        BY <1>1
  <1>2. ASSUME NEW y \in Cer, NEW cer, cers' = [cers EXCEPT ![y] = cer], cer = Nil \/ cer.via # "invite" PROVE Result
        BY <1>2 DEF TypeInv, TypeOK
  <1>3. ASSUME Restart PROVE Result
        BY <1>3 DEF Restart
  <1>4. ASSUME NEW r \in Req, NEW y \in Cer, InvitePut(r, y) PROVE Result
    <2>1. CASE x = y
          BY <1>4, <2>1
    <2>2. CASE x # y
          BY <1>4, <2>2 DEF InvitePut, TypeInv, TypeOK
    <2> QED BY <2>1, <2>2
  <1>5. ASSUME NEW r \in Req, NEW y \in Cer, AddPut(r, y) PROVE Result
        BY <1>5 DEF AddPut, TypeInv, TypeOK
  <1>6. ASSUME NEW y \in Cer, LoginStart(y) PROVE Result
        BY <1>6 DEF LoginStart, TypeInv, TypeOK
  <1> HIDE DEF Result
  <1>7. ASSUME NEW r \in Req, NEW y \in Cer, NEW c \in Cred, LoginFinish(r, y, c) \/ RegisterFinish(r, y, c) PROVE Result
        BY <1>2, <1>7 DEF LoginFinish, RegisterFinish
  <1>8. ASSUME NEW y \in Cer, ForgetCeremony(y) PROVE Result
        BY <1>2, <1>8 DEF ForgetCeremony
  <1>9. ASSUME NEW r \in Req, Sessions(r) \/ Accounts(r) PROVE Result
    <2>1. UNCHANGED cers
          BY <1>9 DEF Sessions, RefreshTake, RefreshReplayed, RefreshUnknown, OpenSession, EverywhereStart,
                      RefreshPerson, End, Drop, Accounts, UnkeyStart, EvictStart, InviteByName, InviteBack,
                      RevokeStart, CliInvite, NewInvite, Unkey, Evict, Revoke, Reopen, InviteName
    <2> QED BY <1>1, <2>1
  <1>10. ASSUME NEW r \in Req, Ceremonies(r) PROVE Result
    <2>1. \/ UNCHANGED cers
          \/ \E y \in Cer : InvitePut(r, y) \/ AddPut(r, y) \/ \E c \in Cred : LoginFinish(r, y, c) \/ RegisterFinish(r, y, c)
          BY <1>10 DEF Ceremonies, LoginUsed, InviteStart, AddStart, Redeem, Plant
    <2> QED BY <1>1, <1>4, <1>5, <1>7, <2>1
  <1>11. ASSUME (\E r \in Req : Cancel(r)) \/ (\E t \in Tok : Logout(t)) \/ Tick \/ UNCHANGED vars PROVE Result
    <2>1. UNCHANGED cers
          BY <1>11 DEF Cancel, Logout, Tick, vars
    <2> QED BY <1>1, <2>1
  <1> QED BY <1>3, <1>6, <1>8, <1>9, <1>10, <1>11 DEF Next, Result

\* The book fits after every step, and whatever is in flight over it still does.
LEMMA NextBook == TypeInv /\ BookInv /\ [Next]_vars => BookInv'
  <1> SUFFICES ASSUME TypeInv, BookInv, [Next]_vars PROVE BookInv'
      OBVIOUS
  <1>1. TypeInv' /\ BookFits(book', drawn') /\ Honours(book, drawn, book', drawn')
        BY BookStep, NextTypes
  <1>2. ASSUME NEW r \in Req, req'[r].pc = "greeted"
        PROVE  Ticket(book', drawn', req'[r].inv, req'[r].who)
    <2>1. req'[r].inv \in Invite /\ req'[r].who \in Person
          BY <1>1, <1>2 DEF TypeInv, Carries
    <2>2. Ticket(book, drawn, req'[r].inv, req'[r].who)
          BY <1>2, LinkStep DEF BookInv, BookFits, Listed, Ticket, Unspent
    <2> QED BY <1>1, <2>1, <2>2, AuthAssumption DEF Honours
  <1>3. ASSUME NEW r \in Req, req'[r].pc = "redeeming"
        PROVE  Redeemable(book', drawn', req'[r].inv, req'[r].who, req'[r].hand)
    <2>1. req'[r].inv \in Invite /\ req'[r].who \in Person /\ req'[r].hand \in Handle
          BY <1>1, <1>3 DEF TypeInv, Carries
    <2>2. Redeemable(book, drawn, req'[r].inv, req'[r].who, req'[r].hand)
          BY <1>3, LinkStep DEF BookInv
    <2> QED BY <1>1, <2>1, <2>2 DEF Honours
  <1>4. ASSUME NEW x \in Cer, cers'[x] # Nil, cers'[x].via = "invite"
        PROVE  Redeemable(book', drawn', cers'[x].inv, cers'[x].person, cers'[x].handle)
    <2>1. cers'[x].inv \in Invite /\ cers'[x].person \in Person /\ cers'[x].handle \in Handle
          BY <1>1, <1>4 DEF TypeInv, Registers
    <2>2. Redeemable(book, drawn, cers'[x].inv, cers'[x].person, cers'[x].handle)
      <3>1. CASE cers'[x] = cers[x]
            BY <1>4, <3>1 DEF BookInv
      <3>2. ASSUME NEW r \in Req, InvitePut(r, x)
            PROVE  Redeemable(book, drawn, cers'[x].inv, cers'[x].person, cers'[x].handle)
        <4>1. Ticket(book, drawn, req[r].inv, req[r].who)
              BY <3>2 DEF BookInv, InvitePut, At
        <4>2. /\ cers'[x].inv = req[r].inv /\ cers'[x].person = req[r].who
              /\ cers'[x].handle = UserHandle(book, req[r].who, x)
              BY <3>2 DEF InvitePut, TypeInv, TypeOK
        <4> QED BY <4>1, <4>2 DEF Redeemable, UserHandle
      <3> QED BY <1>4, <3>1, <3>2, CeremonyLink
    <2> QED BY <1>1, <2>1, <2>2 DEF Honours
  <1> QED BY <1>1, <1>2, <1>3, <1>4 DEF BookInv

-----------------------------------------------------------------------------
(* What requests hold of sessions: the token they rotate, the proof they   *)
(* carry from one session to the next.                                     *)

KeepsToken(s) == req'[s].from = Nil \/ (req'[s].from = req[s].from /\ req'[s].who = req[s].who)

KeepsProof(s) ==
    \/ ~Proven(req'[s])
    \/ Proven(req[s]) /\ req'[s].who = req[s].who /\ req'[s].auth = req[s].auth

\* Where a request gets its token and its proof: a session taken or shown, a passkey used now.
LEMMA HoldStep ==
  ASSUME TypeInv, [Next]_vars, NEW s \in Req
  PROVE  /\ KeepsToken(s) \/ \E t \in Tok : RefreshTake(s, t)
         /\ \/ KeepsProof(s)
            \/ \E t \in Tok : Drawn(t) /\ req'[s].who = sess[t].user /\ req'[s].auth = sess[t].auth
            \/ <<req'[s].who, req'[s].auth>> \in proofs'
  <1> DEFINE Result(u) == /\ KeepsToken(u) \/ \E t \in Tok : RefreshTake(u, t)
                          /\ \/ KeepsProof(u)
                             \/ \E t \in Tok : Drawn(t) /\ req'[u].who = sess[t].user /\ req'[u].auth = sess[t].auth
                             \/ <<req'[u].who, req'[u].auth>> \in proofs'
             Alone(u) == \A v \in Req \ {u} : req'[v] = req[v]
             Moves(u) == Alone(u) /\ Result(u)
  <1> USE DEF KeepsToken, KeepsProof, Proven
  <1>1. ASSUME UNCHANGED req PROVE Result(s)
        BY <1>1
  <1>2. ASSUME NEW u \in Req, Done(u) PROVE Moves(u)
        BY <1>2, IdleFits DEF Done, TypeInv, TypeOK
  <1>3. ASSUME Restart PROVE Result(s)
        BY <1>3, IdleFits DEF Restart
  <1>4. ASSUME NEW u \in Req, NEW t \in Tok, RefreshTake(u, t) PROVE Moves(u)
    <2>1. Drawn(t)
          BY <1>4 DEF RefreshTake, Unexpired, TypeInv
    <2> QED BY <1>4, <2>1 DEF RefreshTake, Goto, Idle, TypeInv, TypeOK
  <1>5. ASSUME NEW u \in Req, NEW t \in Tok, EverywhereStart(u, t) PROVE Moves(u)
        BY <1>5 DEF EverywhereStart, Goto, Idle, TypeInv, TypeOK
  <1>6. ASSUME NEW u \in Req, RefreshPerson(u) \/ End(u) PROVE Moves(u)
        BY <1>2, <1>6 DEF RefreshPerson, End, At, Goto, TypeInv, TypeOK, ReqRec
  <1>7. ASSUME NEW u \in Req, Drop(u) PROVE Moves(u)
    <2>1. /\ AfterDrop[req[u].op] \in {"idle", "reopening", "evicting"}
          /\ AfterDrop[req[u].op] = "reopening" => req[u].op = "unkey"
          BY <1>7 DEF Drop, At, TypeInv, Carries, AfterDrop
    <2> QED BY <1>2, <1>7, <2>1 DEF Drop, At, Goto, TypeInv, TypeOK, ReqRec
  <1>8. ASSUME NEW u \in Req, LoginUsed(u) PROVE Moves(u)
        BY <1>8 DEF LoginUsed, Goto, TypeInv, TypeOK, ReqRec
  <1>9. ASSUME NEW u \in Req, Redeem(u) PROVE Moves(u)
    <2> DEFINE q == [Idle EXCEPT !.pc = "opening", !.who = req[u].who, !.auth = now, !.at = now]
    <2>1. q.who = req[u].who /\ q.auth = now /\ q.from = Nil
          BY DEF Idle
    <2>2. Done(u) \/ (Goto(u, q) /\ proofs' = proofs \cup {<<req[u].who, now>>})
          BY <1>9 DEF Redeem
    <2> HIDE DEF q
    <2> QED BY <1>2, <2>1, <2>2 DEF Goto, TypeInv, TypeOK
  <1>10. ASSUME NEW u \in Req, NEW t \in Tok, NEW c \in Cred, UnkeyStart(u, t, c) PROVE Moves(u)
    <2>1. Drawn(t)
          BY <1>10 DEF UnkeyStart, AccessValid, Drawn
    <2> QED BY <1>10, <2>1 DEF UnkeyStart, Goto, Idle, TypeInv, TypeOK
  <1>11. ASSUME NEW u \in Req, Unkey(u) \/ Reopen(u) \/ InviteName(u) PROVE Moves(u)
    <2>1. CASE Unkey(u)
          BY <1>2, <2>1 DEF Unkey, At, Goto, TypeInv, TypeOK, ReqRec
    <2>2. CASE Reopen(u)
          BY <1>2, <2>2 DEF Reopen, At, Goto, TypeInv, TypeOK, ReqRec
    <2>3. CASE InviteName(u)
      <3> DEFINE q == [req[u] EXCEPT !.pc = "inviting", !.at = now]
      <3>1. q.pc = "inviting" /\ q.from = req[u].from /\ q.who = req[u].who
            BY DEF TypeInv, TypeOK, ReqRec
      <3>2. Done(u) \/ Goto(u, q)
            BY <2>3 DEF InviteName
      <3> HIDE DEF q
      <3> QED BY <1>2, <3>1, <3>2 DEF Goto, TypeInv, TypeOK
    <2> QED BY <1>11, <2>1, <2>2, <2>3
  <1>12. ASSUME NEW u \in Req, NEW i \in Invite, InviteStart(u, i) PROVE Moves(u)
         BY <1>12 DEF InviteStart, Goto, Idle, TypeInv, TypeOK
  <1>13. ASSUME NEW u \in Req, NEW t \in Tok, AddStart(u, t) PROVE Moves(u)
         BY <1>13 DEF AddStart, Goto, Idle, TypeInv, TypeOK
  <1>14. ASSUME NEW u \in Req, NEW x \in Cer, NEW c \in Cred, LoginFinish(u, x, c) PROVE Moves(u)
         BY <1>2, <1>14 DEF LoginFinish, Goto, Idle, TypeInv, TypeOK
  <1>15. ASSUME NEW u \in Req, NEW x \in Cer, NEW c \in Cred, RegisterFinish(u, x, c) PROVE Moves(u)
    <2> DEFINE cer == cers[x]
               next == [Idle EXCEPT !.who = cer.person, !.inv = cer.inv, !.hand = cer.handle,
                                    !.cred = c, !.at = now]
               redeeming == [next EXCEPT !.pc = "redeeming"]
               planting == [next EXCEPT !.pc = "planting"]
    <2>1. /\ redeeming.pc = "redeeming" /\ redeeming.from = Nil
          /\ planting.pc = "planting" /\ planting.from = Nil
          BY DEF Idle
    <2>2. Goto(u, redeeming) \/ Goto(u, planting) \/ Done(u)
          BY <1>15 DEF RegisterFinish
    <2> HIDE DEF redeeming, planting
    <2> QED BY <1>2, <2>1, <2>2 DEF Goto, TypeInv, TypeOK
  <1>16. ASSUME NEW u \in Req, NEW t \in Tok, NEW p \in Person, EvictStart(u, t, p) PROVE Moves(u)
         BY <1>16 DEF EvictStart, Goto, Idle, TypeInv, TypeOK
  <1>17. ASSUME NEW u \in Req, NEW t \in Tok, NEW p \in Person, NEW role \in Role, InviteByName(u, t, p, role) PROVE Moves(u)
         BY <1>17 DEF InviteByName, Goto, Idle, TypeInv, TypeOK
  <1>18. ASSUME NEW u \in Req, NEW p \in Person, NEW role \in Role,
                CliInvite(u, p, role) \/ \E t \in Tok : InviteBack(u, t, p, role)
         PROVE  Moves(u)
    <2>1. CASE CliInvite(u, p, role)
          BY <2>1 DEF CliInvite, Goto, Idle, TypeInv, TypeOK
    <2>2. ASSUME NEW t \in Tok, InviteBack(u, t, p, role) PROVE Moves(u)
          BY <2>2 DEF InviteBack, Goto, Idle, TypeInv, TypeOK
    <2> QED BY <1>18, <2>1, <2>2
  <1>19. ASSUME NEW u \in Req, NEW t \in Tok, NEW i \in Invite, RevokeStart(u, t, i) PROVE Moves(u)
         BY <1>19 DEF RevokeStart, Goto, Idle, TypeInv, TypeOK
  <1>20. ASSUME NEW u \in Req, Moves(u) PROVE Result(s)
         BY <1>20
  <1> HIDE DEF Result, Moves
  <1>21. ASSUME NEW u \in Req, Sessions(u) PROVE Result(s)
    <2>1. \/ UNCHANGED req \/ Done(u) \/ RefreshPerson(u) \/ End(u) \/ Drop(u)
          \/ \E t \in Tok : RefreshTake(u, t) \/ EverywhereStart(u, t)
          BY <1>21 DEF Sessions, RefreshReplayed, RefreshUnknown, OpenSession
    <2> QED BY <1>1, <1>2, <1>4, <1>5, <1>6, <1>7, <1>20, <2>1
  <1>22. ASSUME NEW u \in Req, Ceremonies(u) PROVE Result(s)
    <2>1. \/ Done(u) \/ LoginUsed(u) \/ Redeem(u)
          \/ \E i \in Invite : InviteStart(u, i)
          \/ \E t \in Tok : AddStart(u, t)
          \/ \E x \in Cer, c \in Cred : LoginFinish(u, x, c) \/ RegisterFinish(u, x, c)
          BY <1>22 DEF Ceremonies, InvitePut, AddPut, Plant
    <2> QED BY <1>2, <1>8, <1>9, <1>12, <1>13, <1>14, <1>15, <1>20, <2>1
  <1>23. ASSUME NEW u \in Req, Accounts(u) PROVE Result(s)
    <2>1. Evict(u) \/ Revoke(u) \/ (\E i \in Invite : NewInvite(u, i)) => Done(u)
          BY DEF Evict, Revoke, NewInvite
    <2>2. Moves(u)
          BY <1>2, <1>10, <1>11, <1>16, <1>17, <1>18, <1>19, <1>23, <2>1 DEF Accounts
    <2> QED BY <1>20, <2>2
  <1>24. ASSUME \/ \E t \in Tok : Logout(t)
                \/ \E x \in Cer : LoginStart(x) \/ ForgetCeremony(x)
                \/ Tick \/ UNCHANGED vars
         PROVE  Result(s)
    <2>1. UNCHANGED req
          BY <1>24 DEF Logout, LoginStart, ForgetCeremony, Tick, vars
    <2> QED BY <1>1, <2>1
  <1>25. ASSUME NEW u \in Req, Cancel(u) PROVE Result(s)
         BY <1>2, <1>20, <1>25 DEF Cancel
  <1>26. Result(s)
         BY <1>3, <1>21, <1>22, <1>23, <1>24, <1>25 DEF Next
  <1> QED BY <1>26 DEF Result

-----------------------------------------------------------------------------
(* The families.                                                           *)

\* A step that hands out no token, ends no family and takes none: the invariant does not notice it.
LEMMA QuietFamily ==
  ASSUME TypeInv, FamilyInv, UNCHANGED <<sess, ended, caught>>, live' \subseteq live,
         \A s \in Req : KeepsToken(s)
  PROVE  FamilyInv'
  <1> USE DEF FamilyInv, KeepsToken
  <1>1. \A r \in Req : Rotating(r)' => /\ Rotating(r) /\ req'[r].from = req[r].from /\ req'[r].who = req[r].who
                                       /\ req[r].from \in Tok
        BY DEF Rotating, TypeInv, TypeOK, ReqRec
  <1>2. OneHeir'
        BY <1>1 DEF OneHeir, FamilyOf
  <1>3. SignOutHolds'
        BY DEF SignOutHolds, FamilyOf
  <1> QED BY <1>1, <1>2, <1>3 DEF Drawn, FamilyOf

\* A token is taken: it was the live one of its family, and is now the one being rotated.
LEMMA TakeFamily ==
  ASSUME TypeInv, FamilyInv, NEW r \in Req, NEW t \in Tok, RefreshTake(r, t)
  PROVE  FamilyInv'
  <1>1. /\ UNCHANGED <<sess, ended, caught>> /\ t \in live /\ live' \subseteq live \ {t} /\ live \subseteq Tok
        /\ t # Nil /\ Drawn(t)
        BY AuthAssumption DEF RefreshTake, Unexpired, history, TypeInv, TypeOK
  <1>2. /\ req'[r].from = t /\ req'[r].who = sess[t].user
        /\ \A s \in Req \ {r} : req'[s] = req[s]
        BY DEF RefreshTake, Goto, Idle, TypeInv, TypeOK
  <1>3. \A s \in Req : Rotating(s)' => s = r \/ (Rotating(s) /\ req'[s] = req[s] /\ req[s].from \in Tok)
        BY <1>2 DEF Rotating, TypeInv, TypeOK, ReqRec
  <1> USE DEF FamilyInv
  <1>4. OneHeir'
        BY <1>1, <1>2, <1>3 DEF OneHeir, FamilyOf
  <1>5. SignOutHolds'
        BY <1>1 DEF SignOutHolds, FamilyOf
  <1>6. \A s \in Req, u \in Tok : Rotating(s)' /\ Drawn(u)' => sess'[u].parent # req'[s].from
        BY <1>1, <1>2, <1>3 DEF Drawn
  <1>7. \A s \in Req : Rotating(s)' /\ FamilyOf(req[s].from)' \in ended' => FamilyOf(req[s].from)' \in caught'
        BY <1>1, <1>2, <1>3 DEF FamilyOf, SignOutHolds
  <1>8. \A s \in Req : Rotating(s)' => sess'[req'[s].from].user = req'[s].who
        BY <1>1, <1>2, <1>3
  <1>9. \A u, v \in Tok : Drawn(v)' /\ sess'[v].parent = u => u \notin live'
        BY <1>1 DEF Drawn
  <1> QED BY <1>1, <1>4, <1>5, <1>6, <1>7, <1>8, <1>9 DEF Drawn, FamilyOf

\* Families end: their live tokens go, and a rotation in flight at that moment is on record.
LEMMA EndFamily ==
  ASSUME TypeInv, FamilyInv, NEW F \in SUBSET Tok, \A f \in F : Drawn(f), Ending(F),
         UNCHANGED sess, live' \subseteq live, \A t \in live' : FamilyOf(t) \notin F,
         \A s \in Req : KeepsToken(s)
  PROVE  FamilyInv'
  <1> USE DEF FamilyInv, KeepsToken
  <1>1. \A r \in Req : Rotating(r)' => /\ Rotating(r) /\ req'[r].from = req[r].from /\ req'[r].who = req[r].who
                                       /\ req[r].from \in Tok
        BY DEF Rotating, TypeInv, TypeOK, ReqRec
  <1>2. OneHeir'
        BY <1>1 DEF OneHeir, FamilyOf
  <1>3. /\ ended' = ended \cup F /\ caught \subseteq caught'
        /\ \A s \in Req : Rotating(s) /\ FamilyOf(req[s].from) \in F => FamilyOf(req[s].from) \in caught'
        BY DEF Ending
  <1>4. SignOutHolds'
        BY <1>3 DEF SignOutHolds, FamilyOf
  <1>5. \A s \in Req : Rotating(s)' /\ FamilyOf(req[s].from)' \in ended' => FamilyOf(req[s].from)' \in caught'
        BY <1>1, <1>3 DEF FamilyOf
  <1> QED BY <1>1, <1>2, <1>3, <1>4, <1>5 DEF Drawn, FamilyOf

\* A token is handed out: the first of a family, or the heir of the one that was being rotated.
LEMMA OpenFamily ==
  ASSUME TypeInv, FamilyInv, NEW r \in Req, NEW t \in Tok, OpenSession(r, t),
         \A u \in Tok : Drawn(u) => sess'[u] = sess[u], Opened(r, t) # Nil
  PROVE  FamilyInv'
  <1> DEFINE f == req[r].from
  <1>1. /\ ~Drawn(t) /\ sess' = [sess EXCEPT ![t] = Opened(r, t)] /\ live' = live \cup {t}
        /\ UNCHANGED <<ended, caught>> /\ Done(r) /\ live \subseteq Tok /\ \A u \in live : Drawn(u)
        BY DEF OpenSession, history, TypeInv, TypeOK, Drawn
  <1>2. /\ sess'[t].user = req[r].who /\ sess'[t].parent = f
        /\ FamilyOf(t)' = IF f = Nil THEN t ELSE FamilyOf(f)
        /\ Drawn(t)' /\ t # Nil
        BY <1>1, AuthAssumption DEF Opened, FamilyOf, Drawn, TypeInv, TypeOK
  <1>3. f # Nil => f \in Tok /\ Drawn(f) /\ Rotating(r) /\ f # t
        BY <1>1 DEF TypeInv, TypeOK, ReqRec, Rotating
  <1>4. \A u \in Tok : /\ Drawn(u)' => u = t \/ Drawn(u)
                       /\ Drawn(u) => Drawn(u)' /\ sess'[u] = sess[u] /\ FamilyOf(u)' = FamilyOf(u) /\ u # t
        BY <1>1 DEF Drawn, FamilyOf, TypeInv, TypeOK
  <1>5. \A s \in Req : Rotating(s)' => /\ s # r /\ Rotating(s) /\ req'[s] = req[s]
                                       /\ req[s].from \in Tok /\ Drawn(req[s].from)
        BY <1>1, IdleFits DEF Done, Rotating, TypeInv, TypeOK, ReqRec
  <1>6. \A u \in Tok : Drawn(u) => FamilyOf(u) \in Tok /\ Drawn(FamilyOf(u)) /\ FamilyOf(u) # t
        BY <1>1, SessOf DEF FamilyInv, FamilyOf
  <1> HIDE DEF f
  <1> USE DEF FamilyInv
  <1>7. \A u \in Tok : Drawn(u)' => /\ Drawn(FamilyOf(u))'
                                    /\ sess'[u].parent # Nil => Drawn(sess[u].parent)'
    <2>1. CASE f = Nil
          BY <1>2, <1>3, <1>4, <1>6, <2>1, SessOf DEF Drawn
    <2>2. CASE f # Nil
          BY <1>2, <1>3, <1>4, <1>6, <2>2, SessOf DEF Drawn
    <2> QED BY <2>1, <2>2
  <1>8. \A u, v \in Tok : Drawn(u)' /\ Drawn(v)' /\ FamilyOf(u)' = FamilyOf(v)' => sess'[u].user = sess'[v].user
        BY <1>2, <1>3, <1>4, <1>6 DEF f
  <1>9. OneHeir'
    <2>1. \A u, v \in live' : FamilyOf(u)' = FamilyOf(v)' => u = v
          BY <1>1, <1>2, <1>3, <1>4, <1>6 DEF OneHeir, f
    <2>2. \A s \in Req, u \in live' : Rotating(s)' => FamilyOf(req[s].from)' # FamilyOf(u)'
      <3> SUFFICES ASSUME NEW s \in Req, NEW u \in live', Rotating(s)', sess'[req'[s].from].family = FamilyOf(u)'
                   PROVE  FALSE
          BY DEF FamilyOf
      <3>1. s # r /\ Rotating(s) /\ FamilyOf(req[s].from) = FamilyOf(u)'
            BY <1>4, <1>5 DEF FamilyOf
      <3>2. CASE u \in live
            BY <1>1, <1>4, <3>1, <3>2 DEF OneHeir
      <3>3. CASE u = t
            BY <1>2, <1>3, <1>5, <1>6, <3>1, <3>3 DEF OneHeir, f
      <3> QED BY <1>1, <3>2, <3>3
    <2>3. \A s, v \in Req : Rotating(s)' /\ Rotating(v)' /\ FamilyOf(req[s].from)' = FamilyOf(req[v].from)' => s = v
      <3>1. \A s \in Req : Rotating(s)' => FamilyOf(req[s].from)' = FamilyOf(req[s].from)
            BY <1>4, <1>5 DEF FamilyOf
      <3> QED BY <1>5, <3>1 DEF OneHeir
    <2>4. \A u, v \in Tok : Drawn(u)' /\ Drawn(v)' /\ sess'[u].parent # Nil /\ sess'[u].parent = sess'[v].parent => u = v
          BY <1>2, <1>3, <1>4 DEF OneHeir, Drawn, f
    <2> QED BY <2>1, <2>2, <2>3, <2>4 DEF OneHeir, Drawn
  <1>10. \A u, v \in Tok : Drawn(v)' /\ sess'[v].parent = u => u \notin live'
    <2> SUFFICES ASSUME NEW u \in live', NEW v \in Tok, Drawn(v)', sess'[v].parent = u PROVE FALSE
        OBVIOUS
    <2>1. CASE v = t
      <3>1. u = f /\ u # Nil
            BY <1>1, <1>2, <2>1, AuthAssumption
      <3>2. u \in live
            BY <1>1, <1>3, <3>1
      <3> QED BY <1>3, <3>1, <3>2 DEF OneHeir, f
    <2>2. CASE v # t
          BY <1>1, <1>2, <1>4, <2>2
    <2> QED BY <2>1, <2>2
  <1>11. \A s \in Req, u \in Tok : Rotating(s)' /\ Drawn(u)' => sess'[u].parent # req'[s].from
    <2> SUFFICES ASSUME NEW s \in Req, NEW u \in Tok, Rotating(s)', Drawn(u)', sess'[u].parent = req'[s].from
                 PROVE  FALSE
        OBVIOUS
    <2>1. s # r /\ Rotating(s) /\ req'[s].from = req[s].from /\ req[s].from # Nil
          BY <1>5 DEF Rotating
    <2>2. CASE u = t
          BY <1>2, <1>3, <2>1, <2>2 DEF OneHeir, f
    <2>3. CASE u # t
          BY <1>4, <2>1, <2>3
    <2> QED BY <2>2, <2>3
  <1>12. \A s \in Req : Rotating(s)' => sess'[req'[s].from].user = req'[s].who
         BY <1>4, <1>5
  <1>13. \A u \in ended' : Drawn(u)'
         BY <1>1, <1>4 DEF TypeInv, TypeOK
  <1>14. SignOutHolds'
    <2>1. FamilyOf(t)' \in ended => FamilyOf(t)' \in caught
          BY <1>1, <1>2, <1>3 DEF f
    <2> QED BY <1>1, <1>4, <2>1 DEF SignOutHolds
  <1>15. \A s \in Req : Rotating(s)' /\ FamilyOf(req[s].from)' \in ended' => FamilyOf(req[s].from)' \in caught'
    <2>1. \A s \in Req : Rotating(s)' => FamilyOf(req[s].from)' = FamilyOf(req[s].from)
          BY <1>4, <1>5 DEF FamilyOf
    <2> QED BY <1>1, <1>5, <2>1
  <1> QED BY <1>7, <1>8, <1>9, <1>10, <1>11, <1>12, <1>13, <1>14, <1>15

\* Every step is one of: a token taken, a token handed out, families ended, nothing of the kind.
LEMMA NextFamily == TypeInv /\ FamilyInv /\ [Next]_vars => FamilyInv'
  <1> SUFFICES ASSUME TypeInv, FamilyInv, [Next]_vars PROVE FamilyInv'
      OBVIOUS
  <1>1. CASE \E r \in Req, t \in Tok : RefreshTake(r, t)
        BY <1>1, TakeFamily
  <1>2. CASE \E r \in Req, t \in Tok : OpenSession(r, t)
    <2>1. PICK r \in Req, t \in Tok : OpenSession(r, t)
          BY <1>2
    <2>2. \A u \in Tok : Drawn(u) => sess'[u] = sess[u]
          BY TokenStep
    <2>3. Opened(r, t) # Nil
      <3>1. req[r] \in ReqRec /\ req[r].who \in Person /\ (req[r].from # Nil => FamilyOf(req[r].from) \in Tok)
            BY <2>1, SessOf DEF TypeInv, TypeOK, OpenSession, At, Carries, Rotating, FamilyOf, ReqRec
      <3>2. Opened(r, t) \in SessRec
            BY <3>1 DEF Opened, SessRec, ReqRec
      <3> QED BY <3>2, NilSessAssumption
    <2> QED BY <2>1, <2>2, <2>3, OpenFamily
  <1> SUFFICES ASSUME \A r \in Req, t \in Tok : ~RefreshTake(r, t) /\ ~OpenSession(r, t) PROVE FamilyInv'
      BY <1>1, <1>2
  <1>3. \A s \in Req : KeepsToken(s)
        BY HoldStep
  <1>4. \A t \in Tok : Drawn(t) => FamilyOf(t) \in Tok /\ Drawn(FamilyOf(t))
        BY SessOf DEF FamilyInv, FamilyOf
  <1>5. ASSUME NEW r \in Req, NEW t \in Tok, RefreshReplayed(r, t) PROVE FamilyInv'
    <2>1. Drawn(t)
          BY <1>5 DEF RefreshReplayed, Unexpired, TypeInv
    <2>2. /\ Ending({FamilyOf(t)}) /\ UNCHANGED sess /\ live' \subseteq live
          /\ \A u \in live' : FamilyOf(u) \notin {FamilyOf(t)}
          BY <1>5 DEF RefreshReplayed, Unexpired
    <2> QED BY <1>3, <1>4, <2>1, <2>2, EndFamily
  <1>6. ASSUME NEW t \in Tok, Logout(t) PROVE FamilyInv'
    <2>1. Drawn(t) /\ live \subseteq Tok
          BY <1>6 DEF Logout, TypeInv, TypeOK
    <2>2. /\ Ending({FamilyOf(t)}) /\ UNCHANGED sess /\ live' \subseteq live
          /\ \A u \in live' : FamilyOf(u) \notin {FamilyOf(t)}
          BY <1>6, <2>1 DEF Logout, FamilyInv, OneHeir
    <2> QED BY <1>3, <1>4, <2>1, <2>2, EndFamily
  <1>7. ASSUME NEW r \in Req, Drop(r) PROVE FamilyInv'
    <2> DEFINE F == {FamilyOf(t) : t \in {u \in Tok : sess[u] # Nil /\ sess[u].user = req[r].who}}
    <2>1. F \in SUBSET Tok /\ \A f \in F : Drawn(f)
          BY <1>4 DEF Drawn
    <2>2. Ending(F) /\ UNCHANGED sess /\ live' = LiveNotOf(req[r].who)
          BY <1>7 DEF Drop
    <2>3. \A u \in live' : u \in live /\ FamilyOf(u) \notin F
          BY <2>2 DEF LiveNotOf, FamilyInv, TypeInv, TypeOK, Drawn
    <2> HIDE DEF F
    <2> QED BY <1>3, <2>1, <2>2, <2>3, EndFamily
  <1>8. ASSUME UNCHANGED <<sess, ended, caught>>, live' \subseteq live PROVE FamilyInv'
        BY <1>3, <1>8, QuietFamily
  <1>9. ASSUME (\E r \in Req, t \in Tok : RefreshUnknown(r, t)) \/ Restart PROVE FamilyInv'
    <2>1. UNCHANGED <<sess, ended, caught>> /\ live' \subseteq live
          BY <1>9 DEF RefreshUnknown, Restart, Unexpired, history
    <2> QED BY <1>8, <2>1
  <1>10. ASSUME NEW r \in Req, Sessions(r) PROVE FamilyInv'
    <2>1. \/ UNCHANGED <<tokens, ended, caught>> \/ Drop(r)
          \/ \E t \in Tok : RefreshReplayed(r, t) \/ RefreshUnknown(r, t)
          BY <1>10 DEF Sessions, EverywhereStart, RefreshPerson, End, history
    <2> QED BY <1>5, <1>7, <1>8, <1>9, <2>1 DEF tokens
  <1>11. ASSUME NEW r \in Req, Ceremonies(r) PROVE FamilyInv'
    <2>1. UNCHANGED <<sess, live, ended, caught>>
          BY <1>11 DEF Ceremonies, InvitePut, AddPut, LoginFinish, RegisterFinish, LoginUsed, InviteStart, AddStart,
                       Redeem, Plant, history, tokens
    <2> QED BY <1>8, <2>1
  <1>12. ASSUME NEW r \in Req, Accounts(r) PROVE FamilyInv'
    <2>1. UNCHANGED <<sess, live, ended, caught>>
          BY <1>12 DEF Accounts, UnkeyStart, EvictStart, InviteByName, InviteBack, RevokeStart, CliInvite, NewInvite,
                       Unkey, Evict, Revoke, Reopen, InviteName, history, tokens
    <2> QED BY <1>8, <2>1
  <1>13. ASSUME \/ \E r \in Req : Cancel(r)
                \/ \E x \in Cer : LoginStart(x) \/ ForgetCeremony(x)
                \/ Tick \/ UNCHANGED vars
         PROVE  FamilyInv'
    <2>1. UNCHANGED <<sess, live, ended, caught>>
          BY <1>13 DEF Cancel, LoginStart, ForgetCeremony, Tick, vars, history, tokens
    <2> QED BY <1>8, <2>1
  <1> QED BY <1>6, <1>9, <1>10, <1>11, <1>12, <1>13 DEF Next

\* Only OpenSession hands a token out, with the proof its request carried.
LEMMA NextProof == TypeInv /\ ProofInv /\ [Next]_vars => ProofInv'
  <1> SUFFICES ASSUME TypeInv, ProofInv, [Next]_vars PROVE ProofInv'
      OBVIOUS
  <1>1. /\ proofs \subseteq proofs'
        /\ \A t \in Tok : Drawn(t) => sess'[t] = sess[t] /\ <<sess[t].user, sess[t].auth>> \in proofs
        BY ProofStep, TokenStep DEF ProofInv, AuthIsProof, Drawn
  <1>2. AuthIsProof'
    <2> SUFFICES ASSUME NEW t \in Tok, sess'[t] # Nil PROVE <<sess'[t].user, sess'[t].auth>> \in proofs'
        BY DEF AuthIsProof
    <2>1. CASE Drawn(t)
          BY <1>1, <2>1
    <2>2. CASE ~Drawn(t)
      <3>1. PICK r \in Req : OpenSession(r, t)
        <4>1. ASSUME UNCHANGED sess PROVE FALSE
              BY <2>2, <4>1 DEF Drawn
        <4>2. ASSUME NEW r \in Req, NEW u \in Tok, OpenSession(r, u) PROVE u = t
              BY <2>2, <4>2 DEF OpenSession, Drawn, TypeInv, TypeOK
        <4>3. (\E r \in Req, u \in Tok : OpenSession(r, u)) \/ UNCHANGED sess
          <5>1. ASSUME NEW r \in Req, Sessions(r) PROVE UNCHANGED sess \/ \E u \in Tok : OpenSession(r, u)
                BY <5>1 DEF Sessions, RefreshTake, RefreshReplayed, RefreshUnknown, EverywhereStart, RefreshPerson,
                            End, Drop, tokens
          <5>2. ASSUME NEW r \in Req, Ceremonies(r) PROVE UNCHANGED sess
                BY <5>2 DEF Ceremonies, InvitePut, AddPut, LoginFinish, RegisterFinish, LoginUsed, InviteStart,
                            AddStart, Redeem, Plant, tokens
          <5>3. ASSUME NEW r \in Req, Accounts(r) PROVE UNCHANGED sess
                BY <5>3 DEF Accounts, UnkeyStart, EvictStart, InviteByName, InviteBack, RevokeStart, CliInvite,
                            NewInvite, Unkey, Evict, Revoke, Reopen, InviteName, tokens
          <5>4. ASSUME \/ \E r \in Req : Cancel(r)
                       \/ \E u \in Tok : Logout(u)
                       \/ \E x \in Cer : LoginStart(x) \/ ForgetCeremony(x)
                       \/ Restart \/ Tick \/ UNCHANGED vars
                PROVE  UNCHANGED sess
                BY <5>4 DEF Cancel, Logout, LoginStart, ForgetCeremony, Restart, Tick, vars, tokens
          <5> QED BY <5>1, <5>2, <5>3, <5>4 DEF Next
        <4> QED BY <4>1, <4>2, <4>3
      <3>2. sess'[t].user = req[r].who /\ sess'[t].auth = req[r].auth /\ Proven(req[r])
            BY <3>1 DEF OpenSession, Opened, At, Proven, TypeInv, TypeOK
      <3> QED BY <1>1, <3>2 DEF ProofInv
    <2> QED BY <2>1, <2>2
  <1>3. ASSUME NEW s \in Req, Proven(req'[s]) PROVE <<req'[s].who, req'[s].auth>> \in proofs'
    <2>1. CASE KeepsProof(s)
          BY <1>1, <1>3, <2>1 DEF KeepsProof, ProofInv
    <2>2. CASE \E t \in Tok : Drawn(t) /\ req'[s].who = sess[t].user /\ req'[s].auth = sess[t].auth
          BY <1>1, <2>2
    <2> QED BY <2>1, <2>2, HoldStep
  <1> QED BY <1>2, <1>3 DEF ProofInv, Proven

-----------------------------------------------------------------------------
(* What follows.                                                           *)

\* The invariant holds throughout: every record is of its type, every link fits the book, every
\* family has one heir, every proof was given.
THEOREM ThInv == Spec => []IInv
  <1>1. IInv /\ [Next]_vars => IInv'
        BY NextTypes, NextBook, NextFamily, NextProof DEF IInv
  <1> QED BY InitIInv, <1>1, PTL DEF Spec

\* The types of the module's variables.
THEOREM ThTypeOK == Spec => []TypeOK
  <1>1. IInv => TypeOK
        BY DEF IInv, TypeInv
  <1> QED BY ThInv, <1>1, PTL

\* However refreshes race (routes/auth.rs reads the person again between `take` and `insert`), one
\* sign-in has at most one token that is live or being rotated.
THEOREM ThOneHeir == Spec => []OneHeir
  <1>1. IInv => OneHeir
        BY DEF IInv, FamilyInv
  <1> QED BY ThInv, <1>1, PTL

\* A family that was told it is over (logout, logout-everywhere, a replay, a passkey or a person
\* removed) has no live token, but for a rotation that was in flight at that moment.
THEOREM ThSignOutHolds == Spec => []SignOutHolds
  <1>1. IInv => SignOutHolds
        BY DEF IInv, FamilyInv
  <1> QED BY ThInv, <1>1, PTL

\* The time of proof a session carries (`auth_time`) is one at which its person used a passkey.
THEOREM ThAuthIsProof == Spec => []AuthIsProof
  <1>1. IInv => AuthIsProof
        BY DEF IInv, ProofInv
  <1> QED BY ThInv, <1>1, PTL

\* Removals of passkeys, of people and of invitations leave nobody in the book without a passkey.
THEOREM ThKeysNeverRunOut == Spec => []KeysNeverRunOut
  <1>1. IInv => KeysNeverRunOut
        BY DEF IInv, BookInv, BookFits, Keyed, KeysNeverRunOut, PasskeysOf
  <1> QED BY ThInv, <1>1, PTL

\* An invitation registers one passkey, under the handle its person has: the link of every
\* ceremony is to an invitation that fits the book whatever happened since it was opened.
THEOREM ThInviteOnce == Spec => []InviteOnce
  <1>1. IInv => InviteOnce
    <2> SUFFICES ASSUME IInv PROVE InviteOnce
        OBVIOUS
    <2>1. Rooted(book, drawn) /\ Single(book)
          BY DEF IInv, BookInv, BookFits
    <2> QED BY <2>1 DEF Rooted, Single, Redeemed, InviteOnce, Identifies
  <1> QED BY ThInv, <1>1, PTL

=============================================================================
