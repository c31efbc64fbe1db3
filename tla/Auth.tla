-------------------------------- MODULE Auth --------------------------------
(***************************************************************************)
(* Who is let in: the sign-in, session and account handlers of             *)
(* backend/src/routes/{auth,passkeys}.rs over the book (People), the       *)
(* refresh tokens of auth.rs and the ceremonies of passkey.rs.             *)
(*                                                                         *)
(* A handler is cut where it awaits: one action is what runs between two   *)
(* awaits of a shared store, and each read or edit of the book and each    *)
(* operation of the refresh store is one such step (both are behind a      *)
(* mutex).  req[r] is a request in flight, `pc` what it does next.  `at`   *)
(* is the clock a handler read BEFORE it queued on a mutex.  A request may *)
(* be cancelled between any two steps (TimeoutLayer, a client that hangs   *)
(* up: hyper drops the future).                                            *)
(***************************************************************************)
EXTENDS People

CONSTANTS
    Req,          \* requests in flight at once
    Tok,          \* refresh tokens; Tok also names the access token issued with it
    Cer,          \* ceremony ids
    Kind,         \* the kinds of request the clients of this instance send
    Admins,       \* the people who start as admins
    Owner,        \* whose passkey each credential is at the start (Nil: nobody's)
    AccessLife,   \* ACCESS_TOKEN_MINUTES, in clock ticks
    RefreshLife,  \* REFRESH_TOKEN_DAYS
    ReauthLife    \* REAUTH_MS

ASSUME AuthAssumption ==
    /\ Handle = Person \cup Cer      \* a founder's handle is named for them, a fresh one for its ceremony
    /\ Nil \notin Req \cup Tok
    /\ Owner \in [Cred -> Person \cup {Nil}]
    /\ Admins \subseteq Person
    /\ AccessLife \in Nat /\ RefreshLife \in Nat /\ ReauthLife \in Nat

VARIABLES
    now,      \* the wall clock
    book,     \* auth.json
    cers,     \* ceremonies in memory, Nil when there is none
    drawn,    \* random ids of invitations and ceremonies drawn so far: never drawn again
    sess,     \* what the tokens handed out say; Nil for one not drawn yet
    live,     \* RefreshTokenStore.live
    spent,    \* RefreshTokenStore.spent
    req,      \* the requests in flight
    proofs,   \* history: who proved themselves with a passkey, and when
    ended,    \* history: families told they were over
    caught    \* history: of those, the ones a rotation of was in flight at that moment

vars == <<now, book, cers, drawn, sess, live, spent, req, proofs, ended, caught>>
history == <<proofs, ended, caught>>
tokens == <<sess, live, spent>>

\* A refresh entry and the claims of the access token issued with it.  A family is named by
\* its first token; `parent` is the token it was rotated from (Nil: a sign-in).
SessRec == [user : Person, issued : Time, auth : Time, family : Tok, parent : Tok \cup {Nil}]

ASSUME NilSessAssumption == Nil \notin SessRec

CerRec == [via : {"login", "session", "invite"}, person : Person \cup {Nil},
           handle : Handle \cup {Nil}, inv : Invite \cup {Nil}]

PC == {"idle", "rotating", "opening", "identified", "greeted", "adding", "redeeming",
       "planting", "unkeying", "ending", "dropping", "reopening", "evicting", "naming",
       "inviting", "revoking"}

ReqRec == [pc : PC, op : Kind \cup {Nil}, who : Person \cup {Nil}, auth : Time, at : Time,
           from : Tok \cup {Nil}, cred : Cred \cup {Nil}, inv : Invite \cup {Nil},
           hand : Handle \cup {Nil}, role : Role]

Idle == [pc |-> "idle", op |-> Nil, who |-> Nil, auth |-> 0, at |-> 0, from |-> Nil,
         cred |-> Nil, inv |-> Nil, hand |-> Nil, role |-> "member"]

TypeOK ==
    /\ now \in Time
    /\ book \in Book
    /\ cers \in [Cer -> CerRec \cup {Nil}]
    /\ drawn \subseteq Cer \cup Invite
    /\ sess \in [Tok -> SessRec \cup {Nil}]
    /\ live \subseteq Tok
    /\ spent \subseteq Tok
    /\ req \in [Req -> ReqRec]
    /\ proofs \subseteq Person \X Time
    /\ ended \subseteq Tok
    /\ caught \subseteq Tok

-----------------------------------------------------------------------------

\* Everyone who has a passkey redeemed an invitation at time 0, and is signed out.
InitBook ==
    [people   |-> [p \in Person |-> IF \E c \in Cred : Owner[c] = p
                                    THEN [role |-> IF p \in Admins THEN "admin" ELSE "member",
                                          handle |-> p, notBefore |-> 0]
                                    ELSE Nil],
     passkeys |-> [c \in Cred |-> IF Owner[c] = Nil THEN Nil
                                  ELSE [person |-> Owner[c], handle |-> Owner[c], via |-> Nil]],
     invites  |-> [i \in Invite |-> Nil]]

Init ==
    /\ now = 0
    /\ book = InitBook
    /\ cers = [x \in Cer |-> Nil]
    /\ drawn = {}
    /\ sess = [t \in Tok |-> Nil]
    /\ live = {}
    /\ spent = {}
    /\ req = [r \in Req |-> Idle]
    /\ proofs = {}
    /\ ended = {}
    /\ caught = {}

-----------------------------------------------------------------------------

\* A request of this kind arrives and r is free to carry it.
Arrives(r, kind) == req[r].pc = "idle" /\ kind \in Kind

At(r, pc) == req[r].pc = pc

\* r answered, whatever the answer: nothing of it is left.
Done(r) == req' = [req EXCEPT ![r] = Idle]

Goto(r, next) == req' = [req EXCEPT ![r] = next]

FamilyOf(t) == sess[t].family

\* The refresh token r spent and has not replaced yet.
Rotating(r) == req[r].from # Nil

\* `AuthenticatedUser`: the JWT has not expired, its person is in the book, and it was not
\* issued before their last sign-out.
AccessValid(t) ==
    /\ sess[t] # Nil
    /\ now <= sess[t].issued + AccessLife
    /\ Known(book, sess[t].user)
    /\ ~(sess[t].issued < book.people[sess[t].user].notBefore)

\* `AdminUser`.
AdminValid(t) == AccessValid(t) /\ book.people[sess[t].user].role = "admin"

\* `prune`: the tokens of S that have not expired.
Unexpired(S) == {t \in S : sess[t].issued + RefreshLife > now}

\* What the history keeps of the families F told they are over.
Ending(F) ==
    /\ ended' = ended \cup F
    /\ caught' = caught \cup {f \in F : \E r \in Req : Rotating(r) /\ FamilyOf(req[r].from) = f}
    /\ UNCHANGED proofs

-----------------------------------------------------------------------------
(* POST /refresh: take, read the person again, open.                       *)

\* Mutant: read, but not spent.
RefreshTakeCopy(r, t) ==
    /\ Arrives(r, "refresh")
    /\ t \in Unexpired(live)
    /\ live' = Unexpired(live)
    /\ spent' = Unexpired(spent)
    /\ Goto(r, [Idle EXCEPT !.pc = "rotating", !.who = sess[t].user, !.auth = sess[t].auth, !.from = t])
    /\ UNCHANGED <<now, book, cers, drawn, sess, history>>

\* Taken::Valid: live, and spent in the same breath.
RefreshTake(r, t) ==
    /\ Arrives(r, "refresh")
    /\ t \in Unexpired(live)
    /\ live' = Unexpired(live) \ {t}
    /\ spent' = Unexpired(spent) \cup {t}
    /\ Goto(r, [Idle EXCEPT !.pc = "rotating", !.who = sess[t].user, !.auth = sess[t].auth, !.from = t])
    /\ UNCHANGED <<now, book, cers, drawn, sess, history>>

\* Taken::Replayed: spent already, so its family ends; 401.
RefreshReplayed(r, t) ==
    /\ Arrives(r, "refresh")
    /\ t \in Unexpired(spent) \ Unexpired(live)
    /\ live' = {u \in Unexpired(live) : FamilyOf(u) # FamilyOf(t)}
    /\ spent' = Unexpired(spent)
    /\ Ending({FamilyOf(t)})
    /\ UNCHANGED <<now, book, cers, drawn, sess, req>>

\* Taken::Unknown (logged out, signed out or expired); 401, but the expired are pruned.
RefreshUnknown(r, t) ==
    /\ Arrives(r, "refresh")
    /\ sess[t] # Nil
    /\ t \notin Unexpired(live) \cup Unexpired(spent)
    /\ live' = Unexpired(live)
    /\ spent' = Unexpired(spent)
    /\ UNCHANGED <<now, book, cers, drawn, sess, req, history>>

\* The person as the book says now, and the clock of the new tokens.
RefreshPerson(r) ==
    /\ At(r, "rotating")
    /\ IF Known(book, req[r].who)
       THEN Goto(r, [req[r] EXCEPT !.pc = "opening", !.at = now])
       ELSE Done(r)
    /\ UNCHANGED <<now, book, cers, drawn, tokens, history>>

\* Mutant: every new token says the passkey was used just now.
OpenedProven(r, t) ==
    [user   |-> req[r].who,
     issued |-> req[r].at,
     auth   |-> req[r].at,
     family |-> IF req[r].from = Nil THEN t ELSE FamilyOf(req[r].from),
     parent |-> req[r].from]

\* `open_session`: the tokens are drawn and the refresh token inserted.
Opened(r, t) ==
    [user   |-> req[r].who,
     issued |-> req[r].at,
     auth   |-> req[r].auth,
     family |-> IF req[r].from = Nil THEN t ELSE FamilyOf(req[r].from),
     parent |-> req[r].from]

OpenSession(r, t) ==
    /\ At(r, "opening")
    /\ sess[t] = Nil
    /\ sess' = [sess EXCEPT ![t] = Opened(r, t)]
    /\ live' = live \cup {t}
    /\ Done(r)
    /\ UNCHANGED <<now, book, cers, drawn, spent, history>>

-----------------------------------------------------------------------------
(* Signing out.                                                            *)

\* POST /logout with a live refresh token; any other changes nothing.
Logout(t) ==
    /\ "logout" \in Kind
    /\ t \in live
    /\ live' = live \ {t}
    /\ Ending({FamilyOf(t)})
    /\ UNCHANGED <<now, book, cers, drawn, sess, spent, req>>

\* POST /logout-everywhere, up to its first await.
EverywhereStart(r, t) ==
    /\ Arrives(r, "everywhere")
    /\ AccessValid(t)
    /\ Goto(r, [Idle EXCEPT !.pc = "ending", !.op = "everywhere", !.who = sess[t].user, !.at = now])
    /\ UNCHANGED <<now, book, cers, drawn, tokens, history>>

\* `end_sessions`, first half: the access tokens issued before `at` are void.
End(r) ==
    /\ At(r, "ending")
    /\ book' = EndSessions(book, req[r].who, req[r].at)
    /\ Goto(r, [req[r] EXCEPT !.pc = "dropping"])
    /\ UNCHANGED <<now, cers, drawn, tokens, history>>

\* Mutant: only the refresh tokens older than the sign-out go.
LiveNotOfOlder(p) == {t \in live : sess[t].user # p \/ sess[t].issued >= now}

\* `RefreshTokenStore::remove_person`: the live tokens that are not p's.
LiveNotOf(p) == {t \in live : sess[t].user # p}

\* `end_sessions`, second half: their refresh tokens go.  What called it goes on.
AfterDrop == [op \in Kind |-> CASE op = "unkey" -> "reopening"
                                [] op = "evict" -> "evicting"
                                [] OTHER -> "idle"]

Drop(r) ==
    /\ At(r, "dropping")
    /\ live' = LiveNotOf(req[r].who)
    /\ Ending({FamilyOf(t) : t \in {u \in Tok : sess[u] # Nil /\ sess[u].user = req[r].who}})
    /\ IF AfterDrop[req[r].op] = "idle" THEN Done(r)
       ELSE Goto(r, [req[r] EXCEPT !.pc = AfterDrop[req[r].op]])
    /\ UNCHANGED <<now, book, cers, drawn, sess, spent>>

-----------------------------------------------------------------------------
(* Signing in with a passkey.                                              *)

LoginStart(x) ==
    /\ "login" \in Kind
    /\ x \notin drawn
    /\ drawn' = drawn \cup {x}
    /\ cers' = [cers EXCEPT ![x] = [via |-> "login", person |-> Nil, handle |-> Nil, inv |-> Nil]]
    /\ UNCHANGED <<now, book, tokens, req, history>>

\* The credential is somebody's here, and its authenticator names the handle of that person.
Identifies(c) ==
    /\ book.passkeys[c] # Nil
    /\ Known(book, book.passkeys[c].person)
    /\ book.people[book.passkeys[c].person].handle = book.passkeys[c].handle

\* The ceremony is spent, whether the credential is known or not.
LoginFinish(r, x, c) ==
    /\ Arrives(r, "login")
    /\ cers[x] # Nil /\ cers[x].via = "login"
    /\ cers' = [cers EXCEPT ![x] = Nil]
    /\ IF Identifies(c)
       THEN Goto(r, [Idle EXCEPT !.pc = "identified", !.who = book.passkeys[c].person])
       ELSE Done(r)
    /\ UNCHANGED <<now, book, drawn, tokens, history>>

\* `passkey_used` (nothing kept here changes, and a passkey gone meanwhile is no error).
LoginUsed(r) ==
    /\ At(r, "identified")
    /\ Goto(r, [req[r] EXCEPT !.pc = "opening", !.auth = now, !.at = now])
    /\ proofs' = proofs \cup {<<req[r].who, now>>}
    /\ UNCHANGED <<now, book, cers, drawn, tokens, ended, caught>>

-----------------------------------------------------------------------------
(* Registering a passkey, by invitation or from a session.                 *)

InviteStart(r, i) ==
    /\ Arrives(r, "redeem")
    /\ Pending(book, i, now)
    /\ Goto(r, [Idle EXCEPT !.pc = "greeted", !.who = book.invites[i].person, !.inv = i])
    /\ UNCHANGED <<now, book, cers, drawn, tokens, history>>

InvitePut(r, x) ==
    /\ At(r, "greeted")
    /\ x \notin drawn
    /\ drawn' = drawn \cup {x}
    /\ cers' = [cers EXCEPT ![x] = [via |-> "invite", person |-> req[r].who, inv |-> req[r].inv,
                                    handle |-> UserHandle(book, req[r].who, x)]]
    /\ Done(r)
    /\ UNCHANGED <<now, book, tokens, history>>

\* From a session: the person proved themselves lately (REAUTH_MS).
AddStart(r, t) ==
    /\ Arrives(r, "add")
    /\ AccessValid(t)
    /\ now <= sess[t].auth + ReauthLife
    /\ Goto(r, [Idle EXCEPT !.pc = "adding", !.who = sess[t].user])
    /\ UNCHANGED <<now, book, cers, drawn, tokens, history>>

AddPut(r, x) ==
    /\ At(r, "adding")
    /\ x \notin drawn
    /\ IF Known(book, req[r].who)
       THEN /\ drawn' = drawn \cup {x}
            /\ cers' = [cers EXCEPT ![x] = [via |-> "session", person |-> req[r].who, inv |-> Nil,
                                            handle |-> book.people[req[r].who].handle]]
       ELSE UNCHANGED <<cers, drawn>>
    /\ Done(r)
    /\ UNCHANGED <<now, book, tokens, history>>

\* The answer to a registration: the ceremony is spent; one started from a session is for
\* its own person, signed in still.
RegisterFinish(r, x, c) ==
    LET cer  == cers[x]
        next == [Idle EXCEPT !.who = cer.person, !.inv = cer.inv, !.hand = cer.handle,
                             !.cred = c, !.at = now]
    IN  /\ Arrives(r, "register")
        /\ cer # Nil /\ cer.via # "login"
        /\ cers' = [cers EXCEPT ![x] = Nil]
        /\ \/ /\ cer.via = "invite"
              /\ Goto(r, [next EXCEPT !.pc = "redeeming"])
           \/ /\ cer.via = "session"
              /\ \E t \in Tok : AccessValid(t) /\ sess[t].user = cer.person
              /\ Goto(r, [next EXCEPT !.pc = "planting"])
           \/ /\ cer.via = "session"
              /\ Done(r)
        /\ UNCHANGED <<now, book, drawn, tokens, history>>

\* `redeem_invite`, then a session for the person it says.
Redeem(r) ==
    LET q == req[r]
    IN  /\ At(r, "redeeming")
        /\ book' = RedeemInvite(book, q.inv, q.hand, q.cred, q.at)
        /\ IF MayRedeem(book, q.inv, q.cred, q.at)
           THEN /\ Goto(r, [Idle EXCEPT !.pc = "opening", !.who = q.who, !.auth = now, !.at = now])
                /\ proofs' = proofs \cup {<<q.who, now>>}
           ELSE Done(r) /\ UNCHANGED proofs
        /\ UNCHANGED <<now, cers, drawn, tokens, ended, caught>>

\* `add_passkey`.
Plant(r) ==
    /\ At(r, "planting")
    /\ book' = AddPasskey(book, req[r].cred, [person |-> req[r].who, handle |-> req[r].hand, via |-> Nil])
    /\ Done(r)
    /\ UNCHANGED <<now, cers, drawn, tokens, history>>

-----------------------------------------------------------------------------
(* DELETE of one of my passkeys: it goes, every session ends, this browser *)
(* gets a fresh one.                                                       *)

UnkeyStart(r, t, c) ==
    /\ Arrives(r, "unkey")
    /\ AccessValid(t)
    /\ Goto(r, [Idle EXCEPT !.pc = "unkeying", !.op = "unkey", !.who = sess[t].user,
                            !.auth = sess[t].auth, !.cred = c])
    /\ UNCHANGED <<now, book, cers, drawn, tokens, history>>

Unkey(r) ==
    /\ At(r, "unkeying")
    /\ book' = DeletePasskey(book, req[r].who, req[r].cred)
    /\ IF MayDelete(book, req[r].who, req[r].cred)
       THEN Goto(r, [req[r] EXCEPT !.pc = "ending", !.at = now])
       ELSE Done(r)
    /\ UNCHANGED <<now, cers, drawn, tokens, history>>

Reopen(r) ==
    /\ At(r, "reopening")
    /\ IF Known(book, req[r].who)
       THEN Goto(r, [req[r] EXCEPT !.pc = "opening", !.at = now])
       ELSE Done(r)
    /\ UNCHANGED <<now, book, cers, drawn, tokens, history>>

-----------------------------------------------------------------------------
(* What admins do: removing someone, inviting.                             *)

\* Never oneself.  Their sessions end first, then they leave the book.
EvictStart(r, t, p) ==
    /\ Arrives(r, "evict")
    /\ AdminValid(t)
    /\ p # sess[t].user
    /\ Goto(r, [Idle EXCEPT !.pc = "ending", !.op = "evict", !.who = p, !.at = now])
    /\ UNCHANGED <<now, book, cers, drawn, tokens, history>>

Evict(r) ==
    /\ At(r, "evicting")
    /\ book' = RemovePerson(book, req[r].who)
    /\ Done(r)
    /\ UNCHANGED <<now, cers, drawn, tokens, history>>

\* By name: refused when someone has it already.
InviteByName(r, t, p, role) ==
    /\ Arrives(r, "name")
    /\ AdminValid(t)
    /\ Goto(r, [Idle EXCEPT !.pc = "naming", !.op = "name", !.who = p, !.role = role])
    /\ UNCHANGED <<now, book, cers, drawn, tokens, history>>

InviteName(r) ==
    /\ At(r, "naming")
    /\ IF Known(book, req[r].who) THEN Done(r)
       ELSE Goto(r, [req[r] EXCEPT !.pc = "inviting", !.at = now])
    /\ UNCHANGED <<now, book, cers, drawn, tokens, history>>

\* By id: someone's way back in.
InviteBack(r, t, p, role) ==
    /\ Arrives(r, "back")
    /\ AdminValid(t)
    /\ Goto(r, [Idle EXCEPT !.pc = "inviting", !.op = "back", !.who = p, !.role = role, !.at = now])
    /\ UNCHANGED <<now, book, cers, drawn, tokens, history>>

\* `maison-backend invite`, from a shell on the Pi: another process, nobody to authenticate.
CliInvite(r, p, role) ==
    /\ Arrives(r, "cli")
    /\ Goto(r, [Idle EXCEPT !.pc = "inviting", !.op = "cli", !.who = p, !.role = role, !.at = now])
    /\ UNCHANGED <<now, book, cers, drawn, tokens, history>>

NewInvite(r, i) ==
    /\ At(r, "inviting")
    /\ i \notin drawn
    /\ drawn' = drawn \cup {i}
    /\ book' = CreateInvite(book, i, req[r].who, req[r].role, req[r].at)
    /\ Done(r)
    /\ UNCHANGED <<now, cers, tokens, history>>

RevokeStart(r, t, i) ==
    /\ Arrives(r, "revoke")
    /\ AdminValid(t)
    /\ Goto(r, [Idle EXCEPT !.pc = "revoking", !.inv = i])
    /\ UNCHANGED <<now, book, cers, drawn, tokens, history>>

Revoke(r) ==
    /\ At(r, "revoking")
    /\ book' = DeleteInvite(book, req[r].inv)
    /\ Done(r)
    /\ UNCHANGED <<now, cers, drawn, tokens, history>>

-----------------------------------------------------------------------------
(* What happens to requests, ceremonies and the process.                   *)

\* The future is dropped: the steps it took stand, the rest never happens.
Cancel(r) ==
    /\ req[r].pc # "idle"
    /\ Done(r)
    /\ UNCHANGED <<now, book, cers, drawn, tokens, history>>

\* Too old, or evicted by newer ones (CEREMONY_TTL, CEREMONY_CAP, CEREMONIES_PER_ADDRESS).
ForgetCeremony(x) ==
    /\ cers[x] # Nil
    /\ cers' = [cers EXCEPT ![x] = Nil]
    /\ UNCHANGED <<now, book, drawn, tokens, req, history>>

\* The process dies and comes back: requests and ceremonies are gone, the two files stand.
\* `load` prunes.
Restart ==
    /\ "restart" \in Kind
    /\ req' = [r \in Req |-> Idle]
    /\ cers' = [x \in Cer |-> Nil]
    /\ live' = Unexpired(live)
    /\ spent' = Unexpired(spent)
    /\ UNCHANGED <<now, book, drawn, sess, history>>

Tick ==
    /\ now < MaxNow
    /\ now' = now + 1
    /\ UNCHANGED <<book, cers, drawn, tokens, req, history>>

Sessions(r) ==
    \/ \E t \in Tok : \/ RefreshTake(r, t)
                      \/ RefreshReplayed(r, t)
                      \/ RefreshUnknown(r, t)
                      \/ OpenSession(r, t)
                      \/ EverywhereStart(r, t)
    \/ RefreshPerson(r)
    \/ End(r)
    \/ Drop(r)

Ceremonies(r) ==
    \/ \E x \in Cer : \/ InvitePut(r, x)
                      \/ AddPut(r, x)
                      \/ \E c \in Cred : LoginFinish(r, x, c) \/ RegisterFinish(r, x, c)
    \/ LoginUsed(r)
    \/ \E i \in Invite : InviteStart(r, i)
    \/ \E t \in Tok : AddStart(r, t)
    \/ Redeem(r)
    \/ Plant(r)

Accounts(r) ==
    \/ \E t \in Tok : \/ \E c \in Cred : UnkeyStart(r, t, c)
                      \/ \E p \in Person : \/ EvictStart(r, t, p)
                                           \/ \E role \in Role : \/ InviteByName(r, t, p, role)
                                                                 \/ InviteBack(r, t, p, role)
                      \/ \E i \in Invite : RevokeStart(r, t, i)
    \/ \E p \in Person, role \in Role : CliInvite(r, p, role)
    \/ \E i \in Invite : NewInvite(r, i)
    \/ Unkey(r)
    \/ Reopen(r)
    \/ Evict(r)
    \/ InviteName(r)
    \/ Revoke(r)

Next ==
    \/ \E r \in Req : Sessions(r) \/ Ceremonies(r) \/ Accounts(r) \/ Cancel(r)
    \/ \E t \in Tok : Logout(t)
    \/ \E x \in Cer : LoginStart(x) \/ ForgetCeremony(x)
    \/ Restart
    \/ Tick

Spec == Init /\ [][Next]_vars

-----------------------------------------------------------------------------
(* Properties.                                                             *)

\* One sign-in has one heir: of all the tokens rotated from one sign-in, at most one is live
\* or being rotated, however refreshes race (`take` spends in the same breath, auth.rs), and no
\* two tokens were ever rotated from the same one.
OneHeir ==
    /\ \A t, u \in live : FamilyOf(t) = FamilyOf(u) => t = u
    /\ \A r \in Req, t \in live : Rotating(r) => FamilyOf(req[r].from) # FamilyOf(t)
    /\ \A r, s \in Req : Rotating(r) /\ Rotating(s) /\ FamilyOf(req[r].from) = FamilyOf(req[s].from) => r = s
    /\ \A t, u \in Tok : sess[t] # Nil /\ sess[u] # Nil /\ sess[t].parent # Nil /\ sess[t].parent = sess[u].parent
                          => t = u

\* Signing out (this browser, everywhere, by a replay) ends a family, unless a rotation of that
\* very family had been taken and not inserted yet: nothing else lives on.
SignOutHolds == \A t \in live : FamilyOf(t) \in ended => FamilyOf(t) \in caught

\* Every session says the truth about when its person last proved themselves with a passkey:
\* refreshing, or the fresh session after a passkey was removed, never makes it newer.
AuthIsProof == \A t \in Tok : sess[t] # Nil => <<sess[t].user, sess[t].auth>> \in proofs

\* Nobody in the book is left without a passkey, two removals racing included.
KeysNeverRunOut == \A p \in Person : Known(book, p) => PasskeysOf(book, p) # {}

\* An invitation registers one passkey, whatever ceremonies were started with its link and
\* whichever of them finish together, and that passkey signs its person in: the handle its
\* authenticator keeps, chosen when the ceremony started, is the one the person has when it ends.
InviteOnce ==
    /\ \A c, d \in Cred : /\ book.passkeys[c] # Nil /\ book.passkeys[d] # Nil
                          /\ book.passkeys[c].via # Nil
                          /\ book.passkeys[c].via = book.passkeys[d].via
                          => c = d
    /\ \A c \in Cred : /\ book.passkeys[c] # Nil
                       /\ book.passkeys[c].via # Nil
                       /\ Known(book, book.passkeys[c].person)
                       => Identifies(c)

\* What routes/passkeys.rs:174-175 says: the house is never left without an admin.
AnAdminRemains == \E p \in Person : Known(book, p) /\ book.people[p].role = "admin"

=============================================================================
