---------------------------- MODULE SignInLimits ----------------------------
(***************************************************************************)
(* The limits on signing in: backend/src/passkey.rs.                       *)
(*                                                                         *)
(* Ceremonies are kept for a while, so many in all and for one address;    *)
(* attempts are counted per address in a fixed window, asked before an     *)
(* attempt and counted after its failure, each under a lock of its own.    *)
(* Several visits run at once.  Time is the age of what is kept, in ticks  *)
(* up to its life.  An address is a host of a home: a home is an IPv4      *)
(* address or an IPv6 /64.                                                 *)
(* Left out: what a ceremony and an attempt verify (Auth), the pruning of  *)
(* a map of ten thousand addresses, the seconds said to wait.              *)
(***************************************************************************)
EXTENDS Naturals, Sequences, FiniteSets, Filter

CONSTANTS
    Visit,              \* requests that may run at once
    Home, Host,
    Ttl, Cap, PerAddress,      \* CEREMONY_TTL (ticks), CEREMONY_CAP, CEREMONIES_PER_ADDRESS
    Attempts, Starts, Window,  \* ATTEMPTS, STARTS, ATTEMPT_WINDOW (ticks)
    Nil

VARIABLES
    kept,       \* Ceremonies: [of, home, age], oldest first
    failed,     \* Limiter of failures, by home: [n, age, theirs]
    started,    \* Limiter of ceremonies started signed out
    visit,      \* what each visit still has to do
    crowded     \* history: a ceremony gave way to one of another home that had PerAddress already

limitVars == <<kept, failed, started, visit, crowded>>

\* An address that was never counted is as good as one whose window is over.
Unseen == [n |-> 0, age |-> Window, theirs |-> FALSE]
Loopback == [home |-> Nil, host |-> 0]
Address == [home : Home, host : Host]
Away == [todo |-> <<>>, checked |-> FALSE, origin |-> Nil, home |-> Nil]

LimitsInit ==
    /\ kept = <<>> /\ crowded = FALSE
    /\ failed = [h \in Home |-> Unseen] /\ started = [h \in Home |-> Unseen]
    /\ visit = [v \in Visit |-> Away]

-----------------------------------------------------------------------------
(* Addresses.                                                              *)

AddressKey(ip) == ip.home

\* client_ip: only what comes through the tunnel says who it is for.
ClientIp(peer, header) == IF peer = Loopback /\ header # Nil THEN header ELSE peer

-----------------------------------------------------------------------------
(* The limiter.                                                            *)

\* Limiter::check.
Allowed(entry, most) == entry.n < most \/ entry.age >= Window

\* Limiter::count.  `theirs` is history: someone else's attempt was counted here.
Counted(entry, theirs) ==
    IF entry.age >= Window THEN [n |-> 1, age |-> 0, theirs |-> theirs]
    ELSE [entry EXCEPT !.n = @ + 1, !.theirs = @ \/ theirs]

-----------------------------------------------------------------------------
(* Visits: todo is what is left of it.  "hit" is start_allowed, "invite"   *)
(* and "finish" run guarded, "put" keeps a ceremony.                       *)

Errands == {<<"invite">>,                              \* greet
            <<"hit", "put", "finish">>,                \* login
            <<"hit", "invite", "put", "finish">>,      \* register, by invitation, signed out
            <<"invite", "put", "finish">>,             \* the same, signed in
            <<"put", "finish">>}                       \* register, signed in

Doing(v, what) == visit[v].todo # <<>> /\ Head(visit[v].todo) \in what
GoesOn(v) == visit' = [visit EXCEPT ![v].todo = Tail(@), ![v].checked = FALSE]
Ends(v) == visit' = [visit EXCEPT ![v] = Away]

Come(v, errand, peer, header) ==
    LET origin == IF peer = Loopback THEN header ELSE peer IN
    /\ visit[v] = Away
    /\ visit' = [visit EXCEPT ![v] = [todo |-> errand, checked |-> FALSE, origin |-> origin.home,
                                      home |-> AddressKey(ClientIp(peer, header))]]
    /\ UNCHANGED <<kept, failed, started, crowded>>

\* The check of start_allowed or of guarded: refused, or on.
Check(v) ==
    LET h == visit[v].home IN
    /\ Doing(v, {"hit", "invite", "finish"}) /\ ~visit[v].checked
    /\ IF Doing(v, {"hit"}) THEN Allowed(started[h], Starts) ELSE Allowed(failed[h], Attempts)
    /\ visit' = [visit EXCEPT ![v].checked = TRUE]
    /\ UNCHANGED <<kept, failed, started, crowded>>

Refused(v) ==
    LET h == visit[v].home IN
    /\ Doing(v, {"hit", "invite", "finish"}) /\ ~visit[v].checked
    /\ ~IF Doing(v, {"hit"}) THEN Allowed(started[h], Starts) ELSE Allowed(failed[h], Attempts)
    /\ Ends(v)
    /\ kept' = [i \in DOMAIN kept |-> IF kept[i].of = v THEN [kept[i] EXCEPT !.of = Nil] ELSE kept[i]]
    /\ UNCHANGED <<failed, started, crowded>>

\* Limiter::hit counts under its own turn of the lock.
Count(v) ==
    LET h == visit[v].home IN
    /\ Doing(v, {"hit"}) /\ visit[v].checked
    /\ started' = [started EXCEPT ![h] = Counted(@, visit[v].origin # h)]
    /\ GoesOn(v)
    /\ UNCHANGED <<kept, failed, crowded>>

\* Where those of an address are.
Of(ceremonies, h) == {i \in DOMAIN ceremonies : ceremonies[i].home = h}

\* Mutant: one more for an address.
FullOne(ceremonies, h) == Cardinality(Of(ceremonies, h)) > PerAddress

\* An address has as many as it may.
Full(ceremonies, h) == Cardinality(Of(ceremonies, h)) >= PerAddress

\* The oldest one of an address gives way.
WithoutOldest(ceremonies, h) ==
    Picked(ceremonies, {i \in DOMAIN ceremonies : i \in Of(ceremonies, h) => \E j \in Of(ceremonies, h) : j < i})

\* Ceremonies::put: the expired go, then the oldest of a full address, then the oldest of all.
Put(v) ==
    LET h == visit[v].home
        fresh == Picked(kept, {i \in DOMAIN kept : kept[i].age < Ttl})
        own == IF Full(fresh, h) THEN WithoutOldest(fresh, h) ELSE fresh
        some == IF Len(own) >= Cap THEN Tail(own) ELSE own
    IN  /\ Doing(v, {"put"})
        /\ kept' = Append(some, [of |-> v, home |-> h, age |-> 0])
        /\ crowded' = (crowded \/ (Len(own) >= Cap /\ Head(own).home # h /\ Cardinality(Of(fresh, h)) >= PerAddress))
        /\ GoesOn(v)
        /\ UNCHANGED <<failed, started>>

\* The ceremonies of others than a visit.
Others(v) == Picked(kept, {i \in DOMAIN kept : kept[i].of # v})

\* The attempt, begun with Ceremonies::take when it ends a ceremony: one that is gone is a failure.
Verify(v, ok) ==
    /\ Doing(v, {"invite", "finish"}) /\ visit[v].checked
    /\ ok => (Doing(v, {"finish"}) => \E i \in DOMAIN kept : kept[i].of = v /\ kept[i].age < Ttl)
    /\ kept' = IF Doing(v, {"finish"}) THEN Others(v) ELSE kept
    /\ IF ok THEN (IF Len(visit[v].todo) = 1 THEN Ends(v) ELSE GoesOn(v))
             ELSE visit' = [visit EXCEPT ![v].todo = <<"fail">>]
    /\ UNCHANGED <<failed, started, crowded>>

\* guarded counts the failure.
Fail(v) ==
    LET h == visit[v].home IN
    /\ Doing(v, {"fail"})
    /\ failed' = [failed EXCEPT ![h] = Counted(@, visit[v].origin # h)]
    /\ Ends(v)
    /\ UNCHANGED <<kept, started, crowded>>

\* The person gives up before the answer, or the request is dropped while it is verified: its
\* ceremony stays until it is old, unless it was taken.
Leave(v) ==
    /\ Doing(v, {"invite", "finish"})
    /\ kept' = IF visit[v].checked /\ Doing(v, {"finish"}) THEN Others(v)
               ELSE [i \in DOMAIN kept |-> IF kept[i].of = v THEN [kept[i] EXCEPT !.of = Nil] ELSE kept[i]]
    /\ Ends(v)
    /\ UNCHANGED <<failed, started, crowded>>

Older(entry) == IF entry.age + 1 >= Window THEN Unseen ELSE [entry EXCEPT !.age = @ + 1]

Passes ==
    /\ kept' = [i \in DOMAIN kept |-> [kept[i] EXCEPT !.age = IF @ = Ttl THEN @ ELSE @ + 1]]
    /\ failed' = [h \in Home |-> Older(failed[h])]
    /\ started' = [h \in Home |-> Older(started[h])]
    /\ UNCHANGED <<visit, crowded>>

\* Someone comes through the tunnel, which says who they are, or directly, saying
\* nothing or that they are someone else.
Claims(ip) == {Nil} \cup {[home |-> h, host |-> ip.host] : h \in Home \ {ip.home}}

LimitsNext ==
    \/ \E v \in Visit : \/ Check(v) \/ Refused(v) \/ Count(v) \/ Put(v) \/ Fail(v) \/ Leave(v)
                        \/ \E ok \in BOOLEAN : Verify(v, ok)
                        \/ \E errand \in Errands, ip \in Address : Come(v, errand, Loopback, ip)
                        \/ \E errand \in Errands, ip \in Address : \E said \in Claims(ip) : Come(v, errand, ip, said)
    \/ Passes

-----------------------------------------------------------------------------
(* Properties.                                                             *)

\* Attempts let through together may all fail, and no more: a window counts at most Attempts - 1
\* and one for each visit at once, though a check and its count are apart (passkey.rs: guarded, hit).
WindowHolds ==
    \A h \in Home :
      /\ failed[h].n < Attempts + Cardinality(Visit)
      /\ started[h].n < Starts + Cardinality(Visit)

\* Nobody is refused, and nobody loses a ceremony under way, for what others did: only one's own
\* home's attempts are counted, whatever a visitor says of itself, and a ceremony gives way to its
\* own home's or, when all are taken, to one of a home with fewer than it may have (passkey.rs: client_ip, put).
LimitsAreOwn ==
    /\ WindowHolds /\ ~crowded
    /\ \A h \in Home : ~failed[h].theirs /\ ~started[h].theirs

=============================================================================
