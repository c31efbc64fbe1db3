---------------------------- MODULE ZigbeeProofs ----------------------------
(***************************************************************************)
(* The house's Zigbee lamps and devices, for any number of each.  A lamp:  *)
(* the record wants what was asked last, and one that counts as restored   *)
(* is as it wants or its failure is on its way, whatever the check and the *)
(* sweep do meanwhile with their copies (LampInv).  The devices: no node   *)
(* id is named by two of them, and one of which no move is under way is    *)
(* listed where it is, as what it is (Listed).                             *)
(***************************************************************************)
EXTENDS MCZigbeeLamps, Filter, FiniteSetTheorems, TLAPS

-----------------------------------------------------------------------------
(* Filtering by position.                                                  *)

UpToHere(K, i) == {j \in K : j <= i}

\* The positions kept have ranks 1 .. Cardinality(K), in order.
LEMMA Ranks ==
  ASSUME NEW K \in SUBSET Nat, IsFiniteSet(K)
  PROVE  /\ Cardinality(K) \in Nat
         /\ \A i \in K : Cardinality(UpToHere(K, i)) \in 1 .. Cardinality(K)
         /\ \A i, j \in K : i < j => Cardinality(UpToHere(K, i)) < Cardinality(UpToHere(K, j))
         /\ \A n \in 1 .. Cardinality(K) : \E i \in K : Cardinality(UpToHere(K, i)) = n
  <1>1. Cardinality(K) \in Nat
        BY FS_CardinalityType
  <1>2. ASSUME NEW i \in K
        PROVE  /\ IsFiniteSet(UpToHere(K, i)) /\ Cardinality(UpToHere(K, i)) \in 1 .. Cardinality(K)
    <2>1. UpToHere(K, i) \in SUBSET K /\ i \in UpToHere(K, i)
          BY DEF UpToHere
    <2>2. IsFiniteSet(UpToHere(K, i)) /\ Cardinality(UpToHere(K, i)) <= Cardinality(K)
          BY <2>1, FS_Subset
    <2>3. Cardinality(UpToHere(K, i)) \in Nat /\ Cardinality(UpToHere(K, i)) # 0
          BY <2>1, <2>2, FS_CardinalityType, FS_EmptySet
    <2> QED BY <1>1, <2>2, <2>3
  <1>3. ASSUME NEW i \in K, NEW j \in K, i < j
        PROVE  Cardinality(UpToHere(K, i)) < Cardinality(UpToHere(K, j))
    <2>1. UpToHere(K, i) \in SUBSET UpToHere(K, j) /\ j \in UpToHere(K, j) /\ j \notin UpToHere(K, i)
      <3>1. i \in Int /\ j \in Int /\ \A k \in K : k \in Int
            OBVIOUS
      <3>2. \A k \in K : k <= i => k <= j
            BY <1>3, <3>1
      <3>3. UpToHere(K, i) \subseteq UpToHere(K, j)
            BY <3>2 DEF UpToHere
      <3>4. j <= j /\ ~(j <= i)
            BY <1>3, <3>1
      <3>5. j \in UpToHere(K, j) /\ j \notin UpToHere(K, i)
            BY <3>4 DEF UpToHere
      <3> QED BY <3>3, <3>5
    <2>2. /\ Cardinality(UpToHere(K, i)) <= Cardinality(UpToHere(K, j))
          /\ Cardinality(UpToHere(K, i)) # Cardinality(UpToHere(K, j))
          BY <1>2, <2>1, FS_Subset
    <2> QED BY <1>1, <1>2, <2>2
  <1>4. \A n \in 1 .. Cardinality(K) : \E i \in K : Cardinality(UpToHere(K, i)) = n
    <2> DEFINE rank == [i \in K |-> Cardinality(UpToHere(K, i))]
    <2>1. rank \in Injection(K, 1 .. Cardinality(K))
      <3>1. \A i, j \in K : i # j => i < j \/ j < i
            OBVIOUS
      <3>2. \A i, j \in K : i # j => rank[i] # rank[j]
            BY <1>1, <1>2, <1>3, <3>1
      <3> QED BY <1>2, <3>2 DEF Injection, IsInjective
    <2>2. IsFiniteSet(1 .. Cardinality(K)) /\ Cardinality(1 .. Cardinality(K)) = Cardinality(K)
          BY <1>1, FS_Interval
    <2>3. rank \in Surjection(K, 1 .. Cardinality(K))
          BY <2>1, <2>2, FS_Injection
    <2> QED BY <2>3 DEF Surjection
  <1> QED BY <1>1, <1>2, <1>3, <1>4

\* A filtered sequence has exactly the elements at the positions kept, in their order.
LEMMA PickedIs ==
  ASSUME NEW s, NEW K \in SUBSET Nat, IsFiniteSet(K)
  PROVE  /\ Cardinality(K) \in Nat
         /\ DOMAIN Picked(s, K) = 1 .. Cardinality(K)
         /\ \A n \in 1 .. Cardinality(K) : Nth(K, n) \in K /\ Picked(s, K)[n] = s[Nth(K, n)]
         /\ \A n, o \in 1 .. Cardinality(K) : n < o => Nth(K, n) < Nth(K, o)
         /\ \A i \in K : \E n \in 1 .. Cardinality(K) : Nth(K, n) = i
         /\ Picked(s, K) = <<>> <=> K = {}
  <1>1. \A n \in 1 .. Cardinality(K) : Nth(K, n) \in K /\ Cardinality(UpToHere(K, Nth(K, n))) = n
        BY Ranks DEF Nth, UpToHere
  <1>2. Cardinality(K) \in Nat /\ \A n \in 1 .. Cardinality(K) : Nth(K, n) \in Nat
        BY <1>1, Ranks
  <1>3. ASSUME NEW n \in 1 .. Cardinality(K), NEW o \in 1 .. Cardinality(K), n < o PROVE Nth(K, n) < Nth(K, o)
    <2>1. ~(Nth(K, o) < Nth(K, n))
          BY <1>1, <1>2, <1>3, Ranks
    <2>2. Nth(K, o) # Nth(K, n)
          BY <1>1, <1>3
    <2> QED BY <1>2, <2>1, <2>2
  <1>4. ASSUME NEW i \in K PROVE \E n \in 1 .. Cardinality(K) : Nth(K, n) = i
    <2> DEFINE n == Cardinality(UpToHere(K, i))
    <2>1. n \in 1 .. Cardinality(K)
          BY Ranks
    <2>2. Nth(K, n) \in K /\ Cardinality(UpToHere(K, Nth(K, n))) = n
          BY <1>1, <2>1
    <2>3. Nth(K, n) = i
      <3> HIDE DEF n
      <3>1. ~(Nth(K, n) < i) /\ ~(i < Nth(K, n))
            BY <2>1, <2>2, Ranks, <1>2 DEF n
      <3> QED BY <2>1, <1>2, <3>1
    <2> QED BY <2>1, <2>3
  <1>5. DOMAIN Picked(s, K) = 1 .. Cardinality(K) /\ \A n \in 1 .. Cardinality(K) : Picked(s, K)[n] = s[Nth(K, n)]
        BY DEF Picked
  <1>6. Picked(s, K) = <<>> <=> K = {}
    <2>1. K = {} <=> Cardinality(K) = 0
          BY FS_EmptySet
    <2>2. Picked(s, K) = <<>> => Cardinality(K) = 0
          BY <1>2, <1>5
    <2>3. Cardinality(K) = 0 => Picked(s, K) = <<>>
          BY DEF Picked
    <2> QED BY <2>1, <2>2, <2>3
  <1> QED BY <1>1, <1>2, <1>3, <1>4, <1>5, <1>6

\* Filtering a sequence leaves one of the same kind, and of distinct elements when they were.
LEMMA PickedSeq ==
  ASSUME NEW S, NEW s \in Seq(S), NEW K \in SUBSET (1 .. Len(s))
  PROVE  /\ IsFiniteSet(K) /\ Picked(s, K) \in Seq(S) /\ Len(Picked(s, K)) = Cardinality(K)
         /\ Picked(s, K) = <<>> <=> K = {}
         /\ \A n \in 1 .. Cardinality(K) : Nth(K, n) \in K /\ Picked(s, K)[n] = s[Nth(K, n)]
         /\ \A n, o \in 1 .. Cardinality(K) : n # o => Nth(K, n) # Nth(K, o)
         /\ \A i \in K : \E n \in 1 .. Cardinality(K) : Nth(K, n) = i
  <1>1. Len(s) \in Nat /\ DOMAIN s = 1 .. Len(s) /\ \A i \in 1 .. Len(s) : s[i] \in S
        OBVIOUS
  <1>2. IsFiniteSet(K) /\ K \in SUBSET Nat
    <2>1. IsFiniteSet(1 .. Len(s))
          BY <1>1, FS_Interval
    <2>2. IsFiniteSet(K)
          BY <2>1, FS_Subset
    <2>3. \A i \in K : i \in Nat
          BY <1>1
    <2> QED BY <2>2, <2>3
  <1>3. /\ Cardinality(K) \in Nat /\ DOMAIN Picked(s, K) = 1 .. Cardinality(K)
        /\ \A n \in 1 .. Cardinality(K) : Nth(K, n) \in K /\ Picked(s, K)[n] = s[Nth(K, n)]
        /\ \A n, o \in 1 .. Cardinality(K) : n < o => Nth(K, n) < Nth(K, o)
        /\ \A i \in K : \E n \in 1 .. Cardinality(K) : Nth(K, n) = i
        /\ Picked(s, K) = <<>> <=> K = {}
        BY <1>2, PickedIs
  <1>4. Picked(s, K) \in [1 .. Cardinality(K) -> S]
        BY <1>1, <1>3 DEF Picked
  <1>5. Picked(s, K) \in Seq(S) /\ Len(Picked(s, K)) = Cardinality(K)
        BY <1>3, <1>4
  <1>6. \A n, o \in 1 .. Cardinality(K) : n # o => Nth(K, n) # Nth(K, o)
    <2>1. \A n, o \in 1 .. Cardinality(K) : n # o => n < o \/ o < n
          BY <1>3
    <2>2. \A i \in Nat : ~(i < i)
          OBVIOUS
    <2> QED BY <1>2, <1>3, <2>1, <2>2
  <1> QED BY <1>2, <1>3, <1>5, <1>6

-----------------------------------------------------------------------------
(* The lamps: what is recorded of each, and the sweep's copies.            *)

LampRec == [reach : BOOLEAN, on : BOOLEAN, level : Nat, want : Nat \cup {Nil}, tone : SUBSET {"temp", "color"},
            applied : BOOLEAN, ep : BOOLEAN, tries : Nat]
LampWorld == [power : BOOLEAN, on : BOOLEAN, level : Nat, tone : {"temp", "color", Nil}]
LampAsked == [level : Nat \cup {Nil}, tone : {"temp", "color", Nil}]
LampMessage(n) == [k : {"state", "failed", "announce", "descriptor"}, l : 1 .. n, on : BOOLEAN, level : Nat]
LampTarget(n) == [l : 1 .. n, was : BOOLEAN]
LampCopy(n) == [l : 1 .. n, on : BOOLEAN, want : Nat \cup {Nil}, tone : SUBSET {"temp", "color"}]
LampCheck(n) == [at : {"idle", "wait", "cool"}, queue : Seq(LampTarget(n)), attempt : Nat, heard : BOOLEAN]

LampTypes(n) ==
    /\ rec \in [1 .. n -> LampRec]
    /\ world \in [1 .. n -> LampWorld]
    /\ asked \in [1 .. n -> LampAsked]
    /\ air \subseteq LampMessage(n)
    /\ noticed \subseteq 1 .. n

\* A ping waited for is the head of the queue's.
CheckFits(n) ==
    /\ silent \subseteq 1 .. n
    /\ avail \in LampCheck(n)
    /\ avail.at = "wait" => avail.queue # <<>>

\* The records want what was asked last.
WantsAsked(n) ==
    \A l \in 1 .. n : /\ rec[l].want = asked[l].level
                      /\ rec[l].tone = IF asked[l].tone = Nil THEN {} ELSE {asked[l].tone}

\* A sweep has each lamp once, still to be restored, with the tone it wants; its brightness may
\* be stale.
SweepFits(n) ==
    /\ sweep \in Seq(LampCopy(n)) /\ loop \in {"free", "sweep", "drain"}
    /\ loop = "free" => sweep = <<>>
    /\ loop = "sweep" => sweep # <<>>
    /\ \A i \in 1 .. Len(sweep) : ~rec[sweep[i].l].applied /\ sweep[i].tone = rec[sweep[i].l].tone
    /\ \A i, j \in 1 .. Len(sweep) : i # j => sweep[i].l # sweep[j].l

FailedFor(l) == [k |-> "failed", l |-> l, on |-> FALSE, level |-> 0]
Given(l) == /\ asked[l].level \notin {Nil, 0} => world[l].level = asked[l].level
            /\ asked[l].tone # Nil => world[l].tone = asked[l].tone

\* A restore that counts as done is one in reach, whose failure is still to come unless the lamp
\* is on and as asked.
Fulfilled(l) == rec[l].applied => rec[l].reach /\ (FailedFor(l) \in air \/ (world[l].power /\ Given(l)))

LampInv(n) ==
    /\ LampTypes(n) /\ WantsAsked(n) /\ CheckFits(n) /\ SweepFits(n)
    /\ \A l \in noticed \ (excused \cup stale) : Fulfilled(l)

\* Before the first command, and after a power cut, any number of lamps.
LEMMA LampsStart ==
  ASSUME NEW n \in Nat, NEW c, NEW f, House(n, c, f)!Init \/ House(n, c, f)!CutInit
  PROVE  LampInv(n)
  <1> USE ZigbeeAssumption DEF House!Lamp
  <1> DEFINE known == [reach |-> FALSE, on |-> FALSE, level |-> 0, want |-> Nil, tone |-> {}, applied |-> TRUE, ep |-> TRUE, tries |-> 0]
             factory == [power |-> TRUE, on |-> TRUE, level |-> Top, tone |-> Nil]
  <1>1. /\ known \in LampRec /\ [known EXCEPT !.level = 1, !.want = 1, !.on = TRUE, !.applied = FALSE] \in LampRec
        /\ factory \in LampWorld /\ [factory EXCEPT !.power = FALSE] \in LampWorld
        BY DEF LampRec, LampWorld
  <1>2. House(n, c, f)!Known = known /\ House(n, c, f)!Factory = factory
        BY DEF House!Known, House!Factory
  <1>3. CASE House(n, c, f)!Init
    <2>0. world \in [1 .. n -> {factory, [factory EXCEPT !.power = FALSE]}]
          BY <1>2, <1>3 DEF House!Init
    <2>4. world \in [1 .. n -> LampWorld]
      <3> HIDE DEF factory
      <3> QED BY <1>1, <2>0
    <2>1. /\ rec = [l \in 1 .. n |-> known] /\ world \in [1 .. n -> LampWorld]
          /\ asked = [l \in 1 .. n |-> [level |-> Nil, tone |-> Nil]]
          BY <2>4, <1>2, <1>3 DEF House!Init
    <2>2. air = {} /\ silent = 1 .. n /\ loop = "free" /\ sweep = <<>> /\ noticed = {}
          /\ avail = [at |-> "idle", queue |-> <<>>, attempt |-> 0, heard |-> FALSE]
          BY <1>3 DEF House!Init
    <2> HIDE DEF known
    <2>3. LampTypes(n)
          BY <1>1, <2>1, <2>2 DEF LampTypes, LampAsked
    <2> QED BY <2>1, <2>2, <2>3 DEF LampInv, WantsAsked, CheckFits, SweepFits, LampCheck, known
  <1>4. CASE House(n, c, f)!CutInit
    <2> DEFINE dimmed == [known EXCEPT !.level = 1, !.want = 1, !.on = TRUE, !.applied = FALSE]
    <2>1. /\ rec = [l \in 1 .. n |-> dimmed] /\ world \in [1 .. n -> LampWorld]
          /\ asked = [l \in 1 .. n |-> [level |-> 1, tone |-> Nil]]
          BY <1>1, <1>2, <1>4 DEF House!CutInit
    <2>2. air = {} /\ silent = 1 .. n /\ loop = "free" /\ sweep = <<>> /\ noticed = 1 .. n
          /\ avail = [at |-> "idle", queue |-> <<>>, attempt |-> 0, heard |-> FALSE]
          BY <1>4 DEF House!CutInit
    <2>3. dimmed.want = 1 /\ dimmed.tone = {} /\ ~dimmed.applied
          OBVIOUS
    <2> HIDE DEF dimmed
    <2>4. LampTypes(n)
          BY <1>1, <2>1, <2>2 DEF LampTypes, LampAsked, dimmed
    <2> QED BY <2>1, <2>2, <2>3, <2>4 DEF LampInv, WantsAsked, CheckFits, SweepFits, LampCheck, Fulfilled
  <1> QED BY <1>3, <1>4

\* What a command makes of a lamp's record r, of what is asked of it a, and of the lamp itself w.
CommandFits(l, r, a, w) ==
    /\ r \in LampRec /\ a \in LampAsked /\ w \in LampWorld
    /\ r.reach = rec[l].reach /\ r.applied = rec[l].applied
    /\ r.want = a.level /\ r.tone = IF a.tone = Nil THEN {} ELSE {a.tone}
    /\ w.power = world[l].power
    /\ Given(l) => /\ a.level \notin {Nil, 0} => w.level = a.level
                   /\ a.tone # Nil => w.tone = a.tone

\* A command of one lamp: the record changes with what is asked, and the lamp does it or its
\* failure is on its way.
LEMMA CommandKeeps ==
  ASSUME NEW n \in Nat, NEW c, NEW f, NEW l \in 1 .. n, NEW able, NEW made, NEW recorded, NEW wish,
         LampInv(n), House(n, c, f)!Command(l, able, made, recorded, wish),
         CommandFits(l, House(n, c, f)!With(rec[l], recorded), House(n, c, f)!With(asked[l], wish),
                     House(n, c, f)!With(world[l], made))
  PROVE  LampInv(n)'
  <1> DEFINE r == House(n, c, f)!With(rec[l], recorded)
             a == House(n, c, f)!With(asked[l], wish)
             w == House(n, c, f)!With(world[l], made)
  <1>0. /\ r \in LampRec /\ a \in LampAsked /\ w \in LampWorld
        /\ r.reach = rec[l].reach /\ r.applied = rec[l].applied
        /\ r.want = a.level /\ r.tone = IF a.tone = Nil THEN {} ELSE {a.tone}
        /\ w.power = world[l].power
        /\ Given(l) => /\ a.level \notin {Nil, 0} => w.level = a.level
                       /\ a.tone # Nil => w.tone = a.tone
        BY DEF CommandFits
  <1> USE DEF LampInv
  <1>1. /\ rec' = [rec EXCEPT ![l] = r] /\ asked' = [asked EXCEPT ![l] = a]
        /\ UNCHANGED <<avail, silent, loop, sweep, noticed, excused, stale>> /\ loop = "free"
        BY DEF House!Command, House!Is, House!checking, House!task
  <1>2. PICK missed \in SUBSET {l} :
          /\ air' = air \cup House(n, c, f)!Unheard({l}, missed)
          /\ world' = IF l \in House(n, c, f)!Hear({l}, missed) THEN [world EXCEPT ![l] = w] ELSE world
        BY DEF House!Command
  <1> HIDE DEF r, a, w
  <1>3. /\ air \subseteq air' /\ air' \subseteq air \cup {FailedFor(l)}
        /\ \/ FailedFor(l) \in air' /\ world' = world
           \/ world[l].power /\ world' = [world EXCEPT ![l] = w]
        BY <1>2 DEF House!Unheard, House!Hear, House!Plain, FailedFor
  <1>4. rec \in [1 .. n -> LampRec] /\ asked \in [1 .. n -> LampAsked] /\ world \in [1 .. n -> LampWorld]
        BY DEF LampTypes
  <1>5. FailedFor(l) \in LampMessage(n)
        BY DEF FailedFor, LampMessage
  <1>6. LampTypes(n)'
        BY <1>0, <1>1, <1>3, <1>4, <1>5 DEF LampTypes
  <1>7. WantsAsked(n)'
        BY <1>0, <1>1, <1>4 DEF WantsAsked
  <1>8. SweepFits(n)' /\ CheckFits(n)'
    <2>1. sweep' = sweep /\ loop' = loop /\ avail' = avail /\ silent' = silent
          BY <1>1
    <2>2. sweep = <<>>
          BY <1>1 DEF SweepFits
    <2> QED BY <2>1, <2>2 DEF SweepFits, CheckFits
  <1>9. ASSUME NEW k \in noticed \ (excused \cup stale) PROVE Fulfilled(k)'
    <2>1. k \in 1 .. n /\ Fulfilled(k) /\ (FailedFor(k) \in air => FailedFor(k)' \in air') /\ FailedFor(k)' = FailedFor(k)
          BY <1>3 DEF LampTypes, FailedFor
    <2>2. CASE k # l
          BY <2>1, <2>2, <1>1, <1>3, <1>4 DEF Fulfilled, Given
    <2>3. CASE k = l
      <3>1. rec'[l] = r /\ asked'[l] = a
            BY <1>1, <1>4
      <3>2. CASE FailedFor(l) \in air' /\ world' = world
            BY <2>1, <2>3, <3>1, <3>2, <1>0 DEF Fulfilled
      <3>3. CASE world[l].power /\ world' = [world EXCEPT ![l] = w]
            BY <2>1, <2>3, <3>1, <3>3, <1>4, <1>0 DEF Fulfilled, Given
      <3> QED BY <3>2, <3>3, <1>3
    <2> QED BY <2>2, <2>3
  <1> QED BY <1>1, <1>6, <1>7, <1>8, <1>9

\* The commands, of power, brightness, temperature and colour.
LEMMA CommandsKeep ==
  ASSUME NEW n \in Nat, NEW c, NEW f, NEW l \in 1 .. n, LampInv(n),
         \/ \E on \in BOOLEAN : House(n, c, f)!SetPower(l, on)
         \/ \E v \in 0 .. Top : House(n, c, f)!SetBrightness(l, v)
         \/ \E tone \in {"temp", "color"} : House(n, c, f)!SetTone(l, tone)
  PROVE  LampInv(n)'
  <1> USE ZigbeeAssumption
  <1>0. /\ rec[l] \in LampRec /\ asked[l] \in LampAsked /\ world[l] \in LampWorld
        /\ rec[l].want = asked[l].level /\ rec[l].tone = IF asked[l].tone = Nil THEN {} ELSE {asked[l].tone}
        BY DEF LampInv, LampTypes, WantsAsked
  <1>1. ASSUME NEW on \in BOOLEAN, House(n, c, f)!SetPower(l, on) PROVE LampInv(n)'
    <2> DEFINE r == [rec[l] EXCEPT !.on = on]
               w == [world[l] EXCEPT !.on = on]
    <2>1. /\ r = House(n, c, f)!With(rec[l], [on |-> on]) /\ asked[l] = House(n, c, f)!With(asked[l], <<>>)
          /\ w = House(n, c, f)!With(world[l], [on |-> on])
          BY <1>0 DEF House!With, LampRec, LampAsked, LampWorld
    <2>2. /\ r \in LampRec /\ w \in LampWorld /\ r.reach = rec[l].reach /\ r.applied = rec[l].applied
          /\ r.want = rec[l].want /\ r.tone = rec[l].tone
          /\ w.power = world[l].power /\ w.level = world[l].level /\ w.tone = world[l].tone
          BY <1>0 DEF LampRec, LampWorld
    <2>3. House(n, c, f)!Command(l, TRUE, [on |-> on], [on |-> on], <<>>)
          BY <1>1 DEF House!SetPower
    <2> HIDE DEF r, w
    <2>4. CommandFits(l, r, asked[l], w)
          BY <1>0, <2>2 DEF CommandFits, Given
    <2> QED BY <2>1, <2>3, <2>4, CommandKeeps
  <1>2. ASSUME NEW v \in 0 .. Top, House(n, c, f)!SetBrightness(l, v) PROVE LampInv(n)'
    <2> DEFINE at == IF v = 0 THEN 1 ELSE v
               lit == v > 0
               r == House(n, c, f)!With(rec[l], [level |-> v, on |-> lit, want |-> v])
               w == House(n, c, f)!With(world[l], [level |-> at, on |-> TRUE])
               a == House(n, c, f)!With(asked[l], [level |-> v])
    <2>1. v \in Nat /\ at \in Nat /\ lit \in BOOLEAN /\ (v # 0 => at = v)
          OBVIOUS
    <2>2. House(n, c, f)!Command(l, TRUE, [level |-> at, on |-> TRUE], [level |-> v, on |-> lit, want |-> v], [level |-> v])
          BY <1>2 DEF House!SetBrightness
    <2> HIDE DEF at, lit
    <2>3. /\ r \in LampRec /\ r.reach = rec[l].reach /\ r.applied = rec[l].applied
          /\ r.want = v /\ r.tone = rec[l].tone
          BY <1>0, <2>1 DEF House!With, LampRec
    <2>4. w \in LampWorld /\ w.power = world[l].power /\ w.level = at /\ w.tone = world[l].tone
          BY <1>0, <2>1 DEF House!With, LampWorld
    <2>5. a \in LampAsked /\ a.level = v /\ a.tone = asked[l].tone
          BY <1>0, <2>1 DEF House!With, LampAsked
    <2> HIDE DEF r, w, a
    <2>6. CommandFits(l, r, a, w)
          BY <1>0, <2>1, <2>3, <2>4, <2>5 DEF CommandFits, Given
    <2> QED BY <2>2, <2>6, CommandKeeps DEF r, w, a
  <1>3. ASSUME NEW tone \in {"temp", "color"}, House(n, c, f)!SetTone(l, tone) PROVE LampInv(n)'
    <2> DEFINE r == [rec[l] EXCEPT !.tone = {tone}]
               w == [world[l] EXCEPT !.tone = tone]
               a == [asked[l] EXCEPT !.tone = tone]
    <2>1. /\ r = House(n, c, f)!With(rec[l], [tone |-> {tone}])
          /\ a = House(n, c, f)!With(asked[l], [tone |-> tone])
          /\ w = House(n, c, f)!With(world[l], [tone |-> tone])
          BY <1>0 DEF House!With, LampRec, LampAsked, LampWorld
    <2>2. /\ r \in LampRec /\ w \in LampWorld /\ a \in LampAsked /\ r.reach = rec[l].reach /\ r.applied = rec[l].applied
          /\ r.want = rec[l].want /\ r.tone = {tone} /\ a.level = asked[l].level /\ a.tone = tone
          /\ w.power = world[l].power /\ w.level = world[l].level /\ w.tone = tone
          BY <1>0 DEF LampRec, LampWorld, LampAsked
    <2>3. House(n, c, f)!Command(l, l \in Colour, [tone |-> tone], [tone |-> {tone}], [tone |-> tone])
          BY <1>3 DEF House!SetTone
    <2> HIDE DEF r, w, a
    <2>4. CommandFits(l, r, a, w)
          BY <1>0, <2>2 DEF CommandFits, Given
    <2> QED BY <2>1, <2>3, <2>4, CommandKeeps
  <1> QED BY <1>1, <1>2, <1>3

-----------------------------------------------------------------------------
(* The lamps: callbacks.                                                   *)

\* A record of which only what was heard changes: in reach it stays, and what is wanted of it.
HeardFits(l, r) ==
    /\ r \in LampRec /\ r.applied = rec[l].applied /\ r.want = rec[l].want /\ r.tone = rec[l].tone
    /\ rec[l].reach => r.reach

\* Such a change keeps what the lamps were given, and the sweep.
LEMMA HeardKeeps ==
  ASSUME NEW n \in Nat, NEW l \in 1 .. n, LampInv(n), NEW r, HeardFits(l, r), rec' = [rec EXCEPT ![l] = r],
         UNCHANGED <<world, asked, noticed, excused, stale, loop, sweep>>,
         air' \subseteq LampMessage(n), \A k \in 1 .. n : FailedFor(k) \in air => FailedFor(k) \in air',
         CheckFits(n)'
  PROVE  LampInv(n)'
  <1>1. /\ rec \in [1 .. n -> LampRec] /\ r \in LampRec /\ r.applied = rec[l].applied /\ r.want = rec[l].want
        /\ r.tone = rec[l].tone /\ (rec[l].reach => r.reach)
        BY DEF LampInv, LampTypes, HeardFits
  <1>2. LampTypes(n)'
        BY <1>1 DEF LampInv, LampTypes
  <1>3. WantsAsked(n)'
        BY <1>1 DEF LampInv, WantsAsked
  <1>4. SweepFits(n)'
    <2>1. sweep' = sweep /\ loop' = loop /\ sweep \in Seq(LampCopy(n))
          BY DEF LampInv, SweepFits
    <2>2. \A i \in 1 .. Len(sweep) : sweep[i].l \in 1 .. n
      <3>1. \A i \in 1 .. Len(sweep) : sweep[i] \in LampCopy(n)
            BY <2>1
      <3> QED BY <3>1 DEF LampCopy
    <2>3. \A k \in 1 .. n : rec'[k].applied = rec[k].applied /\ rec'[k].tone = rec[k].tone
          BY <1>1
    <2> QED BY <2>1, <2>2, <2>3 DEF LampInv, SweepFits
  <1>5. ASSUME NEW k \in noticed \ (excused \cup stale) PROVE Fulfilled(k)'
    <2>1. k \in 1 .. n /\ Fulfilled(k) /\ (FailedFor(k) \in air => FailedFor(k)' \in air') /\ FailedFor(k)' = FailedFor(k)
          BY DEF LampInv, LampTypes, FailedFor
    <2>2. rec'[k].applied = rec[k].applied /\ (rec[k].reach => rec'[k].reach)
          BY <1>1, <2>1
    <2> QED BY <2>1, <2>2 DEF Fulfilled, Given
  <1> QED BY <1>2, <1>3, <1>4, <1>5 DEF LampInv

\* A question is answered, or its failure is on its way; other failures stay on theirs.
LEMMA AsksKeeps ==
  ASSUME NEW n \in Nat, NEW c, NEW f, NEW l \in 1 .. n, NEW question, NEW answer \in LampMessage(n),
         air \subseteq LampMessage(n), House(n, c, f)!Asks(l, question, answer),
         \A k \in 1 .. n : FailedFor(k) \notin question
  PROVE  air' \subseteq LampMessage(n) /\ \A k \in 1 .. n : FailedFor(k) \in air => FailedFor(k) \in air'
  <1>1. air' = (air \ question) \cup {FailedFor(l)} \/ air' = (air \ question) \cup {answer}
        BY DEF House!Asks, House!Plain, FailedFor
  <1>2. FailedFor(l) \in LampMessage(n)
        BY DEF FailedFor, LampMessage
  <1> QED BY <1>1, <1>2

\* Hearing a lamp changes nothing else of the check.
LEMMA HearsKeeps ==
  ASSUME NEW n \in Nat, NEW c, NEW f, NEW l \in 1 .. n, CheckFits(n), House(n, c, f)!Hears(l)
  PROVE  CheckFits(n)'
  <1>1. avail \in LampCheck(n) /\ silent \subseteq 1 .. n /\ silent' = silent \ {l}
        BY DEF CheckFits, House!Hears
  <1>2. PICK heard \in BOOLEAN : avail' = [avail EXCEPT !.heard = heard]
    <2>1. avail.heard \in BOOLEAN
          BY <1>1 DEF LampCheck
    <2> QED BY <2>1, Zenon DEF House!Hears
  <1> QED BY <1>1, <1>2 DEF CheckFits, LampCheck

\* A lamp's answer, announce or descriptor, and an interview tried again.
LEMMA CallbacksKeep ==
  ASSUME NEW n \in Nat, NEW c, NEW f, LampInv(n), NEW m \in air, UNCHANGED <<loop, sweep>>,
         House(n, c, f)!OnFrame(m) \/ House(n, c, f)!OnAnnounce(m) \/ House(n, c, f)!OnDescriptor(m)
  PROVE  LampInv(n)'
  <1> DEFINE l == m.l
  <1>0. /\ m \in LampMessage(n) /\ l \in 1 .. n /\ m.on \in BOOLEAN /\ m.level \in Nat
        /\ air \subseteq LampMessage(n) /\ CheckFits(n) /\ world[l] \in LampWorld /\ rec[l] \in LampRec
        BY DEF LampInv, LampTypes, LampMessage
  <1>9. m.k # "failed" => \A k \in 1 .. n : FailedFor(k) \notin {m}
        BY DEF FailedFor
  <1>1. CASE House(n, c, f)!OnFrame(m)
    <2> DEFINE r == House(n, c, f)!With(rec[l], [reach |-> TRUE, on |-> m.on, level |-> m.level])
    <2>1. HeardFits(l, r)
          BY <1>0 DEF House!With, LampRec, HeardFits
    <2>2. /\ rec' = [rec EXCEPT ![l] = r] /\ air' = air \ {m} /\ m.k # "failed"
          /\ UNCHANGED <<world, asked, noticed, excused, stale>> /\ House(n, c, f)!Hears(l)
          BY <1>1 DEF House!OnFrame, House!Is, House!history
    <2> HIDE DEF r, l
    <2>3. CheckFits(n)'
          BY <1>0, <2>2, HearsKeeps
    <2>4. air' \subseteq LampMessage(n) /\ \A k \in 1 .. n : FailedFor(k) \in air => FailedFor(k) \in air'
          BY <1>0, <1>9, <2>2
    <2> QED BY <1>0, <2>1, <2>2, <2>3, <2>4, HeardKeeps
  <1>2. CASE House(n, c, f)!OnAnnounce(m)
    <2> DEFINE on == rec[l].on \/ ~rec[l].reach
               level == IF rec[l].reach \/ rec[l].level > 0 THEN rec[l].level ELSE Top
               r == House(n, c, f)!With(rec[l], [reach |-> TRUE, ep |-> FALSE, tries |-> 0, on |-> on, level |-> level])
    <2>0. on \in BOOLEAN /\ level \in Nat
          BY <1>0, ZigbeeAssumption DEF LampRec
    <2>2. /\ rec' = [rec EXCEPT ![l] = r] /\ m.k # "failed"
          /\ UNCHANGED <<world, asked, noticed, excused, stale>> /\ House(n, c, f)!Hears(l)
          /\ House(n, c, f)!Asks(l, {m}, House(n, c, f)!Plain("descriptor", l))
          BY <1>2 DEF House!OnAnnounce, House!Is, House!history
    <2> HIDE DEF on, level
    <2>1. HeardFits(l, r)
          BY <1>0, <2>0 DEF House!With, LampRec, HeardFits
    <2> HIDE DEF r, l
    <2>3. CheckFits(n)'
          BY <1>0, <2>2, HearsKeeps
    <2>4. House(n, c, f)!Plain("descriptor", l) \in LampMessage(n)
          BY <1>0 DEF House!Plain, LampMessage
    <2>5. air' \subseteq LampMessage(n) /\ \A k \in 1 .. n : FailedFor(k) \in air => FailedFor(k) \in air'
          BY <1>0, <1>9, <2>2, <2>4, AsksKeeps
    <2> QED BY <1>0, <2>1, <2>2, <2>3, <2>5, HeardKeeps
  <1>3. CASE House(n, c, f)!OnDescriptor(m)
    <2> DEFINE r == House(n, c, f)!With(rec[l], [reach |-> TRUE, ep |-> TRUE, tries |-> 0])
    <2>1. HeardFits(l, r)
          BY <1>0 DEF House!With, LampRec, HeardFits
    <2>2. /\ rec' = [rec EXCEPT ![l] = r] /\ m.k # "failed"
          /\ UNCHANGED <<world, asked, noticed, excused, stale>> /\ House(n, c, f)!Hears(l)
          /\ House(n, c, f)!Asks(l, {m}, House(n, c, f)!Answer(l))
          BY <1>3 DEF House!OnDescriptor, House!Is, House!history
    <2> HIDE DEF r, l
    <2>3. CheckFits(n)'
          BY <1>0, <2>2, HearsKeeps
    <2>4. House(n, c, f)!Answer(l) \in LampMessage(n)
          BY <1>0 DEF House!Answer, LampMessage, LampWorld
    <2>5. air' \subseteq LampMessage(n) /\ \A k \in 1 .. n : FailedFor(k) \in air => FailedFor(k) \in air'
          BY <1>0, <1>9, <2>2, <2>4, AsksKeeps
    <2> QED BY <1>0, <2>1, <2>2, <2>3, <2>5, HeardKeeps
  <1> QED BY <1>1, <1>2, <1>3

\* An interview is tried again.
LEMMA RetryKeeps ==
  ASSUME NEW n \in Nat, NEW c, NEW f, NEW l \in 1 .. n, LampInv(n), House(n, c, f)!RetryInterview(l)
  PROVE  LampInv(n)'
  <1> DEFINE r == [rec[l] EXCEPT !.tries = @ + 1]
  <1>0. air \subseteq LampMessage(n) /\ CheckFits(n) /\ rec[l] \in LampRec /\ rec \in [1 .. n -> LampRec]
        BY DEF LampInv, LampTypes
  <1>1. HeardFits(l, r)
        BY <1>0 DEF LampRec, HeardFits
  <1>2. /\ rec' = [rec EXCEPT ![l] = r] /\ UNCHANGED <<world, asked, noticed, excused, stale, loop, sweep, avail, silent>>
        /\ House(n, c, f)!Asks(l, {}, House(n, c, f)!Plain("descriptor", l))
        BY <1>0 DEF House!RetryInterview, House!history, House!task, House!checking
  <1> HIDE DEF r
  <1>3. House(n, c, f)!Plain("descriptor", l) \in LampMessage(n)
        BY DEF House!Plain, LampMessage
  <1>4. air' \subseteq LampMessage(n) /\ \A k \in 1 .. n : FailedFor(k) \in air => FailedFor(k) \in air'
        BY <1>0, <1>2, <1>3, AsksKeeps
  <1>5. CheckFits(n)'
        BY <1>0, <1>2 DEF CheckFits
  <1> QED BY <1>1, <1>2, <1>4, <1>5, HeardKeeps

-----------------------------------------------------------------------------
(* The lamps: those lost, and those given their light back.                *)

\* A lamp that is lost has its restore undone; one that was out of reach was not restored.
LEMMA LostKeeps ==
  ASSUME NEW n \in Nat, NEW c, NEW f, NEW l \in 1 .. n, LampInv(n),
         rec' = [rec EXCEPT ![l] = House(n, c, f)!Lost(@)], House(n, c, f)!Notices(l), world' = world,
         air' \subseteq LampMessage(n),
         \A k \in 1 .. n : k # l /\ FailedFor(k) \in air => FailedFor(k) \in air',
         CheckFits(n)', (sweep' = sweep /\ loop' = loop) \/ SweepFits(n)'
  PROVE  LampInv(n)'
  <1> DEFINE r == House(n, c, f)!Lost(rec[l])
  <1>1. /\ rec \in [1 .. n -> LampRec] /\ r \in LampRec /\ r.want = rec[l].want /\ r.tone = rec[l].tone
        /\ (rec[l].reach => ~r.applied) /\ (~rec[l].reach => r = rec[l])
        BY DEF LampInv, LampTypes, House!Lost, LampRec
  <1>2. rec' = [rec EXCEPT ![l] = r]
        BY <1>1
  <1> HIDE DEF r
  <1>3. /\ asked' = asked
        /\ rec[l].reach => excused' = excused \ {l} /\ stale' = stale \ {l} /\ noticed' \in {noticed, noticed \cup {l}}
        /\ ~rec[l].reach => excused' = excused /\ stale' = stale /\ noticed' = noticed
        BY DEF House!Notices
  <1>4. LampTypes(n)'
        BY <1>1, <1>2, <1>3 DEF LampInv, LampTypes
  <1>5. WantsAsked(n)'
        BY <1>1, <1>2, <1>3 DEF LampInv, WantsAsked
  <1>6. SweepFits(n)'
    <2>1. SUFFICES ASSUME sweep' = sweep, loop' = loop PROVE SweepFits(n)'
          OBVIOUS
    <2>2. sweep \in Seq(LampCopy(n))
          BY DEF LampInv, SweepFits
    <2>3. \A i \in 1 .. Len(sweep) : sweep[i].l \in 1 .. n
      <3>1. \A i \in 1 .. Len(sweep) : sweep[i] \in LampCopy(n)
            BY <2>2
      <3> QED BY <3>1 DEF LampCopy
    <2>4. \A k \in 1 .. n : rec'[k].tone = rec[k].tone /\ (~rec[k].applied => ~rec'[k].applied)
          BY <1>1, <1>2 DEF LampRec
    <2> QED BY <2>1, <2>2, <2>3, <2>4 DEF LampInv, SweepFits
  <1>7. ASSUME NEW k \in noticed' \ (excused' \cup stale') PROVE Fulfilled(k)'
    <2>1. FailedFor(k)' = FailedFor(k)
          BY DEF FailedFor
    <2>2. CASE k = l /\ rec[l].reach
          BY <2>2, <1>1, <1>2 DEF Fulfilled
    <2>3. CASE k # l \/ ~rec[l].reach
      <3>1. k \in noticed \ (excused \cup stale) /\ k \in 1 .. n /\ Fulfilled(k) /\ rec'[k] = rec[k]
            BY <2>3, <1>1, <1>2, <1>3 DEF LampInv, LampTypes
      <3>2. k = l => ~rec[l].applied
            BY <2>3, <3>1 DEF Fulfilled
      <3> QED BY <2>1, <3>1, <3>2, <1>3 DEF Fulfilled, Given
    <2> QED BY <2>2, <2>3
  <1> QED BY <1>4, <1>5, <1>6, <1>7 DEF LampInv

\* A delivery failed.
LEMMA FailedKeeps ==
  ASSUME NEW n \in Nat, NEW c, NEW f, LampInv(n), NEW m \in air, UNCHANGED <<loop, sweep>>, House(n, c, f)!OnFailed(m)
  PROVE  LampInv(n)'
  <1>1. m \in LampMessage(n) /\ m.l \in 1 .. n /\ air \subseteq LampMessage(n) /\ CheckFits(n)
        BY DEF LampInv, LampTypes, LampMessage
  <1>2. /\ rec' = [rec EXCEPT ![m.l] = House(n, c, f)!Lost(@)] /\ House(n, c, f)!Notices(m.l) /\ air' = air \ {m}
        /\ UNCHANGED <<world, avail, silent>>
        BY DEF House!OnFailed, House!checking
  <1>3. \A k \in 1 .. n : k # m.l /\ FailedFor(k) \in air => FailedFor(k) \in air'
        BY <1>2 DEF FailedFor
  <1>4. CheckFits(n)'
        BY <1>1, <1>2 DEF CheckFits
  <1> QED BY <1>1, <1>2, <1>3, <1>4, LostKeeps

\* The helper is the same in the house's lamps.
LEMMA HousePicked ==
  ASSUME NEW n, NEW c, NEW f, NEW s, NEW K
  PROVE  House(n, c, f)!Picked(s, K) = Picked(s, K)
  <1>0. \A S : House(n, c, f)!Cardinality(S) = Cardinality(S)
        BY Zenon DEF House!Cardinality, Cardinality
  <1>1. \A i : House(n, c, f)!Nth(K, i) = Nth(K, i)
        BY <1>0 DEF House!Nth, Nth
  <1> QED BY <1>0, <1>1 DEF House!Picked, Picked

\* A sweep starts on copies of lamps to be restored, each once.
LEMMA SweepStarts ==
  ASSUME NEW n \in Nat, NEW c, NEW f, NEW r \in [1 .. n -> LampRec], House(n, c, f)!Sweeps(r), rec' = r
  PROVE  SweepFits(n)'
  <1> DEFINE wanting == {l \in 1 .. n : r[l].reach /\ ~r[l].applied /\ r[l].ep /\ (r[l].want # Nil \/ r[l].tone # {})}
             copies == [l \in 1 .. n |-> [l |-> l, on |-> r[l].on, want |-> r[l].want, tone |-> r[l].tone]]
             back == Picked(copies, wanting)
  <1>1. sweep' = back /\ loop' = IF back = <<>> THEN "free" ELSE "sweep"
        BY HousePicked DEF House!Sweeps, House!Lamp
  <1>2. copies \in Seq(LampCopy(n)) /\ Len(copies) = n
    <2>1. copies \in [1 .. n -> LampCopy(n)]
          BY DEF LampRec, LampCopy
    <2> HIDE DEF copies
    <2> QED BY <2>1
  <1>3. /\ \A l \in wanting : l \in 1 .. n /\ ~r[l].applied
        /\ \A l \in 1 .. n : copies[l].l = l /\ copies[l].tone = r[l].tone
        OBVIOUS
  <1>4. wanting \in SUBSET (1 .. Len(copies))
        BY <1>2
  <1> HIDE DEF wanting, copies
  <1>5. /\ back \in Seq(LampCopy(n)) /\ Len(back) = Cardinality(wanting)
        /\ \A i \in 1 .. Len(back) : Nth(wanting, i) \in wanting /\ back[i] = copies[Nth(wanting, i)]
        /\ \A i, j \in 1 .. Len(back) : i # j => Nth(wanting, i) # Nth(wanting, j)
        BY <1>2, <1>4, PickedSeq
  <1> HIDE DEF back
  <1>6. \A i \in 1 .. Len(back) : back[i].l = Nth(wanting, i) /\ ~r[back[i].l].applied /\ back[i].tone = r[back[i].l].tone
        BY <1>3, <1>5
  <1> QED BY <1>1, <1>5, <1>6 DEF SweepFits

\* Off the queue, the check rests.
LEMMA DoneKeeps ==
  ASSUME NEW n \in Nat, NEW c, NEW f, NEW l, NEW queue \in Seq(LampTarget(n)), CheckFits(n),
         House(n, c, f)!DoneWith(l, queue), silent' = silent
  PROVE  CheckFits(n)'
  <1> DEFINE others == {i \in DOMAIN queue : queue[i].l # l}
             rest == Picked(queue, others)
  <1>1. avail' = [at |-> IF rest = <<>> THEN "idle" ELSE "cool", queue |-> rest, attempt |-> 0, heard |-> FALSE]
        BY HousePicked DEF House!DoneWith
  <1>3. others \in SUBSET (1 .. Len(queue))
        OBVIOUS
  <1> HIDE DEF others
  <1>4. rest \in Seq(LampTarget(n))
        BY <1>3, PickedSeq
  <1> HIDE DEF rest
  <1> QED BY <1>1, <1>4 DEF CheckFits, LampCheck

\* A ping waited for has its lamp at the head of the queue.
LEMMA PingKeeps ==
  ASSUME NEW n \in Nat, NEW c, NEW f, NEW l \in 1 .. n, NEW attempt \in Nat, NEW queue \in Seq(LampTarget(n)), queue # <<>>,
         CheckFits(n), world[l] \in LampWorld, air \subseteq LampMessage(n), silent' = silent,
         House(n, c, f)!Pinged(l, attempt, queue) \/ House(n, c, f)!CutOff(l, queue)
  PROVE  /\ CheckFits(n)'
         /\ air' \subseteq LampMessage(n) /\ \A k \in 1 .. n : FailedFor(k) \in air => FailedFor(k) \in air'
  <1>1. CASE House(n, c, f)!Asks(l, {}, House(n, c, f)!Answer(l))
             /\ avail' = [at |-> "wait", queue |-> queue, attempt |-> attempt, heard |-> FALSE]
    <2>1. House(n, c, f)!Answer(l) \in LampMessage(n)
          BY DEF House!Answer, LampMessage, LampWorld
    <2>2. CheckFits(n)'
          BY <1>1 DEF CheckFits, LampCheck
    <2> QED BY <1>1, <2>1, <2>2, AsksKeeps
  <1>2. CASE UNCHANGED air /\ avail' = [at |-> "idle", queue |-> queue, attempt |-> 0, heard |-> FALSE]
    <2>1. CheckFits(n)'
          BY <1>2 DEF CheckFits, LampCheck
    <2> QED BY <1>2, <2>1
  <1> QED BY <1>1, <1>2 DEF House!Pinged, House!CutOff

\* A lamp the check gives up, with or without a last ping, and the news swept.
LEMMA GivenUpKeeps ==
  ASSUME NEW n \in Nat, NEW c, NEW f, LampInv(n), NEW l \in 1 .. n, House(n, c, f)!MarkLost(l),
         House(n, c, f)!SweepsOnNews(l) \/ UNCHANGED <<loop, sweep>>, world' = world, silent' = silent,
         CheckFits(n)', air' \subseteq LampMessage(n), \A k \in 1 .. n : FailedFor(k) \in air => FailedFor(k) \in air'
  PROVE  LampInv(n)'
  <1>1. rec \in [1 .. n -> LampRec]
        BY DEF LampInv, LampTypes
  <1>2. rec' = [rec EXCEPT ![l] = House(n, c, f)!Lost(@)] /\ House(n, c, f)!Notices(l)
        BY DEF House!MarkLost
  <1>3. rec' \in [1 .. n -> LampRec]
    <2>1. rec[l] \in LampRec
          BY <1>1
    <2>2. House(n, c, f)!Lost(rec[l]) \in LampRec
          BY <2>1 DEF House!Lost, LampRec
    <2> QED BY <1>1, <1>2, <2>2
  <1>4. (sweep' = sweep /\ loop' = loop) \/ SweepFits(n)'
        BY <1>3, SweepStarts DEF House!SweepsOnNews, House!task
  <1> QED BY <1>2, <1>4, LostKeeps

\* A lamp silent for too long is pinged.
LEMMA StartPingKeeps ==
  ASSUME NEW n \in Nat, NEW c, NEW f, LampInv(n), House(n, c, f)!StartPing
  PROVE  LampInv(n)'
  <1>1. /\ rec \in [1 .. n -> LampRec] /\ world \in [1 .. n -> LampWorld] /\ air \subseteq LampMessage(n)
        /\ CheckFits(n) /\ silent \subseteq 1 .. n /\ avail.queue \in Seq(LampTarget(n))
        BY DEF LampInv, LampTypes, CheckFits, LampCheck
  <1>2. House(n, c, f)!Due \in Seq(LampTarget(n))
    <2> DEFINE all == [l \in 1 .. n |-> [l |-> l, was |-> rec[l].reach]]
               due == {l \in silent : rec[l].ep}
    <2>1. House(n, c, f)!Due = Picked(all, due)
          BY HousePicked DEF House!Due, House!Target, House!Lamp
    <2>2. all \in Seq(LampTarget(n)) /\ Len(all) = n
      <3>1. all \in [1 .. n -> LampTarget(n)]
            BY <1>1 DEF LampRec, LampTarget
      <3> HIDE DEF all
      <3> QED BY <3>1
    <2>3. due \in SUBSET (1 .. Len(all))
          BY <1>1, <2>2
    <2> HIDE DEF all, due
    <2> QED BY <2>1, <2>2, <2>3, PickedSeq
  <1>3. PICK queue \in Seq(LampTarget(n)) : queue # <<>> 
           /\ \/ /\ House(n, c, f)!Pinged(Head(queue).l, 1, queue) \/ House(n, c, f)!CutOff(Head(queue).l, queue)
                 /\ UNCHANGED <<rec, loop, sweep, asked, noticed, excused, stale>>
              \/ /\ House(n, c, f)!Refused(Head(queue).l, queue)
                 /\ House(n, c, f)!MarkLost(Head(queue).l) /\ House(n, c, f)!SweepsOnNews(Head(queue).l)
        BY <1>1, <1>2 DEF House!StartPing, House!task, House!history
  <1> DEFINE l == Head(queue).l
  <1>4. l \in 1 .. n
    <2>1. Head(queue) \in LampTarget(n)
          BY <1>3
    <2> QED BY <2>1 DEF LampTarget
  <1>5. UNCHANGED <<world, silent>>
        BY DEF House!StartPing
  <1>6. CASE /\ House(n, c, f)!Pinged(l, 1, queue) \/ House(n, c, f)!CutOff(l, queue)
             /\ UNCHANGED <<rec, loop, sweep, asked, noticed, excused, stale>>
    <2> HIDE DEF l
    <2>1. /\ CheckFits(n)' /\ air' \subseteq LampMessage(n)
          /\ \A k \in 1 .. n : FailedFor(k) \in air => FailedFor(k) \in air'
          BY <1>1, <1>3, <1>4, <1>5, <1>6, PingKeeps
    <2>2. HeardFits(l, rec[l]) /\ rec' = [rec EXCEPT ![l] = rec[l]]
          BY <1>1, <1>4, <1>6 DEF HeardFits
    <2> QED BY <1>4, <1>5, <1>6, <2>1, <2>2, HeardKeeps
  <1>7. CASE House(n, c, f)!Refused(l, queue) /\ House(n, c, f)!MarkLost(l) /\ House(n, c, f)!SweepsOnNews(l)
    <2> HIDE DEF l
    <2>1. CheckFits(n)' /\ air' = air
          BY <1>1, <1>3, <1>5, <1>7, DoneKeeps DEF House!Refused
    <2> QED BY <1>1, <1>4, <1>5, <1>7, <2>1, GivenUpKeeps
  <1> QED BY <1>3, <1>6, <1>7

\* A ping is judged: answered, tried again, or its lamp is lost.
LEMMA CheckPingKeeps ==
  ASSUME NEW n \in Nat, NEW c, NEW f, LampInv(n), House(n, c, f)!CheckPing
  PROVE  LampInv(n)'
  <1> DEFINE l == Head(avail.queue).l
  <1>1. /\ rec \in [1 .. n -> LampRec] /\ world \in [1 .. n -> LampWorld] /\ air \subseteq LampMessage(n)
        /\ CheckFits(n) /\ avail.queue \in Seq(LampTarget(n)) /\ avail.queue # <<>>
        BY DEF LampInv, LampTypes, CheckFits, LampCheck, House!CheckPing
  <1>2. l \in 1 .. n
    <2>1. Head(avail.queue) \in LampTarget(n)
          BY <1>1
    <2> QED BY <2>1 DEF LampTarget
  <1>3. world' = world /\ silent' = silent
        BY DEF House!CheckPing
  <1>4. ASSUME House(n, c, f)!DoneWith(l, avail.queue), House(n, c, f)!Sweeps(rec),
               UNCHANGED <<rec, air, asked, noticed, excused, stale>>
        PROVE  LampInv(n)'
    <2>1. SweepFits(n)' /\ CheckFits(n)'
          BY <1>1, <1>3, <1>4, SweepStarts, DoneKeeps
    <2>2. LampTypes(n)' /\ WantsAsked(n)'
          BY <1>3, <1>4 DEF LampInv, LampTypes, WantsAsked
    <2>3. \A k \in noticed \ (excused \cup stale) : Fulfilled(k)'
          BY <1>3, <1>4 DEF LampInv, Fulfilled, Given, FailedFor
    <2> QED BY <1>4, <2>1, <2>2, <2>3 DEF LampInv
  <1>5. ASSUME House(n, c, f)!MarkLost(l),
               \/ /\ House(n, c, f)!Pinged(l, 2, avail.queue) \/ House(n, c, f)!Refused(l, avail.queue)
                  /\ House(n, c, f)!SweepsOnNews(l)
               \/ House(n, c, f)!CutOff(l, avail.queue) /\ UNCHANGED <<loop, sweep>>
               \/ House(n, c, f)!DoneWith(l, avail.queue) /\ House(n, c, f)!SweepsOnNews(l) /\ UNCHANGED air
        PROVE  LampInv(n)'
    <2> HIDE DEF l
    <2>1. House(n, c, f)!SweepsOnNews(l) \/ UNCHANGED <<loop, sweep>>
          BY <1>5
    <2>2. /\ CheckFits(n)' /\ air' \subseteq LampMessage(n)
          /\ \A k \in 1 .. n : FailedFor(k) \in air => FailedFor(k) \in air'
      <3>1. CASE House(n, c, f)!Pinged(l, 2, avail.queue) \/ House(n, c, f)!CutOff(l, avail.queue)
            BY <3>1, <1>1, <1>2, <1>3, PingKeeps
      <3>2. CASE House(n, c, f)!DoneWith(l, avail.queue) /\ UNCHANGED air
            BY <3>2, <1>1, <1>3, DoneKeeps
      <3>3. CASE House(n, c, f)!Refused(l, avail.queue)
            BY <3>2, <3>3 DEF House!Refused
      <3> QED BY <1>5, <3>1, <3>2, <3>3
    <2> QED BY <1>2, <1>3, <1>5, <2>1, <2>2, GivenUpKeeps
  <1> HIDE DEF l
  <1> QED BY <1>4, <1>5 DEF House!CheckPing, House!history, House!task, l

\* The check's pause is over.
LEMMA CoolDownKeeps ==
  ASSUME NEW n \in Nat, NEW c, NEW f, LampInv(n), House(n, c, f)!CoolDown
  PROVE  LampInv(n)'
  <1>1. /\ UNCHANGED <<world, rec, air, silent, loop, sweep, asked, noticed, excused, stale>>
        /\ avail' = [avail EXCEPT !.at = "idle"]
        BY DEF House!CoolDown, House!task, House!history
  <1>2. CheckFits(n)'
        BY <1>1 DEF LampInv, CheckFits, LampCheck
  <1>3. LampTypes(n)' /\ WantsAsked(n)'
        BY <1>1 DEF LampInv, LampTypes, WantsAsked
  <1>4. SweepFits(n)'
    <2>1. SweepFits(n) /\ sweep' = sweep /\ loop' = loop /\ rec' = rec
          BY <1>1 DEF LampInv
    <2> QED BY <2>1 DEF SweepFits
  <1>5. \A k \in noticed \ (excused \cup stale) : Fulfilled(k)'
        BY <1>1 DEF LampInv, Fulfilled, Given, FailedFor
  <1> QED BY <1>1, <1>2, <1>3, <1>4, <1>5 DEF LampInv

\* The sweep goes on with the next lamp.
LEMMA TailFits ==
  ASSUME NEW n \in Nat, SweepFits(n), loop = "sweep", sweep' = Tail(sweep),
         loop' = "drain" \/ loop' = IF Tail(sweep) = <<>> THEN "free" ELSE "sweep",
         \A k \in 1 .. n : k # Head(sweep).l => rec'[k].applied = rec[k].applied /\ rec'[k].tone = rec[k].tone
  PROVE  SweepFits(n)'
  <1>1. /\ sweep \in Seq(LampCopy(n)) /\ sweep # <<>>
        /\ \A i \in 1 .. Len(sweep) : ~rec[sweep[i].l].applied /\ sweep[i].tone = rec[sweep[i].l].tone
        /\ \A i, j \in 1 .. Len(sweep) : i # j => sweep[i].l # sweep[j].l
        BY DEF SweepFits
  <1>2. /\ Tail(sweep) \in Seq(LampCopy(n)) /\ Len(Tail(sweep)) = Len(sweep) - 1
        /\ \A i \in 1 .. Len(Tail(sweep)) : Tail(sweep)[i] = sweep[i + 1] /\ i + 1 \in 1 .. Len(sweep) /\ i + 1 # 1
        /\ Head(sweep) = sweep[1] /\ 1 \in 1 .. Len(sweep)
        BY <1>1
  <1>3. \A i \in 1 .. Len(sweep) : sweep[i].l \in 1 .. n
    <2>1. \A i \in 1 .. Len(sweep) : sweep[i] \in LampCopy(n)
          BY <1>1
    <2> QED BY <2>1 DEF LampCopy
  <1>4. \A i \in 1 .. Len(Tail(sweep)) :
           LET t == Tail(sweep)[i] IN t.l \in 1 .. n /\ t.l # Head(sweep).l /\ ~rec[t.l].applied /\ t.tone = rec[t.l].tone
        BY <1>1, <1>2, <1>3
  <1>5. \A i, j \in 1 .. Len(Tail(sweep)) : i # j => Tail(sweep)[i].l # Tail(sweep)[j].l
    <2>1. \A i, j \in 1 .. Len(Tail(sweep)) : i # j => i + 1 # j + 1
          BY <1>1, <1>2
    <2> QED BY <1>1, <1>2, <2>1
  <1> QED BY <1>2, <1>4, <1>5 DEF SweepFits

\* A lamp's turn in the sweep: every part of it went through, or one failed.
LEMMA RestoreKeeps ==
  ASSUME NEW n \in Nat, NEW c, NEW f, LampInv(n), House(n, c, f)!Restore
  PROVE  LampInv(n)'
  <1> DEFINE t == Head(sweep)
             l == t.l
             dims == t.want # Nil /\ t.want # 0 /\ t.on
             light == (IF dims THEN [level |-> t.want, on |-> TRUE] ELSE <<>>)
             tone == IF "color" \in t.tone THEN "color" ELSE "temp"
             made == IF t.tone # {} THEN [tone |-> tone] ELSE <<>>
             dimmed == House(n, c, f)!With(rec[l], light)
             r == House(n, c, f)!With(dimmed, [applied |-> TRUE])
             lit == House(n, c, f)!With(world[l], light)
             w == House(n, c, f)!With(lit, made)
  <1>0. /\ rec \in [1 .. n -> LampRec] /\ world \in [1 .. n -> LampWorld] /\ asked \in [1 .. n -> LampAsked]
        /\ air \subseteq LampMessage(n) /\ SweepFits(n) /\ CheckFits(n) /\ WantsAsked(n) /\ noticed \subseteq 1 .. n
        /\ loop = "sweep" /\ sweep \in Seq(LampCopy(n)) /\ sweep # <<>>
        /\ UNCHANGED <<avail, silent, asked, noticed>>
        BY DEF LampInv, LampTypes, SweepFits, House!Restore, House!checking
  <1>1. t \in LampCopy(n) /\ ~rec[l].applied /\ t.tone = rec[l].tone
    <2>1. t = sweep[1] /\ 1 \in 1 .. Len(sweep)
          BY <1>0
    <2> QED BY <1>0, <2>1 DEF SweepFits
  <1>2. /\ l \in 1 .. n /\ t.on \in BOOLEAN /\ (dims => t.want \in Nat) /\ tone \in {"color", "temp"}
        /\ rec[l] \in LampRec /\ world[l] \in LampWorld /\ asked[l] \in LampAsked
        /\ rec[l].want = asked[l].level /\ t.tone = IF asked[l].tone = Nil THEN {} ELSE {asked[l].tone}
        BY <1>0, <1>1 DEF LampCopy, WantsAsked
  <1>3. asked[l].tone # Nil => t.tone # {} /\ tone = asked[l].tone
        BY <1>2 DEF LampAsked
  <1>4. /\ dimmed \in LampRec /\ dimmed.reach = rec[l].reach /\ dimmed.want = rec[l].want
        /\ dimmed.tone = rec[l].tone /\ dimmed.applied = rec[l].applied
    <2>1. CASE dims
      <3>1. light = [level |-> t.want, on |-> TRUE] /\ t.want \in Nat
            BY <2>1, <1>2
      <3> HIDE DEF light, dims
      <3> QED BY <3>1, <1>2 DEF House!With, LampRec
    <2>2. CASE ~dims
      <3>1. light = <<>>
            BY <2>2
      <3> HIDE DEF light, dims
      <3> QED BY <3>1, <1>2 DEF House!With, LampRec
    <2> QED BY <2>1, <2>2
  <1>5. /\ lit \in LampWorld /\ lit.power = world[l].power /\ lit.tone = world[l].tone
        /\ (dims => lit.level = t.want)
    <2>1. CASE dims
      <3>1. light = [level |-> t.want, on |-> TRUE] /\ t.want \in Nat
            BY <2>1, <1>2
      <3> HIDE DEF light, dims
      <3> QED BY <3>1, <1>2 DEF House!With, LampWorld
    <2>2. CASE ~dims
      <3>1. light = <<>>
            BY <2>2
      <3> HIDE DEF light
      <3> QED BY <2>2, <3>1, <1>2 DEF House!With, LampWorld
    <2> QED BY <2>1, <2>2
  <1>6. /\ w \in LampWorld /\ w.power = world[l].power /\ w.level = lit.level /\ (t.tone # {} => w.tone = tone)
    <2>1. CASE t.tone # {}
      <3>1. made = [tone |-> tone]
            BY <2>1
      <3> HIDE DEF made, lit, tone
      <3> QED BY <3>1, <1>2, <1>5 DEF House!With, LampWorld
    <2>2. CASE t.tone = {}
      <3>1. made = <<>>
            BY <2>2
      <3> HIDE DEF made, lit, tone
      <3> QED BY <2>2, <3>1, <1>5 DEF House!With, LampWorld
    <2> QED BY <2>1, <2>2
  <1>7. /\ r \in LampRec /\ r.reach = rec[l].reach /\ r.want = rec[l].want /\ r.tone = rec[l].tone /\ r.applied = TRUE
    <2> HIDE DEF dimmed
    <2> QED BY <1>4 DEF House!With, LampRec
  <1> HIDE DEF dimmed, r, lit, w
  <1>8. ASSUME rec' = [rec EXCEPT ![l] = r],
               NEW missed \in SUBSET {l},
               air' = air \cup House(n, c, f)!Unheard({l}, missed),
               world' = IF l \in House(n, c, f)!Hear({l}, missed) THEN [world EXCEPT ![l] = w] ELSE world,
               excused' = IF t.on THEN excused ELSE excused \cup {l},
               stale' = IF t.want = rec[l].want /\ rec[l].reach THEN stale ELSE stale \cup {l},
               loop' = "drain", sweep' = Tail(sweep)
        PROVE  LampInv(n)'
    <2>1. /\ air \subseteq air' /\ air' \subseteq air \cup {FailedFor(l)}
          /\ \/ FailedFor(l) \in air' /\ world' = world
             \/ world[l].power /\ world' = [world EXCEPT ![l] = w]
          BY <1>8 DEF House!Unheard, House!Hear, House!Plain, FailedFor
    <2>2. FailedFor(l) \in LampMessage(n)
          BY <1>2 DEF FailedFor, LampMessage
    <2> HIDE DEF t
    <2>3. LampTypes(n)'
          BY <1>0, <1>6, <1>7, <1>8, <2>1, <2>2 DEF LampTypes
    <2>4. WantsAsked(n)'
          BY <1>0, <1>7, <1>8 DEF WantsAsked
    <2>5. SweepFits(n)' /\ CheckFits(n)'
      <3>1. \A k \in 1 .. n : k # l => rec'[k].applied = rec[k].applied /\ rec'[k].tone = rec[k].tone
            BY <1>0, <1>8
      <3>2. CheckFits(n)'
            BY <1>0 DEF CheckFits
      <3> QED BY <1>0, <1>8, <3>1, <3>2, TailFits DEF t
    <2>6. ASSUME NEW k \in noticed' \ (excused' \cup stale') PROVE Fulfilled(k)'
      <3>1. k \in 1 .. n /\ k \in noticed \ (excused \cup stale) /\ Fulfilled(k) /\ FailedFor(k)' = FailedFor(k)
            BY <1>0, <1>8 DEF LampInv, FailedFor
      <3>2. CASE k # l
            BY <3>1, <3>2, <1>0, <1>8, <2>1 DEF Fulfilled, Given
      <3>3. CASE k = l
        <4>1. t.on /\ t.want = rec[l].want /\ rec[l].reach
              BY <3>3, <2>6, <1>8
        <4>2. rec'[l] = r /\ asked'[l] = asked[l]
              BY <1>0, <1>2, <1>8
        <4>3. CASE FailedFor(l) \in air'
              BY <3>1, <3>3, <4>1, <4>2, <4>3, <1>7 DEF Fulfilled
        <4>4. CASE world[l].power /\ world' = [world EXCEPT ![l] = w]
          <5>1. world'[l] = w
                BY <4>4, <1>0, <1>2
          <5>2. asked[l].level \notin {Nil, 0} => w.level = asked[l].level
                BY <4>1, <1>2, <1>5, <1>6
          <5>3. asked[l].tone # Nil => w.tone = asked[l].tone
                BY <1>3, <1>6
          <5> QED BY <3>1, <3>3, <4>1, <4>2, <4>4, <5>1, <5>2, <5>3, <1>6, <1>7 DEF Fulfilled, Given
        <4> QED BY <2>1, <4>3, <4>4
      <3> QED BY <3>2, <3>3
    <2> QED BY <2>3, <2>4, <2>5, <2>6 DEF LampInv
  <1>9. ASSUME UNCHANGED <<air, excused, stale>>, sweep' = Tail(sweep),
               loop' = (IF Tail(sweep) = <<>> THEN "free" ELSE "sweep"),
               \/ UNCHANGED <<rec, world>>
               \/ /\ rec' = [rec EXCEPT ![l] = dimmed]
                  /\ world' = IF world[l].power THEN [world EXCEPT ![l] = lit] ELSE world
        PROVE  LampInv(n)'
    <2> HIDE DEF t
    <2>1. /\ rec' \in [1 .. n -> LampRec] /\ world' \in [1 .. n -> LampWorld]
          /\ \A k \in 1 .. n : /\ rec'[k].applied = rec[k].applied /\ rec'[k].tone = rec[k].tone
                               /\ rec'[k].want = rec[k].want
                               /\ k # l => rec'[k] = rec[k] /\ world'[k] = world[k]
          BY <1>0, <1>2, <1>4, <1>5, <1>9
    <2>2. LampTypes(n)' /\ WantsAsked(n)' /\ CheckFits(n)'
          BY <1>0, <1>9, <2>1 DEF LampTypes, WantsAsked, CheckFits
    <2>3. SweepFits(n)'
          BY <1>0, <1>9, <2>1, TailFits DEF t
    <2>4. ASSUME NEW k \in noticed \ (excused \cup stale) PROVE Fulfilled(k)'
      <3>1. k \in 1 .. n /\ Fulfilled(k) /\ FailedFor(k)' = FailedFor(k)
            BY <1>0 DEF LampInv, FailedFor
      <3>2. CASE k = l
            BY <3>1, <3>2, <2>1, <1>1 DEF Fulfilled
      <3>3. CASE k # l
            BY <3>1, <3>3, <2>1, <1>0, <1>9 DEF Fulfilled, Given
      <3> QED BY <3>2, <3>3
    <2> QED BY <1>0, <1>9, <2>2, <2>3, <2>4 DEF LampInv
  <1> QED BY <1>8, <1>9 DEF House!Restore, House!Is, House!Hear, r, w, dimmed, lit

\* Between two lamps of a sweep, or its time runs out.
LEMMA GoOnKeeps ==
  ASSUME NEW n \in Nat, NEW c, NEW f, LampInv(n), House(n, c, f)!GoOn
  PROVE  LampInv(n)'
  <1>1. /\ UNCHANGED <<world, rec, air, avail, silent, asked, noticed, excused, stale>>
        /\ \/ loop' = (IF sweep = <<>> THEN "free" ELSE "sweep") /\ sweep' = sweep
           \/ loop' = "free" /\ sweep' = <<>>
        BY DEF House!GoOn, House!checking, House!history
  <1>2. LampTypes(n)' /\ WantsAsked(n)' /\ CheckFits(n)'
        BY <1>1 DEF LampInv, LampTypes, WantsAsked, CheckFits
  <1>3. SweepFits(n)'
    <2>1. SweepFits(n) /\ rec' = rec
          BY <1>1 DEF LampInv
    <2>2. CASE sweep' = sweep /\ loop' = IF sweep = <<>> THEN "free" ELSE "sweep"
          BY <2>1, <2>2 DEF SweepFits
    <2>3. CASE sweep' = <<>> /\ loop' = "free"
          BY <2>3 DEF SweepFits
    <2> QED BY <1>1, <2>2, <2>3
  <1>4. \A k \in noticed \ (excused \cup stale) : Fulfilled(k)'
        BY <1>1 DEF LampInv, Fulfilled, Given, FailedFor
  <1> QED BY <1>1, <1>2, <1>3, <1>4 DEF LampInv

\* A press goes to every lamp in reach: those that miss it are heard of as failures.
LEMMA PressKeeps ==
  ASSUME NEW n \in Nat, NEW c, NEW f, LampInv(n), NEW press \in {"on", "off", "up", "down"}, House(n, c, f)!Press(press)
  PROVE  LampInv(n)'
  <1> DEFINE to == {l \in 1 .. n : rec[l].reach /\ rec[l].ep}
             level == [l \in 1 .. n |-> House(n, c, f)!Stepped(rec[l].level, press = "up")]
             power == press \in {"on", "off"}
             on == press = "on"
             hear(missed) == House(n, c, f)!Hear(to, missed)
  <1>0. /\ rec \in [1 .. n -> LampRec] /\ world \in [1 .. n -> LampWorld] /\ asked \in [1 .. n -> LampAsked]
        /\ air \subseteq LampMessage(n) /\ SweepFits(n) /\ CheckFits(n) /\ WantsAsked(n) /\ noticed \subseteq 1 .. n
        /\ UNCHANGED <<avail, silent, loop, sweep, noticed, excused, stale>>
        BY DEF LampInv, LampTypes, House!Press, House!checking, House!task
  <1>1. PICK missed \in SUBSET to :
          /\ air' = air \cup House(n, c, f)!Unheard(to, missed)
          /\ world' = [l \in 1 .. n |->
               IF l \notin hear(missed) THEN world[l]
               ELSE IF power THEN [world[l] EXCEPT !.on = on]
               ELSE [world[l] EXCEPT !.level = level[l], !.on = TRUE]]
          /\ rec' = [l \in 1 .. n |->
               IF l \notin to THEN rec[l]
               ELSE IF power THEN [rec[l] EXCEPT !.on = on]
               ELSE [rec[l] EXCEPT !.level = level[l], !.on = TRUE, !.want = level[l]]]
          /\ asked' = [l \in 1 .. n |-> IF l \in to /\ ~power THEN [asked[l] EXCEPT !.level = level[l]] ELSE asked[l]]
        BY DEF House!Press, House!Broadcast, House!Lamp
  <1> DEFINE heard == hear(missed)
  <1>2. /\ air \subseteq air' /\ air' \subseteq air \cup {FailedFor(l) : l \in to}
        /\ \A l \in to : l \in heard \/ FailedFor(l) \in air'
        /\ \A l \in heard : l \in to /\ world[l].power
        BY <1>1 DEF House!Unheard, House!Hear, House!Plain, FailedFor
  <1>3. \A l \in 1 .. n : level[l] \in Nat
    <2>1. \A l \in 1 .. n : rec[l].level \in Nat
          BY <1>0 DEF LampRec
    <2> QED BY <2>1, ZigbeeAssumption DEF House!Stepped
  <1>4. on \in BOOLEAN /\ power \in BOOLEAN /\ to \subseteq 1 .. n
        OBVIOUS
  <1> HIDE DEF level, on, power, heard
  <1>5. ASSUME NEW l \in 1 .. n
        PROVE  /\ rec'[l] \in LampRec /\ world'[l] \in LampWorld /\ asked'[l] \in LampAsked
               /\ rec'[l].reach = rec[l].reach /\ rec'[l].applied = rec[l].applied /\ rec'[l].tone = rec[l].tone
               /\ asked'[l].tone = asked[l].tone /\ rec'[l].want = asked'[l].level
               /\ world'[l].power = world[l].power /\ world'[l].tone = world[l].tone
               /\ asked'[l].level # asked[l].level => l \in to
               /\ l \in to /\ ~power => asked'[l].level = level[l]
               /\ l \notin to \/ power => asked'[l].level = asked[l].level /\ world'[l].level = world[l].level
               /\ l \in heard /\ ~power => world'[l].level = level[l]
    <2>1. rec[l] \in LampRec /\ world[l] \in LampWorld /\ asked[l] \in LampAsked /\ rec[l].want = asked[l].level /\ level[l] \in Nat
          BY <1>0, <1>3 DEF WantsAsked
    <2>2. CASE l \notin to
      <3>1. rec'[l] = rec[l] /\ world'[l] = world[l] /\ asked'[l] = asked[l] /\ l \notin heard
            BY <1>1, <1>2, <2>2 DEF heard
      <3> QED BY <2>1, <2>2, <3>1
    <2>3. CASE l \in to /\ power
      <3>1. /\ rec'[l] = [rec[l] EXCEPT !.on = on] /\ asked'[l] = asked[l]
            /\ world'[l] \in {world[l], [world[l] EXCEPT !.on = on]}
            BY <1>1, <2>3
      <3> QED BY <2>1, <2>3, <3>1, <1>4 DEF LampRec, LampWorld
    <2>4. CASE l \in to /\ ~power
      <3>1. /\ rec'[l] = [rec[l] EXCEPT !.level = level[l], !.on = TRUE, !.want = level[l]]
            /\ asked'[l] = [asked[l] EXCEPT !.level = level[l]]
            /\ l \in heard => world'[l] = [world[l] EXCEPT !.level = level[l], !.on = TRUE]
            /\ l \notin heard => world'[l] = world[l]
            BY <1>1, <2>4 DEF heard
      <3>2. /\ rec'[l] \in LampRec /\ rec'[l].reach = rec[l].reach /\ rec'[l].applied = rec[l].applied
            /\ rec'[l].tone = rec[l].tone /\ rec'[l].want = level[l]
            BY <2>1, <3>1 DEF LampRec
      <3>3. asked'[l] \in LampAsked /\ asked'[l].level = level[l] /\ asked'[l].tone = asked[l].tone
            BY <2>1, <3>1 DEF LampAsked
      <3>4. /\ world'[l] \in LampWorld /\ world'[l].power = world[l].power /\ world'[l].tone = world[l].tone
            /\ l \in heard => world'[l].level = level[l]
            BY <2>1, <3>1 DEF LampWorld
      <3> QED BY <2>4, <3>2, <3>3, <3>4
    <2> QED BY <2>2, <2>3, <2>4
  <1>6. LampTypes(n)'
    <2>1. \A l \in to : FailedFor(l) \in LampMessage(n)
          BY <1>4 DEF FailedFor, LampMessage
    <2>2. air' \subseteq LampMessage(n) /\ noticed' \subseteq 1 .. n
          BY <1>0, <1>2, <2>1
    <2>3. rec' \in [1 .. n -> LampRec] /\ world' \in [1 .. n -> LampWorld] /\ asked' \in [1 .. n -> LampAsked]
      <3>1. /\ DOMAIN rec' = 1 .. n /\ rec' = [l \in 1 .. n |-> rec'[l]]
            /\ DOMAIN world' = 1 .. n /\ world' = [l \in 1 .. n |-> world'[l]]
            /\ DOMAIN asked' = 1 .. n /\ asked' = [l \in 1 .. n |-> asked'[l]]
            BY <1>1
      <3> QED BY <3>1, <1>5
    <2> QED BY <2>2, <2>3 DEF LampTypes
  <1>7. WantsAsked(n)'
        BY <1>0, <1>5 DEF WantsAsked
  <1>8. SweepFits(n)' /\ CheckFits(n)'
    <2>1. sweep' = sweep /\ loop' = loop /\ sweep \in Seq(LampCopy(n))
          BY <1>0 DEF SweepFits
    <2>2. \A i \in 1 .. Len(sweep) : sweep[i].l \in 1 .. n
      <3>1. \A i \in 1 .. Len(sweep) : sweep[i] \in LampCopy(n)
            BY <2>1
      <3> QED BY <3>1 DEF LampCopy
    <2>3. SweepFits(n)'
          BY <1>0, <1>5, <2>1, <2>2 DEF SweepFits
    <2>4. CheckFits(n)'
          BY <1>0 DEF CheckFits
    <2> QED BY <2>3, <2>4
  <1>9. ASSUME NEW l \in noticed \ (excused \cup stale) PROVE Fulfilled(l)'
    <2>1. l \in 1 .. n /\ Fulfilled(l) /\ FailedFor(l)' = FailedFor(l) /\ (FailedFor(l) \in air => FailedFor(l) \in air')
          BY <1>0, <1>2 DEF LampInv, FailedFor
    <2>2. l \notin to \/ power => (Given(l) => Given(l)')
          BY <1>5, <2>1 DEF Given
    <2>3. l \in heard /\ ~power => (Given(l) => Given(l)')
          BY <1>2, <1>5, <2>1 DEF Given
    <2> QED BY <1>2, <1>5, <2>1, <2>2, <2>3 DEF Fulfilled
  <1> QED BY <1>0, <1>6, <1>7, <1>8, <1>9 DEF LampInv

\* The wall switch: a lamp that goes off is no longer one the driver saw going away, one that
\* comes on had been off.
LEMMA FlipKeeps ==
  ASSUME NEW n \in Nat, NEW c, NEW f, LampInv(n), NEW set \in SUBSET (1 .. n), NEW power \in BOOLEAN,
         House(n, c, f)!Flip(set, power)
  PROVE  LampInv(n)'
  <1> DEFINE lamp == [House(n, c, f)!Factory EXCEPT !.power = power]
  <1>0. /\ rec \in [1 .. n -> LampRec] /\ world \in [1 .. n -> LampWorld]
        /\ air \subseteq LampMessage(n) /\ noticed \subseteq 1 .. n
        /\ UNCHANGED <<rec, avail, silent, loop, sweep, asked, excused, stale>>
        /\ world' = [l \in 1 .. n |-> IF l \notin set THEN world[l] ELSE lamp]
        /\ noticed' = (IF power THEN noticed ELSE noticed \ set)
        /\ \A l \in set : world[l].power # power
        BY DEF LampInv, LampTypes, House!Flip, House!Lamp, House!checking, House!task
  <1>1. lamp \in LampWorld
        BY ZigbeeAssumption DEF House!Factory, LampWorld
  <1> HIDE DEF lamp
  <1>2. air \subseteq air' /\ air' \subseteq LampMessage(n)
    <2>1. PICK missed : air' = air \cup {House(n, c, f)!Plain("announce", l) : l \in (IF power THEN set ELSE {}) \ missed}
          BY DEF House!Flip
    <2>2. \A l \in set : House(n, c, f)!Plain("announce", l) \in LampMessage(n)
          BY DEF House!Plain, LampMessage
    <2> QED BY <1>0, <2>1, <2>2
  <1>3. LampTypes(n)'
        BY <1>0, <1>1, <1>2 DEF LampInv, LampTypes
  <1>4. WantsAsked(n)' /\ CheckFits(n)'
        BY <1>0 DEF LampInv, WantsAsked, CheckFits
  <1>5. SweepFits(n)'
    <2>1. SweepFits(n) /\ sweep' = sweep /\ loop' = loop /\ rec' = rec
          BY <1>0 DEF LampInv
    <2> QED BY <2>1 DEF SweepFits
  <1>6. ASSUME NEW l \in noticed' \ (excused' \cup stale') PROVE Fulfilled(l)'
    <2>1. l \in 1 .. n /\ Fulfilled(l) /\ FailedFor(l)' = FailedFor(l) /\ (FailedFor(l) \in air => FailedFor(l) \in air')
          BY <1>0, <1>2 DEF LampInv, FailedFor
    <2>2. CASE l \notin set
          BY <1>0, <2>1, <2>2 DEF Fulfilled, Given
    <2>3. CASE l \in set
      <3>1. ~world[l].power
            BY <1>0, <2>3
      <3> QED BY <1>0, <2>1, <3>1 DEF Fulfilled
    <2> QED BY <2>2, <2>3
  <1> QED BY <1>3, <1>4, <1>5, <1>6 DEF LampInv

\* A lamp falls silent.
LEMMA QuietKeeps ==
  ASSUME NEW n \in Nat, NEW c, NEW f, LampInv(n), NEW l \in 1 .. n, House(n, c, f)!Quiet(l)
  PROVE  LampInv(n)'
  <1>1. /\ UNCHANGED <<world, rec, air, avail, loop, sweep, asked, noticed, excused, stale>>
        /\ silent' = silent \cup {l}
        BY DEF House!Quiet, House!task, House!history
  <1>2. LampTypes(n)' /\ WantsAsked(n)' /\ CheckFits(n)'
        BY <1>1 DEF LampInv, LampTypes, WantsAsked, CheckFits
  <1>3. SweepFits(n)'
    <2>1. SweepFits(n) /\ rec' = rec
          BY <1>1 DEF LampInv
    <2> QED BY <1>1, <2>1 DEF SweepFits
  <1>4. \A k \in noticed \ (excused \cup stale) : Fulfilled(k)'
        BY <1>1 DEF LampInv, Fulfilled, Given, FailedFor
  <1> QED BY <1>1, <1>2, <1>3, <1>4 DEF LampInv

\* Every step of a house of any number of lamps.
LEMMA LampsStep ==
  ASSUME NEW n \in Nat, NEW c, NEW f, LampInv(n), [House(n, c, f)!Next]_(House(n, c, f)!lampVars)
  PROVE  LampInv(n)'
  <1>1. CASE UNCHANGED House(n, c, f)!lampVars
    <2>1. UNCHANGED <<world, rec, air, avail, silent, loop, sweep, asked, noticed, excused, stale>>
          BY <1>1 DEF House!lampVars
    <2>2. LampTypes(n)' /\ WantsAsked(n)' /\ CheckFits(n)'
          BY <2>1 DEF LampInv, LampTypes, WantsAsked, CheckFits
    <2>3. SweepFits(n)'
          BY <2>1 DEF LampInv, SweepFits
    <2>4. \A k \in noticed \ (excused \cup stale) : Fulfilled(k)'
          BY <2>1 DEF LampInv, Fulfilled, Given, FailedFor
    <2> QED BY <2>1, <2>2, <2>3, <2>4 DEF LampInv
  <1>2. ASSUME NEW m \in air, House(n, c, f)!OnCallback(m) PROVE LampInv(n)'
    <2>1. UNCHANGED <<loop, sweep>>
          BY <1>2 DEF House!OnCallback, House!task
    <2>2. House(n, c, f)!OnFrame(m) \/ House(n, c, f)!OnFailed(m) \/ House(n, c, f)!OnAnnounce(m) \/ House(n, c, f)!OnDescriptor(m)
          BY <1>2 DEF House!OnCallback
    <2> QED BY <2>1, <2>2, CallbacksKeep, FailedKeeps
  <1>3. CASE House(n, c, f)!Driver
    <2>1. ASSUME NEW l \in 1 .. n, House(n, c, f)!RetryInterview(l) PROVE LampInv(n)'
          BY <2>1, RetryKeeps
    <2> QED BY <1>2, <1>3, <2>1, StartPingKeeps, CheckPingKeeps, CoolDownKeeps, RestoreKeeps, GoOnKeeps DEF House!Driver, House!Lamp
  <1>4. ASSUME NEW l \in 1 .. n,
               \/ \E on \in BOOLEAN : House(n, c, f)!SetPower(l, on)
               \/ \E v \in 0 .. Top : House(n, c, f)!SetBrightness(l, v)
               \/ \E tone \in {"temp", "color"} : House(n, c, f)!SetTone(l, tone)
               \/ House(n, c, f)!Quiet(l)
        PROVE  LampInv(n)'
        BY <1>4, CommandsKeep, QuietKeeps
  <1>5. ASSUME NEW set \in SUBSET (1 .. n), NEW power \in BOOLEAN, House(n, c, f)!Flip(set, power) PROVE LampInv(n)'
        BY <1>5, FlipKeeps
  <1>6. ASSUME NEW press \in {"on", "off", "up", "down"}, House(n, c, f)!Press(press) PROVE LampInv(n)'
        BY <1>6, PressKeeps
  <1> QED BY <1>1, <1>3, <1>4, <1>5, <1>6 DEF House!Next, House!Lamp, House!Level

\* The inductive invariant has the property.
LEMMA LampsAsAsked ==
  ASSUME NEW n \in Nat, NEW c, NEW f, LampInv(n)
  PROVE  House(n, c, f)!ComesBackAsAsked
  <1>1. ASSUME NEW l \in noticed \ (excused \cup stale), House(n, c, f)!Restored(l)
        PROVE  House(n, c, f)!AsAsked(l)
    <2>1. Fulfilled(l) /\ rec[l].applied /\ FailedFor(l) \notin air
          BY <1>1 DEF LampInv, House!Restored, House!Plain, FailedFor
    <2> QED BY <2>1 DEF Fulfilled, Given, House!AsAsked
  <1> QED BY <1>1 DEF House!ComesBackAsAsked

-----------------------------------------------------------------------------
(* The devices: the file follows what is published.                        *)

Kept == [i \in DOMAIN shared |-> [eui |-> shared[i].eui, node |-> shared[i].node, type |-> shared[i].type]]
KeptInv == ~news => \A i \in DOMAIN shared : shared[i].ep # Nil => Kept[i] \in file

\* Publishing is news when it changes anything.
LEMMA PublishKeeps ==
  ASSUME NEW rs, KeptInv, Ids!Publish(rs), file' = file
  PROVE  KeptInv'
  <1>1. shared' = rs /\ news' = (news \/ rs # shared)
        BY DEF Ids!Publish
  <1>2. ~news' => ~news /\ shared' = shared
        BY <1>1
  <1> QED BY <1>2 DEF KeptInv, Kept

\* A sync that counts the news as seen has saved all of it.
LEMMA SyncKeeps ==
  ASSUME Ids!Sync
  PROVE  KeptInv'
  <1>1. SUFFICES ASSUME ~news', NEW i \in DOMAIN shared', shared'[i].ep # Nil PROVE Kept'[i] \in file'
        BY DEF KeptInv
  <1>2. shared' = shared
        BY DEF Ids!Sync
  <1>3. PICK saved \in BOOLEAN : (IF saved THEN file' = Ids!TakeIn ELSE file' = file) /\ news' = Ids!NewsAfter(saved)
        BY DEF Ids!Sync
  <1>4. file' = Ids!TakeIn
        BY <1>1, <1>3 DEF Ids!NewsAfter
  <1>5. shared[i] \in Ids!ToSet(shared)
        BY <1>1, <1>2 DEF Ids!ToSet
  <1>6. Kept[i] \in Ids!TakeIn
        BY <1>1, <1>2, <1>5 DEF Ids!TakeIn, Kept
  <1> QED BY <1>2, <1>4, <1>6 DEF Kept

\* Every step of the devices.
LEMMA KeptStep ==
  ASSUME KeptInv, [Ids!Next]_(Ids!devVars)
  PROVE  KeptInv'
  <1>0. UNCHANGED <<shared, news, file>> => KeptInv'
        BY DEF KeptInv, Kept
  <1>1. CASE UNCHANGED Ids!devVars
        BY <1>0, <1>1 DEF Ids!devVars
  <1>2. ASSUME NEW d \in Dev, Ids!Handle(d) PROVE KeptInv'
    <2> DEFINE m == Head(inbox[d])
    <2>1. file' = file
          BY <1>2 DEF Ids!Handle
    <2>2. CASE Ids!OnJoin(d, m)
          BY <2>1, <2>2, PublishKeeps DEF Ids!OnJoin
    <2>3. CASE Ids!OnAnnounced(d, m)
      <3>1. PICK rs : Ids!Publish(rs)
            BY <2>3 DEF Ids!OnAnnounced
      <3> QED BY <2>1, <3>1, PublishKeeps
    <2>4. CASE Ids!OnLeft(d, m) \/ Ids!OnDesc(d, m) \/ Ids!OnPress(d, m)
          BY <1>0, <2>1, <2>4 DEF Ids!OnLeft, Ids!OnDesc, Ids!OnPress
    <2> QED BY <1>2, <2>2, <2>3, <2>4 DEF Ids!Handle
  <1>3. CASE Ids!Tick
    <2>1. file' = file /\ \E rs : Ids!Publish(rs)
          BY <1>3 DEF Ids!Tick
    <2> QED BY <2>1, PublishKeeps
  <1>4. CASE Ids!Sync
        BY <1>4, SyncKeeps
  <1>5. CASE Ids!Panic \/ Ids!WindowEnds
        BY <1>0, <1>5 DEF Ids!Panic, Ids!WindowEnds, Ids!manager
  <1>6. ASSUME NEW d \in Dev, (\E node \in Node : Ids!Moves(d, node)) \/ Ids!Leaves(d) \/ (\E on \in BOOLEAN : Ids!Button(d, on))
        PROVE  KeptInv'
        BY <1>0, <1>6 DEF Ids!Moves, Ids!Leaves, Ids!Button, Ids!manager
  <1> QED BY <1>1, <1>2, <1>3, <1>4, <1>5, <1>6 DEF Ids!Next, Ids!Drives

\* It is the property.
LEMMA KeptIsKept ==
  ASSUME KeptInv
  PROVE  KeptWhenSettled
  <1>1. ASSUME shared = recs, ~news, NEW i \in DOMAIN recs, recs[i].ep # Nil
        PROVE  [eui |-> recs[i].eui, node |-> recs[i].node, type |-> recs[i].type] \in file
        BY <1>1 DEF KeptInv, Kept
  <1> QED BY <1>1 DEF KeptWhenSettled, Ids!KeptWhenSettled

-----------------------------------------------------------------------------
(* The devices: what is under way from each.                               *)

Moving == {"join", "announce", "left"}
IdMessage == [k : {"join", "announce", "left", "desc", "press"}, node : Node \cup {Nil}, what : {"light", "utility", Nil} \cup BOOLEAN]
IdRec == [eui : Dev, node : Node, type : {"unknown", "lamp", "remote"}, ep : {Nil, "light", "utility"}, tries : Nat]

\* The node ids named in a queue, and whether it has no join, announce or leave.
Names(box) == {box[i].node : i \in 1 .. Len(box)}
SettledBox(box) == \A i \in 1 .. Len(box) : box[i].k \notin Moving

\* What a device can have under way: a join comes with its announce, and the last of its moves
\* says where it is; its descriptors are of its own endpoints.
MessageFits(at, box, d, i) ==
    LET m == box[i] IN
    /\ m.k = "left" <=> m.node = Nil
    /\ m.k = "desc" => m.what \in MCEndpoints[d]
    /\ m.k = "press" => MCEndpoints[d] = {"utility"} /\ m.what \in BOOLEAN
    /\ m.k = "join" => i < Len(box) /\ box[i + 1].k = "announce"
    /\ m.k \in Moving /\ (\A j \in 1 .. Len(box) : j > i => box[j].k \notin Moving) => m.node = at
BoxFits(at, box, d) == box \in Seq(IdMessage) /\ \A i \in 1 .. Len(box) : MessageFits(at, box, d, i)

\* No two devices have a node id, and none is named by two.
Boxes(n, b) ==
    /\ n \in [Dev -> Node \cup {Nil}] /\ b \in [Dev -> Seq(IdMessage)]
    /\ \A d \in Dev : BoxFits(n[d], b[d], d)
    /\ \A d, e \in Dev : d # e =>
         /\ n[d] = n[e] => n[d] = Nil
         /\ n[e] # Nil => n[e] \notin Names(b[d])
         /\ Names(b[d]) \cap Names(b[e]) \subseteq {Nil}

\* The rest of a queue.
LEMMA BoxTail ==
  ASSUME NEW at, NEW d, NEW box, BoxFits(at, box, d), box # <<>>
  PROVE  /\ BoxFits(at, Tail(box), d) /\ Names(Tail(box)) \subseteq Names(box)
         /\ Head(box) \in IdMessage /\ Head(box).node \in Names(box)
         /\ Head(box).k = "left" => Head(box).node = Nil
         /\ Head(box).node = Nil => Head(box).k = "left"
         /\ Head(box).k = "desc" => Head(box).what \in MCEndpoints[d]
         /\ Head(box).k = "press" => MCEndpoints[d] = {"utility"}
         /\ Head(box).k = "join" => ~SettledBox(Tail(box))
         /\ Head(box).k \in Moving => ~SettledBox(box)
         /\ Head(box).k \in Moving /\ SettledBox(Tail(box)) => Head(box).node = at
         /\ Head(box).k \notin Moving => (SettledBox(Tail(box)) <=> SettledBox(box))
  <1> DEFINE rest == Tail(box)
  <1>1. /\ box \in Seq(IdMessage) /\ Len(box) \in Nat /\ Len(box) # 0 /\ 1 \in 1 .. Len(box) /\ Head(box) = box[1]
        /\ rest \in Seq(IdMessage) /\ Len(rest) = Len(box) - 1
        /\ \A i \in 1 .. Len(rest) : rest[i] = box[i + 1] /\ i + 1 \in 1 .. Len(box)
        /\ \A i \in 1 .. Len(box) : i = 1 \/ (i - 1 \in 1 .. Len(rest) /\ box[i] = rest[i - 1])
        BY DEF BoxFits
  <1>2. MessageFits(at, box, d, 1)
        BY <1>1 DEF BoxFits
  <1> HIDE DEF rest
  <1>3. ASSUME NEW i \in 1 .. Len(rest) PROVE MessageFits(at, rest, d, i)
    <2>1. MessageFits(at, box, d, i + 1) /\ rest[i] = box[i + 1]
          BY <1>1 DEF BoxFits
    <2>2. rest[i].k = "join" => i < Len(rest) /\ rest[i + 1].k = "announce"
      <3>1. rest[i].k = "join" => i + 1 < Len(box) /\ box[i + 2].k = "announce"
            BY <2>1 DEF MessageFits
      <3> QED BY <1>1, <3>1
    <2>3. ASSUME \A j \in 1 .. Len(rest) : j > i => rest[j].k \notin Moving, NEW j \in 1 .. Len(box), j > i + 1
          PROVE  box[j].k \notin Moving
      <3>1. j # 1 /\ j - 1 > i
            BY <1>1, <2>3
      <3>2. j - 1 \in 1 .. Len(rest) /\ box[j] = rest[j - 1]
            BY <1>1, <3>1
      <3> QED BY <2>3, <3>1, <3>2
    <2> QED BY <2>1, <2>2, <2>3 DEF MessageFits
  <1>4. Names(rest) \subseteq Names(box) /\ box[1].node \in Names(box)
        BY <1>1 DEF Names
  <1>5. box[1].k \in Moving => ~SettledBox(box)
        BY <1>1 DEF SettledBox
  <1>6. box[1].k = "join" => ~SettledBox(rest)
    <2>1. box[1].k = "join" => 1 \in 1 .. Len(rest) /\ rest[1].k = "announce"
          BY <1>1, <1>2 DEF MessageFits
    <2> QED BY <2>1 DEF SettledBox, Moving
  <1>7. box[1].k \in Moving /\ SettledBox(rest) => box[1].node = at
    <2>1. SettledBox(rest) => \A j \in 1 .. Len(box) : j > 1 => box[j].k \notin Moving
          BY <1>1 DEF SettledBox
    <2> QED BY <1>2, <2>1 DEF MessageFits
  <1>8. box[1].k \notin Moving => (SettledBox(rest) <=> SettledBox(box))
    <2>1. SettledBox(box) => SettledBox(rest)
          BY <1>1 DEF SettledBox
    <2>2. box[1].k \notin Moving /\ SettledBox(rest) => SettledBox(box)
          BY <1>1 DEF SettledBox
    <2> QED BY <2>1, <2>2
  <1>9. /\ box[1] \in IdMessage /\ (box[1].k = "left" <=> box[1].node = Nil)
        /\ box[1].k = "desc" => box[1].what \in MCEndpoints[d]
        /\ box[1].k = "press" => MCEndpoints[d] = {"utility"}
        BY <1>1, <1>2 DEF MessageFits
  <1> QED BY <1>1, <1>3, <1>4, <1>5, <1>6, <1>7, <1>8, <1>9 DEF BoxFits, rest

\* All but a leave name a node id.
LEMMA HeadNamed ==
  ASSUME NEW at, NEW d, NEW box, BoxFits(at, box, d), box # <<>>
  PROVE  Head(box).k = "left" <=> Head(box).node = Nil
  <1>1. Head(box).k = "left" => Head(box).node = Nil
        BY BoxTail
  <1>2. Head(box).node = Nil => Head(box).k = "left"
        BY BoxTail
  <1> QED BY <1>1, <1>2

\* A queue grows by descriptors or presses.
LEMMA BoxMore ==
  ASSUME NEW at \in Node, NEW d, NEW box, BoxFits(at, box, d), NEW more \in Seq(IdMessage),
         \A i \in 1 .. Len(more) :
            /\ more[i].node = at
            /\ \/ more[i].k = "desc" /\ more[i].what \in MCEndpoints[d]
               \/ more[i].k = "press" /\ MCEndpoints[d] = {"utility"} /\ more[i].what \in BOOLEAN
  PROVE  /\ BoxFits(at, box \o more, d) /\ Names(box \o more) \subseteq Names(box) \cup {at}
         /\ SettledBox(box \o more) <=> SettledBox(box)
  <1> DEFINE whole == box \o more
  <1>1. /\ box \in Seq(IdMessage) /\ Len(box) \in Nat /\ Len(more) \in Nat /\ whole \in Seq(IdMessage)
        /\ Len(whole) = Len(box) + Len(more)
        /\ \A i \in 1 .. Len(box) : i \in 1 .. Len(whole) /\ whole[i] = box[i]
        /\ \A i \in 1 .. Len(whole) : i \in 1 .. Len(box) \/ (i - Len(box) \in 1 .. Len(more) /\ whole[i] = more[i - Len(box)])
        BY DEF BoxFits
  <1> HIDE DEF whole
  <1>2. \A i \in 1 .. Len(more) : more[i].k \notin Moving /\ more[i].k # "left" /\ more[i].k # "join" /\ more[i].node # Nil
        BY DeviceAssumption DEF Moving
  <1>3. ASSUME NEW i \in 1 .. Len(whole) PROVE MessageFits(at, whole, d, i)
    <2>1. CASE i \in 1 .. Len(box)
      <3>1. MessageFits(at, box, d, i) /\ whole[i] = box[i]
            BY <1>1, <2>1 DEF BoxFits
      <3>2. box[i].k = "join" => i < Len(whole) /\ whole[i + 1].k = "announce"
            BY <1>1, <2>1, <3>1 DEF MessageFits
      <3>3. (\A j \in 1 .. Len(whole) : j > i => whole[j].k \notin Moving) => \A j \in 1 .. Len(box) : j > i => box[j].k \notin Moving
            BY <1>1
      <3> QED BY <3>1, <3>2, <3>3 DEF MessageFits
    <2>2. CASE i \notin 1 .. Len(box)
      <3>1. PICK j \in 1 .. Len(more) : whole[i] = more[j]
            BY <1>1, <2>2
      <3> QED BY <3>1, <1>2 DEF MessageFits
    <2> QED BY <2>1, <2>2
  <1>4. Names(whole) \subseteq Names(box) \cup {at}
    <2>1. ASSUME NEW i \in 1 .. Len(whole) PROVE whole[i].node \in Names(box) \cup {at}
      <3>1. CASE i \in 1 .. Len(box)
            BY <1>1, <3>1 DEF Names
      <3>2. CASE i \notin 1 .. Len(box)
            BY <1>1, <3>2
      <3> QED BY <3>1, <3>2
    <2> QED BY <2>1 DEF Names
  <1>5. SettledBox(whole) => SettledBox(box)
        BY <1>1 DEF SettledBox
  <1>6. SettledBox(box) => SettledBox(whole)
        BY <1>1, <1>2 DEF SettledBox
  <1> QED BY <1>1, <1>3, <1>4, <1>5, <1>6 DEF BoxFits, whole

\* A device moves: what it said before no longer says where it is.
LEMMA BoxMoved ==
  ASSUME NEW at, NEW was, NEW d, NEW box, BoxFits(was, box, d), NEW more, BoxFits(at, more, d), ~SettledBox(more)
  PROVE  /\ BoxFits(at, box \o more, d) /\ Names(box \o more) \subseteq Names(box) \cup Names(more)
         /\ ~SettledBox(box \o more)
  <1> DEFINE whole == box \o more
  <1>1. /\ box \in Seq(IdMessage) /\ Len(box) \in Nat /\ Len(more) \in Nat /\ whole \in Seq(IdMessage)
        /\ Len(whole) = Len(box) + Len(more)
        /\ \A i \in 1 .. Len(box) : i \in 1 .. Len(whole) /\ whole[i] = box[i]
        /\ \A i \in 1 .. Len(more) : i + Len(box) \in 1 .. Len(whole) /\ whole[i + Len(box)] = more[i]
        /\ \A i \in 1 .. Len(whole) : i \in 1 .. Len(box) \/ (i - Len(box) \in 1 .. Len(more) /\ whole[i] = more[i - Len(box)])
        BY DEF BoxFits
  <1> HIDE DEF whole
  <1>2. PICK last \in 1 .. Len(more) : more[last].k \in Moving
        BY DEF SettledBox
  <1>3. last + Len(box) \in 1 .. Len(whole) /\ whole[last + Len(box)].k \in Moving
        BY <1>1, <1>2
  <1>4. ASSUME NEW i \in 1 .. Len(whole) PROVE MessageFits(at, whole, d, i)
    <2>1. CASE i \in 1 .. Len(box)
      <3>1. MessageFits(was, box, d, i) /\ whole[i] = box[i]
            BY <1>1, <2>1 DEF BoxFits
      <3>2. box[i].k = "join" => i < Len(whole) /\ whole[i + 1].k = "announce"
        <4>1. SUFFICES ASSUME box[i].k = "join" PROVE i < Len(whole) /\ whole[i + 1].k = "announce"
              OBVIOUS
        <4>2. i < Len(box) /\ box[i + 1].k = "announce"
              BY <3>1, <4>1 DEF MessageFits
        <4>3. i + 1 \in 1 .. Len(box)
              BY <1>1, <2>1, <4>2
        <4> QED BY <1>1, <4>2, <4>3
      <3>3. last + Len(box) > i
            BY <1>1, <2>1
      <3>4. ~\A j \in 1 .. Len(whole) : j > i => whole[j].k \notin Moving
            BY <1>3, <3>3
      <3> QED BY <3>1, <3>2, <3>4 DEF MessageFits
    <2>2. CASE i \notin 1 .. Len(box)
      <3> DEFINE j == i - Len(box)
      <3>1. j \in 1 .. Len(more) /\ whole[i] = more[j] /\ j + Len(box) = i
            BY <1>1, <2>2
      <3>2. MessageFits(at, more, d, j)
            BY <3>1 DEF BoxFits
      <3>3. more[j].k = "join" => i < Len(whole) /\ whole[i + 1].k = "announce"
        <4>1. SUFFICES ASSUME more[j].k = "join" PROVE i < Len(whole) /\ whole[i + 1].k = "announce"
              OBVIOUS
        <4>2. j < Len(more) /\ more[j + 1].k = "announce"
              BY <3>2, <4>1 DEF MessageFits
        <4>3. j + 1 \in 1 .. Len(more) /\ i + 1 = (j + 1) + Len(box)
              BY <1>1, <3>1, <4>2
        <4>4. whole[i + 1] = more[j + 1] /\ i < Len(whole)
              BY <1>1, <3>1, <4>2, <4>3
        <4> QED BY <4>2, <4>4
      <3>4. ASSUME \A o \in 1 .. Len(whole) : o > i => whole[o].k \notin Moving, NEW o \in 1 .. Len(more), o > j
            PROVE  more[o].k \notin Moving
        <4>1. o + Len(box) \in 1 .. Len(whole) /\ o + Len(box) > i /\ whole[o + Len(box)] = more[o]
              BY <1>1, <3>1, <3>4
        <4> QED BY <3>4, <4>1
      <3> HIDE DEF j
      <3> QED BY <3>1, <3>2, <3>3, <3>4 DEF MessageFits
    <2> QED BY <2>1, <2>2
  <1>5. Names(whole) \subseteq Names(box) \cup Names(more)
    <2>1. ASSUME NEW i \in 1 .. Len(whole) PROVE whole[i].node \in Names(box) \cup Names(more)
      <3>1. CASE i \in 1 .. Len(box)
            BY <1>1, <3>1 DEF Names
      <3>2. CASE i \notin 1 .. Len(box)
            BY <1>1, <3>2 DEF Names
      <3> QED BY <3>1, <3>2
    <2> QED BY <2>1 DEF Names
  <1>6. ~SettledBox(whole)
        BY <1>3 DEF SettledBox
  <1> QED BY <1>1, <1>4, <1>5, <1>6 DEF BoxFits, whole

\* What a join and a leave say.
LEMMA MovesFit ==
  ASSUME NEW d, NEW node \in Node
  PROVE  /\ LET says == <<[k |-> "join", node |-> node, what |-> Nil], [k |-> "announce", node |-> node, what |-> Nil]>>
            IN  BoxFits(node, says, d) /\ Names(says) = {node} /\ ~SettledBox(says)
         /\ LET says == <<[k |-> "left", node |-> Nil, what |-> Nil]>>
            IN  BoxFits(Nil, says, d) /\ Names(says) = {Nil} /\ ~SettledBox(says)
  <1> DEFINE join == [k |-> "join", node |-> node, what |-> Nil]
             announce == [k |-> "announce", node |-> node, what |-> Nil]
             left == [k |-> "left", node |-> Nil, what |-> Nil]
  <1>1. /\ join \in IdMessage /\ announce \in IdMessage /\ left \in IdMessage
        /\ join.k = "join" /\ announce.k = "announce" /\ left.k = "left"
        /\ join.node = node /\ announce.node = node /\ left.node = Nil /\ node # Nil
        BY DeviceAssumption DEF IdMessage
  <1> HIDE DEF join, announce, left
  <1>2. BoxFits(node, <<join, announce>>, d) /\ Names(<<join, announce>>) = {node} /\ ~SettledBox(<<join, announce>>)
    <2> DEFINE says == <<join, announce>>
    <2>1. says \in Seq(IdMessage) /\ Len(says) = 2 /\ 1 .. 2 = {1, 2} /\ says[1] = join /\ says[2] = announce
          BY <1>1
    <2> HIDE DEF says
    <2>2. MessageFits(node, says, d, 1)
          BY <1>1, <2>1 DEF MessageFits, Moving
    <2>3. MessageFits(node, says, d, 2)
          BY <1>1, <2>1 DEF MessageFits, Moving
    <2>4. BoxFits(node, says, d)
          BY <2>1, <2>2, <2>3 DEF BoxFits
    <2>5. Names(says) = {node} /\ ~SettledBox(says)
          BY <1>1, <2>1 DEF Names, SettledBox, Moving
    <2> QED BY <2>4, <2>5 DEF says
  <1>3. BoxFits(Nil, <<left>>, d) /\ Names(<<left>>) = {Nil} /\ ~SettledBox(<<left>>)
    <2> DEFINE says == <<left>>
    <2>1. says \in Seq(IdMessage) /\ Len(says) = 1 /\ 1 .. 1 = {1} /\ says[1] = left
          BY <1>1
    <2> HIDE DEF says
    <2>2. MessageFits(Nil, says, d, 1)
          BY <1>1, <2>1 DEF MessageFits, Moving
    <2> QED BY <1>1, <2>1, <2>2 DEF BoxFits, Names, SettledBox, Moving, says
  <1> QED BY <1>2, <1>3 DEF join, announce, left

\* One device's queue and place change: another's place and ids are its own.
LEMMA BoxesChange ==
  ASSUME NEW n, NEW b, Boxes(n, b), NEW d \in Dev, NEW at \in Node \cup {Nil}, NEW box, BoxFits(at, box, d),
         Names(box) \subseteq Names(b[d]) \cup {at, Nil},
         \A e \in Dev : e # d /\ at # Nil => n[e] # at /\ at \notin Names(b[e])
  PROVE  Boxes([n EXCEPT ![d] = at], [b EXCEPT ![d] = box])
  <1> DEFINE o == [n EXCEPT ![d] = at]
             c == [b EXCEPT ![d] = box]
  <1>1. /\ o \in [Dev -> Node \cup {Nil}] /\ c \in [Dev -> Seq(IdMessage)] /\ o[d] = at /\ c[d] = box
        /\ \A e \in Dev : e # d => o[e] = n[e] /\ c[e] = b[e]
        BY DEF Boxes, BoxFits
  <1> HIDE DEF o, c
  <1>2. \A e \in Dev : BoxFits(o[e], c[e], e)
        BY <1>1 DEF Boxes
  <1>3. ASSUME NEW e \in Dev, NEW f \in Dev, e # f
        PROVE  /\ o[e] = o[f] => o[e] = Nil
               /\ o[f] # Nil => o[f] \notin Names(c[e])
               /\ Names(c[e]) \cap Names(c[f]) \subseteq {Nil}
    <2>1. CASE e # d /\ f # d
          BY <1>1, <1>3, <2>1 DEF Boxes
    <2>2. CASE e = d
      <3>1. f # d /\ o[f] = n[f] /\ c[f] = b[f]
            BY <1>1, <1>3, <2>2
      <3>2. n[f] # Nil => n[f] \notin Names(b[d])
            BY <3>1 DEF Boxes
      <3>3. Names(b[d]) \cap Names(b[f]) \subseteq {Nil}
            BY <3>1 DEF Boxes
      <3> QED BY <1>1, <2>2, <3>1, <3>2, <3>3
    <2>3. CASE f = d
      <3>1. e # d /\ o[e] = n[e] /\ c[e] = b[e]
            BY <1>1, <1>3, <2>3
      <3>2. Names(b[d]) \cap Names(b[e]) \subseteq {Nil}
            BY <3>1 DEF Boxes
      <3> QED BY <1>1, <2>3, <3>1, <3>2
    <2> QED BY <2>1, <2>2, <2>3
  <1>4. Boxes(o, c)
        BY <1>1, <1>2, <1>3 DEF Boxes
  <1> QED BY <1>4 DEF o, c

\* The same, of a device that stays.
LEMMA BoxChange ==
  ASSUME NEW n, NEW b, Boxes(n, b), NEW d \in Dev, NEW box, BoxFits(n[d], box, d),
         Names(box) \subseteq Names(b[d]) \cup {n[d], Nil}
  PROVE  Boxes(n, [b EXCEPT ![d] = box])
  <1>1. n[d] \in Node \cup {Nil} /\ n = [n EXCEPT ![d] = n[d]]
        BY DEF Boxes
  <1>2. \A e \in Dev : e # d /\ n[d] # Nil => n[e] # n[d] /\ n[d] \notin Names(b[e])
        BY DEF Boxes
  <1> QED BY <1>1, <1>2, BoxesChange

\* A callback taken off a queue.
LEMMA BoxesTail ==
  ASSUME NEW n, NEW b, Boxes(n, b), NEW d \in Dev, b[d] # <<>>
  PROVE  /\ Boxes(n, Ids!Without(b, d)) /\ Ids!Without(b, d)[d] = Tail(b[d])
         /\ \A e \in Dev : e # d => Ids!Without(b, d)[e] = b[e]
  <1>1. BoxFits(n[d], Tail(b[d]), d) /\ Names(Tail(b[d])) \subseteq Names(b[d])
        BY BoxTail DEF Boxes
  <1>2. Boxes(n, [b EXCEPT ![d] = Tail(b[d])])
        BY <1>1, BoxChange
  <1>3. Ids!Without(b, d) = [b EXCEPT ![d] = Tail(b[d])]
        BY DEF Ids!Without, Boxes
  <1> QED BY <1>2, <1>3 DEF Boxes

\* An interview asks the device with the node id for what it is.
LEMMA DiscoverKeeps ==
  ASSUME NEW rs, NEW node \in Node, NEW b, Boxes(net, b), NEW c \in Ids!Discover(rs, node, b)
  PROVE  Boxes(net, c) /\ \A e \in Dev : SettledBox(c[e]) <=> SettledBox(b[e])
  <1>1. CASE c = b
        BY <1>1
  <1>2. ASSUME NEW d \in Dev, net[d] = node, NEW order \in Ids!SetToSeqs(MCEndpoints[d]),
               c = [b EXCEPT ![d] = @ \o [k \in DOMAIN order |-> [k |-> "desc", node |-> node, what |-> order[k]]]]
        PROVE  Boxes(net, c) /\ \A e \in Dev : SettledBox(c[e]) <=> SettledBox(b[e])
    <2> DEFINE more == [k \in DOMAIN order |-> [k |-> "desc", node |-> node, what |-> order[k]]]
    <2>1. PICK what \in {"light", "utility"} : MCEndpoints[d] = {what}
          BY DEF MCEndpoints
    <2>2. \A S : Ids!Cardinality(S) = Cardinality(S)
          BY Zenon DEF Ids!Cardinality, Cardinality
    <2>3. Cardinality({what}) = 1
          BY FS_Singleton, Zenon
    <2>4. order \in [1 .. 1 -> {what}]
      <3>1. order \in [1 .. Cardinality({what}) -> {what}]
            BY <2>1, <2>2 DEF Ids!SetToSeqs
      <3> QED BY <2>3, <3>1
    <2>5. more \in Seq(IdMessage) /\ \A i \in 1 .. Len(more) : more[i].node = node /\ more[i].k = "desc" /\ more[i].what = what
      <3>1. \A k \in 1 .. 1 : [k |-> "desc", node |-> node, what |-> order[k]] \in IdMessage /\ order[k] = what
            BY <2>4 DEF IdMessage
      <3> HIDE DEF IdMessage
      <3>2. more \in [1 .. 1 -> IdMessage]
            BY <2>4, <3>1
      <3>3. \A i \in 1 .. 1 : more[i].node = node /\ more[i].k = "desc" /\ more[i].what = what
            BY <2>4, <3>1
      <3> HIDE DEF more
      <3>4. \A S : \A k \in Nat : \A f \in [1 .. k -> S] : f \in Seq(S) /\ Len(f) = k
            OBVIOUS
      <3>5. more \in Seq(IdMessage) /\ Len(more) = 1
            BY <3>2, <3>4
      <3> QED BY <3>3, <3>5
    <2> HIDE DEF more
    <2>6. b[d] \in Seq(IdMessage) /\ BoxFits(node, b[d], d)
          BY <1>2 DEF Boxes
    <2>7. /\ BoxFits(node, b[d] \o more, d) /\ Names(b[d] \o more) \subseteq Names(b[d]) \cup {node}
          /\ SettledBox(b[d] \o more) <=> SettledBox(b[d])
          BY <2>1, <2>5, <2>6, BoxMore
    <2>8. c = [b EXCEPT ![d] = b[d] \o more]
          BY <1>2 DEF more
    <2>9. Boxes(net, c)
      <3>1. BoxFits(net[d], b[d] \o more, d) /\ Names(b[d] \o more) \subseteq Names(b[d]) \cup {net[d], Nil}
            BY <1>2, <2>7
      <3> HIDE DEF Boxes
      <3>2. Boxes(net, [b EXCEPT ![d] = b[d] \o more])
            BY <3>1, BoxChange
      <3> QED BY <2>8, <3>2
    <2> QED BY <2>7, <2>8, <2>9 DEF Boxes
  <1> DEFINE who == {d \in Dev : net[d] = node}
  <1>3. CASE c # b
    <2>1. /\ who # {}
          /\ LET d == CHOOSE d \in who : TRUE
             IN  c \in {[b EXCEPT ![d] = @ \o [k \in DOMAIN order |-> [k |-> "desc", node |-> node, what |-> order[k]]]]
                        : order \in Ids!SetToSeqs(MCEndpoints[d])}
          BY <1>3 DEF Ids!Discover
    <2>2. (CHOOSE d \in who : TRUE) \in who
          BY <2>1
    <2>3. PICK d \in Dev : net[d] = node /\ c \in {[b EXCEPT ![d] = @ \o [k \in DOMAIN order |-> [k |-> "desc", node |-> node, what |-> order[k]]]]
                        : order \in Ids!SetToSeqs(MCEndpoints[d])}
          BY <2>1, <2>2
    <2> QED BY <2>3, <1>2
  <1> QED BY <1>1, <1>3

-----------------------------------------------------------------------------
(* The devices: their records.                                             *)

\* A set of positions has a first one.
LEMMA First ==
  ASSUME NEW K \in SUBSET Nat, IsFiniteSet(K), K # {}
  PROVE  \E i \in K : \A j \in K : i <= j
  <1>1. Cardinality(K) \in Nat /\ Cardinality(K) # 0
        BY FS_CardinalityType, FS_EmptySet
  <1>2. PICK i \in K : Cardinality(UpToHere(K, i)) = 1
        BY <1>1, Ranks
  <1>3. ASSUME NEW j \in K, j < i PROVE FALSE
    <2>1. Cardinality(UpToHere(K, j)) < 1 /\ Cardinality(UpToHere(K, j)) \in 1 .. Cardinality(K)
          BY <1>2, <1>3, Ranks
    <2> QED BY <1>1, <2>1
  <1>4. \A j \in K : i <= j
        BY <1>3
  <1> QED BY <1>4

\* The record looked for, by node id or by EUI64, is one that has it; 0 if none has.
LEMMA Found ==
  ASSUME NEW rs \in Seq(IdRec), NEW node, NEW eui
  PROVE  /\ Ids!At(rs, node) = 0 => \A i \in 1 .. Len(rs) : rs[i].node # node
         /\ Ids!At(rs, node) # 0 => Ids!At(rs, node) \in 1 .. Len(rs) /\ rs[Ids!At(rs, node)].node = node
         /\ Ids!OfEui(rs, eui) = 0 => \A i \in 1 .. Len(rs) : rs[i].eui # eui
         /\ Ids!OfEui(rs, eui) # 0 => Ids!OfEui(rs, eui) \in 1 .. Len(rs) /\ rs[Ids!OfEui(rs, eui)].eui = eui
  <1>1. DOMAIN rs = 1 .. Len(rs) /\ Len(rs) \in Nat /\ 0 \notin 1 .. Len(rs)
        OBVIOUS
  <1>2. ASSUME NEW K \in SUBSET (1 .. Len(rs)), K # {}
        PROVE  (CHOOSE i \in K : \A j \in K : i <= j) \in K
    <2>1. IsFiniteSet(1 .. Len(rs))
          BY <1>1, FS_Interval
    <2>2. IsFiniteSet(K)
          BY <2>1, FS_Subset
    <2>3. K \in SUBSET Nat
          BY <1>1
    <2>4. \E i \in K : \A j \in K : i <= j
          BY <1>2, <2>2, <2>3, First
    <2> QED BY <2>4
  <1>3. /\ Ids!At(rs, node) = 0 => \A i \in 1 .. Len(rs) : rs[i].node # node
        /\ Ids!At(rs, node) # 0 => Ids!At(rs, node) \in 1 .. Len(rs) /\ rs[Ids!At(rs, node)].node = node
    <2> DEFINE found == {i \in DOMAIN rs : rs[i].node = node}
    <2>1. Ids!At(rs, node) = IF found = {} THEN 0 ELSE CHOOSE i \in found : \A j \in found : i <= j
          BY DEF Ids!At
    <2>2. found \in SUBSET (1 .. Len(rs)) /\ (found = {} => \A i \in 1 .. Len(rs) : rs[i].node # node)
          /\ \A i \in found : rs[i].node = node
          BY <1>1
    <2> HIDE DEF found
    <2> QED BY <1>1, <1>2, <2>1, <2>2
  <1>4. /\ Ids!OfEui(rs, eui) = 0 => \A i \in 1 .. Len(rs) : rs[i].eui # eui
        /\ Ids!OfEui(rs, eui) # 0 => Ids!OfEui(rs, eui) \in 1 .. Len(rs) /\ rs[Ids!OfEui(rs, eui)].eui = eui
    <2> DEFINE found == {i \in DOMAIN rs : rs[i].eui = eui}
    <2>1. Ids!OfEui(rs, eui) = IF found = {} THEN 0 ELSE CHOOSE i \in found : \A j \in found : i <= j
          BY DEF Ids!OfEui
    <2>2. found \in SUBSET (1 .. Len(rs)) /\ (found = {} => \A i \in 1 .. Len(rs) : rs[i].eui # eui)
          /\ \A i \in found : rs[i].eui = eui
          BY <1>1
    <2> HIDE DEF found
    <2> QED BY <1>1, <1>2, <2>1, <2>2
  <1> QED BY <1>3, <1>4

Right(d) == IF "light" \in MCEndpoints[d] THEN "lamp" ELSE "remote"
Distinct(rs) == \A i, j \in 1 .. Len(rs) : rs[i].eui = rs[j].eui => i = j

\* A device nothing is under way of that moves it is listed where it is, as what it is.
RecFits(at, box, mis, d, rs) ==
    SettledBox(box) =>
        /\ at # Nil => \E i \in 1 .. Len(rs) : rs[i].eui = d
        /\ \A i \in 1 .. Len(rs) : rs[i].eui = d =>
             /\ rs[i].node = at
             /\ d \notin mis /\ rs[i].ep # Nil => rs[i].type = Right(d)

Listed(n, b, rs, mis) ==
    /\ Boxes(n, b) /\ rs \in Seq(IdRec) /\ Distinct(rs)
    /\ \A d \in Dev : RecFits(n[d], b[d], mis, d, rs)

RecordsInv == panics = 0 => Listed(net, inbox, recs, misread)

\* A device heard joining is listed where it says; of the others only one that had the node id
\* is not listed any more.
LEMMA Ensured ==
  ASSUME recs \in Seq(IdRec), Distinct(recs), NEW d \in Dev, NEW node \in Node, NEW rs, rs = Ids!Ensure(node, d)
  PROVE  /\ rs \in Seq(IdRec) /\ Distinct(rs)
         /\ \E i \in 1 .. Len(rs) : rs[i].eui = d /\ rs[i].node = node
         /\ \A i \in 1 .. Len(rs) : rs[i].eui # d => i \in 1 .. Len(recs) /\ recs[i] = rs[i]
         /\ \A i \in 1 .. Len(recs) : recs[i].eui # d /\ recs[i].node # node => i \in 1 .. Len(rs) /\ rs[i] = recs[i]
  <1> DEFINE i == IF Ids!OfEui(recs, d) # 0 THEN Ids!OfEui(recs, d) ELSE Ids!At(recs, node)
  <1>1. CASE i = 0
    <2>1. rs = Append(recs, Ids!Rec(d, node)) /\ Ids!OfEui(recs, d) = 0
          BY <1>1 DEF Ids!Ensure
    <2>2. \A j \in 1 .. Len(recs) : recs[j].eui # d
          BY <2>1, Found
    <2>3. Ids!Rec(d, node) \in IdRec /\ Ids!Rec(d, node).eui = d /\ Ids!Rec(d, node).node = node
          BY DEF Ids!Rec, IdRec
    <2> HIDE DEF IdRec
    <2>4. /\ rs \in Seq(IdRec) /\ Len(rs) = Len(recs) + 1 /\ rs[Len(recs) + 1] = Ids!Rec(d, node)
          /\ \A j \in 1 .. Len(recs) : rs[j] = recs[j]
          BY <2>1, <2>3
    <2>5. \A j \in 1 .. Len(rs) : j \in 1 .. Len(recs) \/ j = Len(recs) + 1
          BY <2>4
    <2>6. Distinct(rs)
          BY <2>2, <2>3, <2>4, <2>5 DEF Distinct
    <2> QED BY <2>2, <2>3, <2>4, <2>5, <2>6
  <1>2. CASE i # 0
    <2> DEFINE r == [recs[i] EXCEPT !.node = node, !.eui = d, !.tries = IF recs[i].ep = Nil THEN 0 ELSE @]
    <2>0. i \in 1 .. Len(recs) /\ (\A j \in 1 .. Len(recs) : j # i => recs[j].eui # d) /\ (recs[i].eui = d \/ recs[i].node = node)
      <3>1. CASE Ids!OfEui(recs, d) # 0
            BY <3>1, Found DEF Distinct
      <3>2. CASE Ids!OfEui(recs, d) = 0
            BY <3>2, <1>2, Found
      <3> QED BY <3>1, <3>2
    <2>1. rs = [recs EXCEPT ![i] = r]
      <3>1. rs = [recs EXCEPT ![i].node = node, ![i].eui = d, ![i].tries = IF recs[i].ep = Nil THEN 0 ELSE @]
            BY <1>2 DEF Ids!Ensure
      <3> HIDE DEF i
      <3> QED BY <2>0, <3>1
    <2>2. r \in IdRec /\ r.eui = d /\ r.node = node
      <3> HIDE DEF i
      <3>1. recs[i] \in IdRec
            BY <2>0
      <3> QED BY <3>1 DEF IdRec
    <2> HIDE DEF i, r, IdRec
    <2>3. /\ rs \in Seq(IdRec) /\ Len(rs) = Len(recs) /\ rs[i] = r
          /\ \A j \in 1 .. Len(recs) : j # i => rs[j] = recs[j]
          BY <2>0, <2>1, <2>2
    <2>4. Distinct(rs)
          BY <2>0, <2>2, <2>3 DEF Distinct
    <2> QED BY <2>0, <2>2, <2>3, <2>4
  <1> QED BY <1>1, <1>2

\* The callback being handled, and what is left.
LEMMA Handled ==
  ASSUME NEW mis, Listed(net, inbox, recs, mis), NEW d \in Dev, inbox[d] # <<>>
  PROVE  LET m == Head(inbox[d])
             box == Tail(inbox[d])
             rest == Ids!Without(inbox, d)
         IN  /\ Boxes(net, rest) /\ rest[d] = box /\ \A e \in Dev : e # d => rest[e] = inbox[e]
             /\ m \in IdMessage /\ (m.k = "left" <=> m.node = Nil)
             /\ m.k = "desc" => m.what \in MCEndpoints[d]
             /\ m.k = "press" => MCEndpoints[d] = {"utility"}
             /\ m.k = "join" => ~SettledBox(box)
             /\ m.k \in Moving => ~SettledBox(inbox[d])
             /\ m.k \in Moving /\ SettledBox(box) => m.node = net[d]
             /\ m.k \notin Moving => (SettledBox(box) <=> SettledBox(inbox[d]))
             /\ m.node # Nil => \A e \in Dev : e # d => net[e] # m.node
  <1> DEFINE m == Head(inbox[d])
             rest == Ids!Without(inbox, d)
  <1>1. Boxes(net, inbox) /\ BoxFits(net[d], inbox[d], d)
        BY DEF Listed, Boxes
  <1>2. Boxes(net, rest) /\ rest[d] = Tail(inbox[d]) /\ \A e \in Dev : e # d => rest[e] = inbox[e]
        BY <1>1, BoxesTail
  <1>3. m.node \in Names(inbox[d])
        BY <1>1, BoxTail
  <1>4. m.node # Nil => \A e \in Dev : e # d => net[e] # m.node
        BY <1>1, <1>3 DEF Boxes
  <1> HIDE DEF m, rest
  <1>5. /\ m \in IdMessage /\ (m.k = "left" <=> m.node = Nil)
        /\ m.k = "desc" => m.what \in MCEndpoints[d]
        /\ m.k = "press" => MCEndpoints[d] = {"utility"}
        /\ m.k = "join" => ~SettledBox(Tail(inbox[d]))
        /\ m.k \in Moving => ~SettledBox(inbox[d])
        /\ m.k \in Moving /\ SettledBox(Tail(inbox[d])) => m.node = net[d]
        /\ m.k \notin Moving => (SettledBox(Tail(inbox[d])) <=> SettledBox(inbox[d]))
    <2> DEFINE box == inbox[d]
    <2>1. BoxFits(net[d], box, d) /\ box # <<>> /\ m = Head(box)
          BY <1>1 DEF m
    <2> HIDE DEF box
    <2>2. Head(box) \in IdMessage
          BY <2>1, BoxTail
    <2>4. Head(box).k = "left" <=> Head(box).node = Nil
          BY <2>1, HeadNamed
    <2>5. /\ Head(box).k = "desc" => Head(box).what \in MCEndpoints[d]
          /\ Head(box).k = "press" => MCEndpoints[d] = {"utility"}
          BY <2>1, BoxTail
    <2>3. /\ Head(box).k = "join" => ~SettledBox(Tail(box))
          /\ Head(box).k \in Moving => ~SettledBox(box)
          /\ Head(box).k \in Moving /\ SettledBox(Tail(box)) => Head(box).node = net[d]
          /\ Head(box).k \notin Moving => (SettledBox(Tail(box)) <=> SettledBox(box))
          BY <2>1, BoxTail
    <2> QED BY <2>1, <2>2, <2>3, <2>4, <2>5 DEF box
  <1> QED BY <1>2, <1>4, <1>5 DEF m, rest

\* A device still fits when each of its records was one of its own, at the same node id and as
\* what it was.
LEMMA OtherKeeps ==
  ASSUME NEW e, NEW at, NEW box, NEW mis, NEW rs, RecFits(at, box, mis, e, recs),
         NEW boxAfter, NEW misAfter, SettledBox(boxAfter) => SettledBox(box), e \in mis => e \in misAfter,
         \A i \in 1 .. Len(rs) : rs[i].eui = e => \E j \in 1 .. Len(recs) :
              /\ recs[j].eui = e /\ recs[j].node = rs[i].node
              /\ rs[i].ep # Nil => recs[j].ep # Nil /\ recs[j].type = rs[i].type,
         at # Nil => \A j \in 1 .. Len(recs) : recs[j].eui = e /\ recs[j].node = at => \E i \in 1 .. Len(rs) : rs[i].eui = e
  PROVE  RecFits(at, boxAfter, misAfter, e, rs)
  BY DEF RecFits

\* A join.
LEMMA JoinKeeps ==
  ASSUME Listed(net, inbox, recs, misread), NEW d \in Dev, inbox[d] # <<>>, Ids!OnJoin(d, Head(inbox[d]))
  PROVE  Listed(net, inbox', recs', misread')
  <1> DEFINE m == Head(inbox[d])
             rest == Ids!Without(inbox, d)
  <1>1. /\ Boxes(net, rest) /\ rest[d] = Tail(inbox[d]) /\ (\A e \in Dev : e # d => rest[e] = inbox[e])
        /\ m \in IdMessage /\ ~SettledBox(rest[d]) /\ m.node # Nil /\ \A e \in Dev : e # d => net[e] # m.node
        BY Handled DEF Ids!OnJoin
  <1>2. m.node \in Node
        BY <1>1 DEF IdMessage
  <1>3. recs' = Ids!Ensure(m.node, d) /\ inbox' \in Ids!Discover(recs', m.node, rest) /\ misread' = misread
        BY DEF Ids!OnJoin
  <1> HIDE DEF m, rest
  <1>4. /\ recs' \in Seq(IdRec) /\ Distinct(recs')
        /\ \A i \in 1 .. Len(recs') : recs'[i].eui # d => i \in 1 .. Len(recs) /\ recs[i] = recs'[i]
        /\ \A i \in 1 .. Len(recs) : recs[i].eui # d /\ recs[i].node # m.node => i \in 1 .. Len(recs') /\ recs'[i] = recs[i]
        BY <1>2, <1>3, Ensured DEF Listed
  <1>5. Boxes(net, inbox') /\ \A e \in Dev : SettledBox(inbox'[e]) <=> SettledBox(rest[e])
        BY <1>1, <1>2, <1>3, DiscoverKeeps
  <1>6. ASSUME NEW e \in Dev PROVE RecFits(net[e], inbox'[e], misread', e, recs')
    <2>1. CASE e = d
          BY <1>1, <1>5, <2>1 DEF RecFits
    <2>2. CASE e # d
      <3>1. RecFits(net[e], inbox[e], misread, e, recs) /\ (SettledBox(inbox'[e]) => SettledBox(inbox[e])) /\ net[e] # m.node
            BY <1>1, <1>5, <2>2 DEF Listed
      <3> QED BY <1>3, <1>4, <2>2, <3>1, OtherKeeps
    <2> QED BY <2>1, <2>2
  <1> QED BY <1>4, <1>5, <1>6 DEF Listed

\* An announce: its device is listed where it says, and one record with that node id is
\* unclassified.
LEMMA AnnounceKeeps ==
  ASSUME Listed(net, inbox, recs, misread), NEW d \in Dev, inbox[d] # <<>>, Ids!OnAnnounced(d, Head(inbox[d]))
  PROVE  Listed(net, inbox', recs', misread')
  <1> DEFINE m == Head(inbox[d])
             rest == Ids!Without(inbox, d)
             rs == Ids!Ensure(m.node, d)
             i == Ids!At(rs, m.node)
             fresh == IF rs[i].ep = Nil THEN rs ELSE [rs EXCEPT ![i] = Ids!Rec(rs[i].eui, rs[i].node)]
  <1>1. /\ Boxes(net, rest) /\ rest[d] = Tail(inbox[d]) /\ (\A e \in Dev : e # d => rest[e] = inbox[e])
        /\ m \in IdMessage /\ m.node # Nil /\ \A e \in Dev : e # d => net[e] # m.node
        /\ SettledBox(rest[d]) => m.node = net[d]
        BY Handled DEF Ids!OnAnnounced, Moving
  <1>2. m.node \in Node
        BY <1>1 DEF IdMessage
  <1>3. /\ recs' = fresh /\ inbox' \in Ids!Discover(fresh, m.node, rest)
        /\ misread' = IF rs[i].eui = d THEN misread \ {d} ELSE misread \cup {d}
        BY DEF Ids!OnAnnounced
  <1> HIDE DEF m, rest
  <1>4. /\ rs \in Seq(IdRec) /\ Distinct(rs)
        /\ \E j \in 1 .. Len(rs) : rs[j].eui = d /\ rs[j].node = m.node
        /\ \A j \in 1 .. Len(rs) : rs[j].eui # d => j \in 1 .. Len(recs) /\ recs[j] = rs[j]
        /\ \A j \in 1 .. Len(recs) : recs[j].eui # d /\ recs[j].node # m.node => j \in 1 .. Len(rs) /\ rs[j] = recs[j]
        BY <1>2, Ensured DEF Listed
  <1> HIDE DEF rs
  <1>5. i \in 1 .. Len(rs) /\ rs[i].node = m.node
    <2>1. i # 0
          BY <1>4, Found
    <2> QED BY <1>4, <2>1, Found
  <1> HIDE DEF i
  <1>6. /\ fresh \in Seq(IdRec) /\ Len(fresh) = Len(rs)
        /\ \A j \in 1 .. Len(rs) : fresh[j].eui = rs[j].eui /\ fresh[j].node = rs[j].node /\ (fresh[j].ep # Nil => fresh[j] = rs[j])
        /\ fresh[i].ep = Nil
    <2>1. CASE rs[i].ep = Nil
          BY <1>4, <2>1
    <2>2. CASE rs[i].ep # Nil
      <3> DEFINE r == Ids!Rec(rs[i].eui, rs[i].node)
      <3>1. rs[i] \in IdRec /\ fresh = [rs EXCEPT ![i] = r]
            BY <1>4, <1>5, <2>2
      <3>2. r \in IdRec /\ r.eui = rs[i].eui /\ r.node = rs[i].node /\ r.ep = Nil
            BY <3>1 DEF IdRec, Ids!Rec
      <3> HIDE DEF r, fresh, IdRec
      <3>3. fresh \in Seq(IdRec) /\ Len(fresh) = Len(rs) /\ fresh[i] = r /\ \A j \in 1 .. Len(rs) : j # i => fresh[j] = rs[j]
            BY <1>4, <1>5, <3>1, <3>2
      <3> QED BY <3>2, <3>3
    <2> QED BY <2>1, <2>2
  <1> HIDE DEF fresh
  <1>7. Boxes(net, inbox') /\ \A e \in Dev : SettledBox(inbox'[e]) <=> SettledBox(rest[e])
        BY <1>1, <1>2, <1>3, DiscoverKeeps
  <1>8. Distinct(fresh)
        BY <1>4, <1>6 DEF Distinct
  <1>9. ASSUME NEW e \in Dev PROVE RecFits(net[e], inbox'[e], misread', e, fresh)
    <2>1. CASE e = d
      <3>1. SUFFICES ASSUME SettledBox(inbox'[d]) PROVE RecFits(net[d], inbox'[d], misread', d, fresh)
            BY <2>1 DEF RecFits
      <3>2. m.node = net[d]
            BY <1>1, <1>7, <3>1
      <3>3. PICK j \in 1 .. Len(rs) : rs[j].eui = d /\ rs[j].node = m.node
            BY <1>4
      <3>4. \A o \in 1 .. Len(rs) : rs[o].eui = d => o = j
            BY <1>4, <3>3 DEF Distinct
      <3>5. d \notin misread' => i = j
            BY <1>3, <1>5, <3>4
      <3>6. \A o \in 1 .. Len(fresh) : fresh[o].eui = d => fresh[o].node = net[d] /\ (d \notin misread' => fresh[o].ep = Nil)
            BY <1>6, <3>2, <3>3, <3>4, <3>5
      <3> QED BY <1>6, <3>3, <3>6 DEF RecFits
    <2>2. CASE e # d
      <3>1. RecFits(net[e], inbox[e], misread, e, recs) /\ (SettledBox(inbox'[e]) => SettledBox(inbox[e])) /\ net[e] # m.node
            BY <1>1, <1>7, <2>2 DEF Listed
      <3>2. e \in misread => e \in misread'
            BY <1>3, <2>2
      <3>3. \A o \in 1 .. Len(fresh) : fresh[o].eui = e => \E j \in 1 .. Len(recs) :
              /\ recs[j].eui = e /\ recs[j].node = fresh[o].node
              /\ fresh[o].ep # Nil => recs[j].ep # Nil /\ recs[j].type = fresh[o].type
            BY <1>4, <1>6, <2>2
      <3>4. \A j \in 1 .. Len(recs) : recs[j].eui = e /\ recs[j].node = net[e] => \E o \in 1 .. Len(fresh) : fresh[o].eui = e
            BY <1>4, <1>6, <2>2, <3>1
      <3> QED BY <3>1, <3>2, <3>3, <3>4, OtherKeeps
    <2> QED BY <2>1, <2>2
  <1> QED BY <1>3, <1>6, <1>7, <1>8, <1>9 DEF Listed

\* The helper is the same in the devices' module.
LEMMA IdsPicked ==
  ASSUME NEW s, NEW K
  PROVE  Ids!Picked(s, K) = Picked(s, K)
  <1>1. \A S : Ids!Cardinality(S) = Cardinality(S)
        BY Zenon DEF Ids!Cardinality, Cardinality
  <1>2. \A i : Ids!Nth(K, i) = Nth(K, i)
        BY <1>1 DEF Ids!Nth, Nth
  <1> QED BY <1>1, <1>2 DEF Ids!Picked, Picked

\* A leave.
LEMMA LeftKeeps ==
  ASSUME Listed(net, inbox, recs, misread), NEW d \in Dev, inbox[d] # <<>>, Ids!OnLeft(d, Head(inbox[d]))
  PROVE  Listed(net, inbox', recs', misread')
  <1> DEFINE m == Head(inbox[d])
             rest == Ids!Without(inbox, d)
             others == {i \in DOMAIN recs : recs[i].eui # d}
  <1>1. /\ Boxes(net, rest) /\ rest[d] = Tail(inbox[d]) /\ (\A e \in Dev : e # d => rest[e] = inbox[e])
        /\ SettledBox(rest[d]) => Nil = net[d]
        BY Handled DEF Ids!OnLeft, Moving
  <1>2. recs' = Picked(recs, others) /\ inbox' = rest /\ misread' = misread
        BY IdsPicked DEF Ids!OnLeft
  <1> HIDE DEF m, rest
  <1>3. recs \in Seq(IdRec) /\ Distinct(recs) /\ DOMAIN recs = 1 .. Len(recs)
        BY DEF Listed
  <1>4. /\ others \in SUBSET (1 .. Len(recs)) /\ (\A i \in others : recs[i].eui # d)
        /\ \A i \in 1 .. Len(recs) : recs[i].eui # d => i \in others
        BY <1>3
  <1> HIDE DEF others
  <1>5. /\ recs' \in Seq(IdRec) /\ Len(recs') = Cardinality(others)
        /\ \A n \in 1 .. Len(recs') : Nth(others, n) \in others /\ recs'[n] = recs[Nth(others, n)]
        /\ \A n, o \in 1 .. Len(recs') : n # o => Nth(others, n) # Nth(others, o)
        /\ \A i \in others : \E n \in 1 .. Len(recs') : Nth(others, n) = i
        BY <1>2, <1>3, <1>4, PickedSeq
  <1>6. Distinct(recs')
    <2>1. ASSUME NEW n \in 1 .. Len(recs'), NEW o \in 1 .. Len(recs'), recs'[n].eui = recs'[o].eui, n # o PROVE FALSE
      <3>1. recs[Nth(others, n)].eui = recs[Nth(others, o)].eui /\ Nth(others, n) # Nth(others, o)
            BY <1>5, <2>1
      <3>2. Nth(others, n) \in 1 .. Len(recs) /\ Nth(others, o) \in 1 .. Len(recs)
            BY <1>4, <1>5
      <3> QED BY <1>3, <3>1, <3>2 DEF Distinct
    <2> QED BY <2>1 DEF Distinct
  <1>7. ASSUME NEW e \in Dev PROVE RecFits(net[e], inbox'[e], misread', e, recs')
    <2>1. CASE e = d
      <3>1. \A n \in 1 .. Len(recs') : recs'[n].eui # d
            BY <1>4, <1>5
      <3> QED BY <1>1, <1>2, <2>1, <3>1 DEF RecFits
    <2>2. CASE e # d
      <3>1. RecFits(net[e], inbox[e], misread, e, recs) /\ inbox'[e] = inbox[e]
            BY <1>1, <1>2, <2>2 DEF Listed
      <3>2. \A n \in 1 .. Len(recs') : recs'[n] = recs[Nth(others, n)] /\ Nth(others, n) \in 1 .. Len(recs)
            BY <1>4, <1>5
      <3>3. \A i \in 1 .. Len(recs) : recs[i].eui = e => \E n \in 1 .. Len(recs') : recs'[n] = recs[i]
            BY <1>4, <1>5, <2>2
      <3>4. \A n \in 1 .. Len(recs') : recs'[n].eui = e => \E j \in 1 .. Len(recs) :
              /\ recs[j].eui = e /\ recs[j].node = recs'[n].node
              /\ recs'[n].ep # Nil => recs[j].ep # Nil /\ recs[j].type = recs'[n].type
            BY <3>2
      <3>5. \A j \in 1 .. Len(recs) : recs[j].eui = e => \E n \in 1 .. Len(recs') : recs'[n].eui = e
            BY <3>3
      <3>6. (SettledBox(inbox'[e]) => SettledBox(inbox[e])) /\ (e \in misread => e \in misread')
            BY <1>2, <3>1
      <3> HIDE DEF others
      <3> QED BY <3>1, <3>4, <3>5, <3>6, OtherKeeps
    <2> QED BY <2>1, <2>2
  <1> QED BY <1>1, <1>2, <1>5, <1>6, <1>7 DEF Listed

\* One record says something else of what its device is: its own device's word, or one whose
\* device has more to say.
LEMMA ClassKeeps ==
  ASSUME Listed(net, inbox, recs, misread), NEW b, Boxes(net, b), \A e \in Dev : SettledBox(b[e]) => SettledBox(inbox[e]),
         NEW i \in 1 .. Len(recs), NEW r \in IdRec, r.eui = recs[i].eui, r.node = recs[i].node,
         NEW rs, rs = [recs EXCEPT ![i] = r],
         r.ep # Nil => (recs[i].ep # Nil /\ r.type = recs[i].type) \/ r.type = Right(r.eui) \/ net[r.eui] # r.node
  PROVE  Listed(net, b, rs, misread)
  <1>1. recs \in Seq(IdRec) /\ Distinct(recs) /\ Len(recs) \in Nat
        BY DEF Listed
  <1>2. /\ rs \in Seq(IdRec) /\ Len(rs) = Len(recs) /\ rs[i] = r
        /\ \A j \in 1 .. Len(recs) : j # i => rs[j] = recs[j]
    <2> HIDE DEF IdRec
    <2> QED BY <1>1
  <1>3. Distinct(rs)
        BY <1>1, <1>2 DEF Distinct
  <1>4. ASSUME NEW e \in Dev PROVE RecFits(net[e], b[e], misread, e, rs)
    <2>1. SUFFICES ASSUME SettledBox(b[e])
                   PROVE  /\ net[e] # Nil => \E j \in 1 .. Len(rs) : rs[j].eui = e
                          /\ \A j \in 1 .. Len(rs) : rs[j].eui = e =>
                               /\ rs[j].node = net[e]
                               /\ e \notin misread /\ rs[j].ep # Nil => rs[j].type = Right(e)
          BY DEF RecFits
    <2>2. /\ net[e] # Nil => \E j \in 1 .. Len(recs) : recs[j].eui = e
          /\ \A j \in 1 .. Len(recs) : recs[j].eui = e =>
               /\ recs[j].node = net[e]
               /\ e \notin misread /\ recs[j].ep # Nil => recs[j].type = Right(e)
          BY <2>1 DEF Listed, RecFits
    <2>3. \A j \in 1 .. Len(rs) : rs[j].eui = recs[j].eui /\ rs[j].node = recs[j].node
          BY <1>2
    <2>4. ASSUME NEW j \in 1 .. Len(rs), rs[j].eui = e, e \notin misread, rs[j].ep # Nil PROVE rs[j].type = Right(e)
      <3>1. CASE j # i
            BY <1>2, <2>2, <2>4, <3>1
      <3>2. CASE j = i
            BY <1>2, <2>2, <2>4, <3>2
      <3> QED BY <3>1, <3>2
    <2> QED BY <1>2, <2>2, <2>3, <2>4
  <1> QED BY <1>2, <1>3, <1>4 DEF Listed

\* A descriptor.
LEMMA DescKeeps ==
  ASSUME Listed(net, inbox, recs, misread), NEW d \in Dev, inbox[d] # <<>>, Ids!OnDesc(d, Head(inbox[d]))
  PROVE  Listed(net, inbox', recs', misread')
  <1> DEFINE m == Head(inbox[d])
             rest == Ids!Without(inbox, d)
             i == Ids!At(recs, m.node)
             r == [recs[i] EXCEPT !.type = Ids!Classify(m.what), !.ep = m.what, !.tries = 0]
  <1>1. /\ Boxes(net, rest) /\ (\A e \in Dev : SettledBox(rest[e]) => SettledBox(inbox[e]))
        /\ m.what \in MCEndpoints[d] /\ m.node # Nil /\ \A e \in Dev : e # d => net[e] # m.node
        BY Handled DEF Ids!OnDesc, Moving
  <1>2. /\ inbox' = rest /\ misread' = misread
        /\ recs' = recs \/ (i # 0 /\ recs' = [recs EXCEPT ![i].type = Ids!Classify(m.what), ![i].ep = m.what, ![i].tries = 0])
    <2> DEFINE at == Ids!At(recs, m.node)
    <2>1. inbox' = rest /\ misread' = misread
          BY DEF Ids!OnDesc
    <2>2. recs' = recs \/ (at # 0 /\ recs' = [recs EXCEPT ![at].type = Ids!Classify(m.what), ![at].ep = m.what, ![at].tries = 0])
      <3>1. recs' = IF at = 0 THEN recs ELSE IF recs[at].type = "remote" THEN recs
                    ELSE IF ~Ids!TakesEndpoint(recs[at], m.what) THEN recs
                    ELSE [recs EXCEPT ![at].type = Ids!Classify(m.what), ![at].ep = m.what, ![at].tries = 0]
            BY Zenon DEF Ids!OnDesc
      <3> DEFINE new == [recs EXCEPT ![at].type = Ids!Classify(m.what), ![at].ep = m.what, ![at].tries = 0]
      <3>2. recs' = recs \/ (at # 0 /\ recs' = new)
        <4> HIDE DEF at, new
        <4> QED BY <3>1, Zenon DEF new
      <3> QED BY <3>2
    <2> QED BY <2>1, <2>2
  <1>3. recs \in Seq(IdRec)
        BY DEF Listed
  <1>4. i # 0 => i \in 1 .. Len(recs) /\ recs[i].node = m.node
        BY <1>3, Found
  <1>5. m.what \in {"light", "utility"} /\ Ids!Classify(m.what) \in {"lamp", "remote"} /\ Ids!Classify(m.what) = Right(d)
        BY <1>1 DEF MCEndpoints, Right, Ids!Classify
  <1> HIDE DEF m, rest, i
  <1>6. CASE recs' = recs
    <2>1. \A e \in Dev : RecFits(net[e], rest[e], misread, e, recs)
          BY <1>1 DEF Listed, RecFits
    <2> QED BY <1>1, <1>2, <1>6, <2>1 DEF Listed
  <1>7. CASE i # 0 /\ recs' # recs
    <2>1. recs' = [recs EXCEPT ![i] = r] /\ recs[i] \in IdRec /\ i \in 1 .. Len(recs) /\ recs[i].node = m.node
      <3>1. i \in 1 .. Len(recs) /\ recs[i].node = m.node /\ recs[i] \in IdRec
            BY <1>3, <1>4, <1>7
      <3> HIDE DEF IdRec
      <3> QED BY <1>2, <1>3, <1>7, <3>1
    <2>2. r \in IdRec /\ r.eui = recs[i].eui /\ r.node = m.node /\ r.type = Right(d)
          BY <1>5, <2>1 DEF IdRec
    <2>3. r.eui \in Dev
          BY <2>2 DEF IdRec
    <2>4. r.type = Right(r.eui) \/ net[r.eui] # r.node
          BY <1>1, <2>2, <2>3
    <2> HIDE DEF r
    <2>5. Listed(net, rest, recs', misread)
          BY <1>1, <2>1, <2>2, <2>4, ClassKeeps
    <2> QED BY <1>2, <2>5
  <1> QED BY <1>2, <1>6, <1>7

\* A press.
LEMMA PressedKeeps ==
  ASSUME Listed(net, inbox, recs, misread), NEW d \in Dev, inbox[d] # <<>>, Ids!OnPress(d, Head(inbox[d]))
  PROVE  Listed(net, inbox', recs', misread')
  <1> DEFINE m == Head(inbox[d])
             rest == Ids!Without(inbox, d)
             i == Ids!At(recs, m.node)
             r == [recs[i] EXCEPT !.type = "remote", !.ep = "utility"]
  <1>1. /\ Boxes(net, rest) /\ (\A e \in Dev : SettledBox(rest[e]) => SettledBox(inbox[e]))
        /\ MCEndpoints[d] = {"utility"} /\ m.node # Nil /\ \A e \in Dev : e # d => net[e] # m.node
        BY Handled DEF Ids!OnPress, Moving
  <1>2. /\ inbox' = rest /\ misread' = misread
        /\ recs' = recs \/ (i # 0 /\ recs' = [recs EXCEPT ![i].type = "remote", ![i].ep = "utility"])
    <2> DEFINE at == Ids!At(recs, m.node)
    <2>1. inbox' = rest /\ misread' = misread
          BY DEF Ids!OnPress
    <2>2. recs' = recs \/ (at # 0 /\ recs' = [recs EXCEPT ![at].type = "remote", ![at].ep = "utility"])
      <3>1. recs' = IF at # 0 /\ recs[at].ep = Nil THEN [recs EXCEPT ![at].type = "remote", ![at].ep = "utility"] ELSE recs
            BY Zenon DEF Ids!OnPress
      <3> DEFINE new == [recs EXCEPT ![at].type = "remote", ![at].ep = "utility"]
      <3>2. recs' = recs \/ (at # 0 /\ recs' = new)
        <4> HIDE DEF at
        <4> QED BY <3>1, Zenon DEF new
      <3> QED BY <3>2
    <2> QED BY <2>1, <2>2
  <1>3. recs \in Seq(IdRec)
        BY DEF Listed
  <1>4. i # 0 => i \in 1 .. Len(recs) /\ recs[i].node = m.node
        BY <1>3, Found
  <1>5. Right(d) = "remote"
        BY <1>1 DEF Right
  <1> HIDE DEF m, rest, i
  <1>6. CASE recs' = recs
    <2>1. \A e \in Dev : RecFits(net[e], rest[e], misread, e, recs)
          BY <1>1 DEF Listed, RecFits
    <2> QED BY <1>1, <1>2, <1>6, <2>1 DEF Listed
  <1>7. CASE i # 0 /\ recs' # recs
    <2>1. recs' = [recs EXCEPT ![i] = r] /\ recs[i] \in IdRec /\ i \in 1 .. Len(recs) /\ recs[i].node = m.node
      <3>1. i \in 1 .. Len(recs) /\ recs[i].node = m.node /\ recs[i] \in IdRec
            BY <1>3, <1>4, <1>7
      <3> HIDE DEF IdRec
      <3> QED BY <1>2, <1>3, <1>7, <3>1
    <2>2. r \in IdRec /\ r.eui = recs[i].eui /\ r.node = m.node /\ r.type = Right(d)
          BY <1>5, <2>1 DEF IdRec
    <2>3. r.eui \in Dev
          BY <2>2 DEF IdRec
    <2>4. r.type = Right(r.eui) \/ net[r.eui] # r.node
          BY <1>1, <2>2, <2>3
    <2> HIDE DEF r
    <2>5. Listed(net, rest, recs', misread)
          BY <1>1, <2>1, <2>2, <2>4, ClassKeeps
    <2> QED BY <1>2, <2>5
  <1> QED BY <1>2, <1>6, <1>7

\* An interview is tried again, or the devices are only published.
LEMMA TickKeeps ==
  ASSUME Listed(net, inbox, recs, misread), Ids!Tick
  PROVE  Listed(net, inbox', recs', misread')
  <1>1. Boxes(net, inbox) /\ recs \in Seq(IdRec) /\ misread' = misread
        BY DEF Listed, Ids!Tick
  <1>2. CASE recs' = recs /\ inbox' = inbox
        BY <1>1, <1>2
  <1>3. ASSUME NEW i \in DOMAIN recs, recs' = [recs EXCEPT ![i].tries = @ + 1],
               inbox' \in Ids!Discover(recs, recs[i].node, inbox)
        PROVE  Listed(net, inbox', recs', misread')
    <2> DEFINE r == [recs[i] EXCEPT !.tries = @ + 1]
    <2>1. i \in 1 .. Len(recs) /\ recs[i] \in IdRec /\ recs' = [recs EXCEPT ![i] = r]
          BY <1>1, <1>3
    <2>2. /\ r \in IdRec /\ r.eui = recs[i].eui /\ r.node = recs[i].node /\ recs[i].node \in Node
          /\ r.ep = recs[i].ep /\ r.type = recs[i].type
          BY <2>1 DEF IdRec
    <2>3. Boxes(net, inbox') /\ \A e \in Dev : SettledBox(inbox'[e]) => SettledBox(inbox[e])
          BY <1>1, <1>3, <2>2, DiscoverKeeps
    <2> HIDE DEF r
    <2> QED BY <1>1, <2>1, <2>2, <2>3, ClassKeeps
  <1> QED BY <1>2, <1>3 DEF Ids!Tick

\* A device that moves: what it says it is at is not another's.
LEMMA SaysKeeps ==
  ASSUME Listed(net, inbox, recs, misread), NEW d \in Dev, NEW at \in Node \cup {Nil}, net' = [net EXCEPT ![d] = at],
         NEW says, BoxFits(at, says, d), ~SettledBox(says), Names(says) = {at}, Ids!Says(d, says),
         \A e \in Dev : e # d /\ at # Nil => net[e] # at /\ at \notin Names(inbox[e]),
         recs' = recs, misread' = misread
  PROVE  Listed(net, inbox, recs, misread)'
  <1>1. Boxes(net, inbox) /\ BoxFits(net[d], inbox[d], d) /\ inbox' = [inbox EXCEPT ![d] = inbox[d] \o says]
        BY DEF Listed, Boxes, Ids!Says
  <1> DEFINE box == inbox[d] \o says
  <1>2. BoxFits(at, box, d) /\ Names(box) \subseteq Names(inbox[d]) \cup {at} /\ ~SettledBox(box)
        BY <1>1, BoxMoved
  <1> HIDE DEF box
  <1>3. Boxes(net', inbox')
        BY <1>1, <1>2, BoxesChange DEF box
  <1>4. inbox'[d] = box /\ \A e \in Dev : e # d => inbox'[e] = inbox[e] /\ net'[e] = net[e]
        BY <1>1 DEF Boxes, box
  <1>5. ASSUME NEW e \in Dev PROVE RecFits(net'[e], inbox'[e], misread, e, recs)
    <2>1. CASE e = d
          BY <1>2, <1>4, <2>1 DEF RecFits
    <2>2. CASE e # d
          BY <1>4, <2>2 DEF Listed
    <2> QED BY <2>1, <2>2
  <1> QED BY <1>3, <1>5 DEF Listed

\* A join or a leave begins.
LEMMA MovesKeep ==
  ASSUME Listed(net, inbox, recs, misread), NEW d \in Dev,
         Ids!Leaves(d) \/ \E node \in Node : Ids!Moves(d, node)
  PROVE  Listed(net, inbox, recs, misread)'
  <1>1. CASE Ids!Leaves(d)
    <2>1. net' = [net EXCEPT ![d] = Nil] /\ recs' = recs /\ misread' = misread
          /\ Ids!Says(d, <<[k |-> "left", node |-> Nil, what |-> Nil]>>)
          BY <1>1 DEF Ids!Leaves
    <2>2. Node # {}
          BY DeviceAssumption
    <2> QED BY <2>1, <2>2, MovesFit, SaysKeeps
  <1>2. ASSUME NEW node \in Node, Ids!Moves(d, node) PROVE Listed(net, inbox, recs, misread)'
    <2>1. net' = [net EXCEPT ![d] = node] /\ recs' = recs /\ misread' = misread
          /\ Ids!Says(d, <<[k |-> "join", node |-> node, what |-> Nil], [k |-> "announce", node |-> node, what |-> Nil]>>)
          BY <1>2 DEF Ids!Moves
    <2>2. ASSUME NEW e \in Dev, e # d PROVE net[e] # node /\ node \notin Names(inbox[e])
          BY <1>2, <2>2 DEF Ids!Moves, Names, Listed, Boxes
    <2> QED BY <2>1, <2>2, MovesFit, SaysKeeps
  <1> QED BY <1>1, <1>2

\* A button is pressed.
LEMMA ButtonKeeps ==
  ASSUME Listed(net, inbox, recs, misread), NEW d \in Dev, NEW on \in BOOLEAN, Ids!Button(d, on)
  PROVE  Listed(net, inbox, recs, misread)'
  <1> DEFINE copy == [k |-> "press", node |-> net[d], what |-> on]
             says == <<copy, copy>>
             box == inbox[d] \o says
  <1>1. /\ Boxes(net, inbox) /\ BoxFits(net[d], inbox[d], d) /\ net[d] \in Node /\ MCEndpoints[d] = {"utility"}
        /\ inbox' = [inbox EXCEPT ![d] = box] /\ net' = net /\ recs' = recs /\ misread' = misread
        BY DEF Listed, Boxes, Ids!Button, Ids!Says
  <1>2. copy \in IdMessage /\ copy.k = "press" /\ copy.node = net[d] /\ copy.what = on
        BY <1>1 DEF IdMessage
  <1> HIDE DEF copy
  <1>3. /\ says \in Seq(IdMessage)
        /\ \A i \in 1 .. Len(says) : says[i] = copy
        BY <1>2
  <1> HIDE DEF says
  <1>4. /\ BoxFits(net[d], box, d) /\ Names(box) \subseteq Names(inbox[d]) \cup {net[d], Nil}
        /\ SettledBox(box) <=> SettledBox(inbox[d])
    <2>1. \A i \in 1 .. Len(says) : says[i].node = net[d] /\ says[i].k = "press" /\ says[i].what \in BOOLEAN
          BY <1>2, <1>3
    <2>2. /\ BoxFits(net[d], box, d) /\ Names(box) \subseteq Names(inbox[d]) \cup {net[d]}
          /\ SettledBox(box) <=> SettledBox(inbox[d])
          BY <1>1, <1>3, <2>1, BoxMore
    <2> QED BY <2>2
  <1> HIDE DEF box
  <1>5. Boxes(net, inbox')
        BY <1>1, <1>4, BoxChange
  <1>6. \A e \in Dev : SettledBox(inbox'[e]) => SettledBox(inbox[e])
        BY <1>1, <1>4 DEF Boxes
  <1>7. \A e \in Dev : RecFits(net[e], inbox'[e], misread, e, recs)
        BY <1>6 DEF Listed, RecFits
  <1> QED BY <1>1, <1>5, <1>7 DEF Listed

\* Every step of the devices.
LEMMA ListedStep ==
  ASSUME RecordsInv, panics \in Nat, [Ids!Next]_(Ids!devVars)
  PROVE  RecordsInv' /\ panics' \in Nat
  <1>0. ASSUME UNCHANGED <<net, inbox, recs, misread, panics>> PROVE RecordsInv' /\ panics' \in Nat
        BY <1>0 DEF RecordsInv
  <1>1. ASSUME panics' = panics, Listed(net, inbox, recs, misread) => Listed(net, inbox, recs, misread)'
        PROVE  RecordsInv' /\ panics' \in Nat
        BY <1>1 DEF RecordsInv
  <1>2. CASE UNCHANGED Ids!devVars
        BY <1>0, <1>2 DEF Ids!devVars
  <1>3. ASSUME NEW d \in Dev, Ids!Handle(d) PROVE RecordsInv' /\ panics' \in Nat
    <2> DEFINE m == Head(inbox[d])
    <2>1. inbox[d] # <<>> /\ net' = net /\ panics' = panics
          /\ (Ids!OnJoin(d, m) \/ Ids!OnLeft(d, m) \/ Ids!OnAnnounced(d, m) \/ Ids!OnDesc(d, m) \/ Ids!OnPress(d, m))
          BY <1>3 DEF Ids!Handle, Ids!radio
    <2>2. Listed(net, inbox, recs, misread) => Listed(net, inbox', recs', misread')
      <3>1. CASE Ids!OnJoin(d, m)
            BY <2>1, <3>1, JoinKeeps
      <3>2. CASE Ids!OnLeft(d, m)
            BY <2>1, <3>2, LeftKeeps
      <3>3. CASE Ids!OnAnnounced(d, m)
            BY <2>1, <3>3, AnnounceKeeps
      <3>4. CASE Ids!OnDesc(d, m)
            BY <2>1, <3>4, DescKeeps
      <3>5. CASE Ids!OnPress(d, m)
            BY <2>1, <3>5, PressedKeeps
      <3> QED BY <2>1, <3>1, <3>2, <3>3, <3>4, <3>5
    <2>3. Listed(net, inbox, recs, misread) => Listed(net', inbox', recs', misread')
          BY <2>1, <2>2
    <2> QED BY <1>1, <2>1, <2>3
  <1>4. CASE Ids!Tick
    <2>1. net' = net /\ panics' = panics
          BY <1>4 DEF Ids!Tick, Ids!radio
    <2> QED BY <1>1, <1>4, <2>1, TickKeeps
  <1>5. CASE Ids!Sync \/ Ids!WindowEnds
        BY <1>0, <1>5 DEF Ids!Sync, Ids!WindowEnds, Ids!radio
  <1>6. CASE Ids!Panic
        BY <1>6 DEF Ids!Panic, RecordsInv
  <1>7. ASSUME NEW d \in Dev, (\E node \in Node : Ids!Moves(d, node)) \/ Ids!Leaves(d)
        PROVE  RecordsInv' /\ panics' \in Nat
    <2>1. panics' = panics
          BY <1>7 DEF Ids!Moves, Ids!Leaves
    <2> QED BY <1>1, <1>7, <2>1, MovesKeep
  <1>8. ASSUME NEW d \in Dev, NEW on \in BOOLEAN, Ids!Button(d, on) PROVE RecordsInv' /\ panics' \in Nat
    <2>1. panics' = panics
          BY <1>8 DEF Ids!Button
    <2> QED BY <1>1, <1>8, <2>1, ButtonKeeps
  <1> QED BY <1>2, <1>3, <1>4, <1>5, <1>6, <1>7, <1>8 DEF Ids!Next, Ids!Drives

\* With nothing under way, every record fits its device.
LEMMA ListedIsFit ==
  ASSUME RecordsInv
  PROVE  RecordsFit
  <1>1. SUFFICES ASSUME Ids!Quiet, panics = 0, NEW d \in Dev
                 PROVE  /\ net[d] # Nil <=> Ids!OfEui(recs, d) # 0
                        /\ net[d] # Nil =>
                             LET r == recs[Ids!OfEui(recs, d)] IN
                               /\ r.node = net[d] /\ Ids!At(recs, r.node) = Ids!OfEui(recs, d)
                               /\ d \notin misread /\ r.ep # Nil /\ MCEndpoints[d] # {"light", "utility"} => r.type = Right(d)
        BY DEF RecordsFit, Ids!RecordsFit, Right
  <1>2. Listed(net, inbox, recs, misread)
        BY <1>1 DEF RecordsInv
  <1>3. \A e \in Dev : SettledBox(inbox[e])
        BY <1>1 DEF Ids!Quiet, SettledBox
  <1>4. \A e \in Dev :
          /\ net[e] # Nil => \E j \in 1 .. Len(recs) : recs[j].eui = e
          /\ \A j \in 1 .. Len(recs) : recs[j].eui = e =>
               /\ recs[j].node = net[e]
               /\ e \notin misread /\ recs[j].ep # Nil => recs[j].type = Right(e)
        BY <1>2, <1>3 DEF Listed, RecFits
  <1>5. recs \in Seq(IdRec) /\ Distinct(recs) /\ \A e, f \in Dev : e # f /\ net[e] = net[f] => net[e] = Nil
        BY <1>2 DEF Listed, Boxes
  <1>6. \A j \in 1 .. Len(recs) : recs[j].eui \in Dev /\ recs[j].node # Nil
    <2>1. \A j \in 1 .. Len(recs) : recs[j] \in IdRec
          BY <1>5
    <2> QED BY <2>1, DeviceAssumption DEF IdRec
  <1> DEFINE i == Ids!OfEui(recs, d)
             j == Ids!At(recs, recs[i].node)
  <1>7. /\ i = 0 => \A k \in 1 .. Len(recs) : recs[k].eui # d
        /\ i # 0 => i \in 1 .. Len(recs) /\ recs[i].eui = d
        BY <1>5, Found
  <1>8. net[d] # Nil <=> i # 0
        BY <1>4, <1>6, <1>7
  <1>9. ASSUME net[d] # Nil PROVE j = i
    <2>1. i \in 1 .. Len(recs) /\ recs[i].eui = d /\ recs[i].node = net[d]
          BY <1>4, <1>7, <1>8, <1>9
    <2> HIDE DEF i
    <2>2. /\ j = 0 => \A k \in 1 .. Len(recs) : recs[k].node # recs[i].node
          /\ j # 0 => j \in 1 .. Len(recs) /\ recs[j].node = recs[i].node
          BY <1>5, Found
    <2>3. j \in 1 .. Len(recs) /\ recs[j].node = net[d]
          BY <2>1, <2>2
    <2> HIDE DEF j
    <2>4. recs[j].eui \in Dev /\ net[recs[j].eui] = net[d]
          BY <1>4, <1>6, <2>3
    <2>5. recs[j].eui = d
          BY <1>5, <1>9, <2>4
    <2> QED BY <1>5, <2>1, <2>3, <2>5 DEF Distinct
  <1>10. net[d] # Nil => recs[i].node = net[d] /\ (d \notin misread /\ recs[i].ep # Nil => recs[i].type = Right(d))
        BY <1>4, <1>7, <1>8
  <1> QED BY <1>8, <1>9, <1>10

\* A finite set as a sequence: all of its elements, each once.
LEMMA Listing ==
  ASSUME NEW S, IsFiniteSet(S), NEW s, s = Ids!SetToSeq(S)
  PROVE  /\ s \in Seq(S) /\ \A i, j \in 1 .. Len(s) : s[i] = s[j] => i = j
         /\ \A x \in S : \E i \in 1 .. Len(s) : s[i] = x
  <1> DEFINE k == Cardinality(S)
  <1>1. k \in Nat /\ IsFiniteSet(1 .. k) /\ Cardinality(1 .. k) = k
        BY FS_CardinalityType, FS_Interval
  <1>2. s = CHOOSE f \in [1 .. k -> S] : Ids!IsInjective(f)
    <2>1. \A T : Ids!Cardinality(T) = Cardinality(T)
          BY Zenon DEF Ids!Cardinality, Cardinality
    <2> QED BY <2>1 DEF Ids!SetToSeq
  <1>3. \E f \in [1 .. k -> S] : Ids!IsInjective(f)
    <2>1. ExistsBijection(1 .. k, S)
          BY FS_CardinalityType
    <2> QED BY <2>1 DEF ExistsBijection, Bijection, Injection, IsInjective, Ids!IsInjective
  <1> HIDE DEF k
  <1>4. s \in [1 .. k -> S] /\ Ids!IsInjective(s)
        BY <1>2, <1>3
  <1>5. s \in Seq(S) /\ Len(s) = k /\ DOMAIN s = 1 .. k
        BY <1>1, <1>4
  <1>6. \A i, j \in 1 .. k : s[i] = s[j] => i = j
        BY <1>4, <1>5 DEF Ids!IsInjective
  <1>7. s \in Injection(1 .. k, S)
        BY <1>4, <1>6 DEF Injection, IsInjective
  <1>8. s \in Surjection(1 .. k, S)
        BY <1>1, <1>7, FS_Injection DEF k
  <1> QED BY <1>5, <1>6, <1>8 DEF Surjection

\* The start: the devices of the file are listed where they are, as what they are.
LEMMA ListedStart ==
  ASSUME Ids!Init
  PROVE  /\ Listed(net, inbox, recs, misread) /\ panics = 0 /\ KeptInv
         /\ \A i \in 1 .. Len(recs) : recs[i].ep # Nil
  <1> DEFINE type(d) == IF "light" \in MCEndpoints[d] THEN "lamp" ELSE "remote"
             ep(d) == IF "light" \in MCEndpoints[d] THEN "light" ELSE "utility"
             record(d) == [Ids!Rec(d, net[d]) EXCEPT !.type = type(d), !.ep = ep(d)]
             There == {e \in Dev : net[e] # Nil}
             all == {record(d) : d \in There}
  <1>1. /\ inbox = [d \in Dev |-> <<>>] /\ misread = {} /\ panics = 0 /\ shared = <<>> /\ news = FALSE
        /\ recs = Ids!SetToSeq(all)
        /\ \E there \in SUBSET Dev : net = [d \in Dev |-> IF d \in there THEN Ids!Home[d] ELSE Nil]
        BY DEF Ids!Init
  <1>2. Ids!Home \in [Dev -> Node] /\ \A d, e \in Dev : Ids!Home[d] = Ids!Home[e] => d = e
        BY DeviceAssumption DEF Ids!Home
  <1>3. net \in [Dev -> Node \cup {Nil}] /\ \A d, e \in Dev : d # e /\ net[d] = net[e] => net[d] = Nil
        BY <1>1, <1>2
  <1>4. Boxes(net, inbox)
    <2>0. <<>> \in Seq(IdMessage) /\ Len(<<>>) = 0 /\ 1 .. 0 = {}
          OBVIOUS
    <2>1. \A d \in Dev : inbox[d] = <<>> /\ Names(inbox[d]) = {} /\ inbox[d] \in Seq(IdMessage) /\ Len(inbox[d]) = 0
      <3> HIDE DEF IdMessage
      <3>1. \A d \in Dev : inbox[d] = <<>>
            BY <1>1
      <3>2. Names(<<>>) = {}
            BY <2>0 DEF Names
      <3> QED BY <2>0, <3>1, <3>2
    <2>2. \A d \in Dev : BoxFits(net[d], inbox[d], d)
          BY <2>1 DEF BoxFits
    <2>3. inbox \in [Dev -> Seq(IdMessage)]
          BY <1>1, <2>1
    <2> QED BY <1>3, <2>1, <2>2, <2>3 DEF Boxes
  <1>5. \A d \in There : /\ record(d) \in IdRec /\ record(d).eui = d /\ record(d).node = net[d]
                         /\ record(d).type = Right(d) /\ record(d).ep # Nil
    <2>1. SUFFICES ASSUME NEW d \in There
                   PROVE  /\ record(d) \in IdRec /\ record(d).eui = d /\ record(d).node = net[d]
                          /\ record(d).type = Right(d) /\ record(d).ep # Nil
          OBVIOUS
    <2>2. d \in Dev /\ net[d] \in Node /\ type(d) \in {"lamp", "remote"} /\ ep(d) \in {"light", "utility"} /\ type(d) = Right(d)
          BY <1>3 DEF Right
    <2> HIDE DEF type, ep
    <2> QED BY <2>2, ZigbeeAssumption DEF IdRec, Ids!Rec
  <1> HIDE DEF record
  <1>6. IsFiniteSet(all)
    <2> DEFINE f == [d \in There |-> record(d)]
    <2>1. f \in Surjection(There, all)
          BY DEF Surjection
    <2>2. IsFiniteSet(There)
          BY DeviceAssumption, FS_Subset
    <2> QED BY <2>1, <2>2, FS_Surjection
  <1>7. /\ recs \in Seq(all) /\ \A i, j \in 1 .. Len(recs) : recs[i] = recs[j] => i = j
        /\ \A r \in all : \E i \in 1 .. Len(recs) : recs[i] = r
    <2>1. recs = Ids!SetToSeq(all)
          BY <1>1 DEF record
    <2> HIDE DEF all
    <2> QED BY <1>6, <2>1, Listing
  <1>8. \A i \in 1 .. Len(recs) : recs[i] \in all
        BY <1>7
  <1>9. \A i \in 1 .. Len(recs) : \E d \in There : recs[i] = record(d)
        BY <1>8
  <1>10. \A i \in 1 .. Len(recs) : recs[i] \in IdRec /\ recs[i].eui \in There /\ recs[i].node = net[recs[i].eui]
                                   /\ recs[i].type = Right(recs[i].eui) /\ recs[i] = record(recs[i].eui)
         BY <1>5, <1>9
  <1>11. recs \in Seq(IdRec)
    <2> HIDE DEF IdRec, all
    <2> QED BY <1>7, <1>10
  <1>12. Distinct(recs)
         BY <1>7, <1>10 DEF Distinct
  <1>13. \A d \in There : \E i \in 1 .. Len(recs) : recs[i].eui = d
    <2>1. \A d \in There : record(d) \in all
          OBVIOUS
    <2> QED BY <1>5, <1>7, <2>1
  <1>14. \A d \in Dev : RecFits(net[d], inbox[d], misread, d, recs)
         BY <1>10, <1>13 DEF RecFits
  <1>15. KeptInv
         BY <1>1 DEF KeptInv
  <1>16. \A i \in 1 .. Len(recs) : recs[i].ep # Nil
         BY <1>5, <1>10
  <1> QED BY <1>1, <1>4, <1>11, <1>12, <1>14, <1>15, <1>16 DEF Listed

-----------------------------------------------------------------------------
(* The devices: the last press wins, in a house with one dimmer.           *)

\* As long as no device moves and the driver lives: all that is under way are presses of the
\* dimmer's, the last of them the last pressed; with none, it has been acted on.
Presses ==
    /\ acted \in [last : BOOLEAN \cup {Nil}, open : BOOLEAN]
    /\ misread = {} /\ \A i \in 1 .. Len(recs) : recs[i].ep # Nil
    /\ \A d \in Dev : \A i \in 1 .. Len(inbox[d]) :
         /\ inbox[d][i].k = "press" /\ net[d] # Nil /\ inbox[d][i].node = net[d]
         /\ i = Len(inbox[d]) => inbox[d][i].what = pushed
    /\ (\A d \in Dev : inbox[d] = <<>>) => acted.last = pushed

PressInv == panics = 0 /\ moves = 0 => Presses
OneDimmer == \A d, e \in Dev \ {"lamp"} : d = e

\* The dimmer is listed, as a remote.
LEMMA DimmerListed ==
  ASSUME Listed(net, inbox, recs, misread), Presses, NEW d \in Dev, inbox[d] # <<>>
  PROVE  LET m == Head(inbox[d])
             i == Ids!At(recs, m.node)
         IN  /\ m.k = "press" /\ m.what \in BOOLEAN /\ m = inbox[d][1] /\ MCEndpoints[d] = {"utility"}
             /\ i # 0 /\ recs[i].type = "remote" /\ recs[i].ep # Nil
  <1> DEFINE m == Head(inbox[d])
             i == Ids!At(recs, m.node)
  <1>1. /\ Boxes(net, inbox) /\ recs \in Seq(IdRec) /\ misread = {}
        /\ \A e \in Dev : RecFits(net[e], inbox[e], misread, e, recs)
        BY DEF Listed, Presses
  <1>2. inbox[d] \in Seq(IdMessage) /\ MessageFits(net[d], inbox[d], d, 1) /\ 1 \in 1 .. Len(inbox[d]) /\ m = inbox[d][1]
    <2>1. BoxFits(net[d], inbox[d], d) /\ inbox[d] \in Seq(IdMessage)
          BY <1>1 DEF Boxes, BoxFits
    <2>2. 1 \in 1 .. Len(inbox[d]) /\ m = inbox[d][1]
          BY <2>1
    <2> QED BY <2>1, <2>2 DEF BoxFits
  <1>3. m.k = "press" /\ net[d] # Nil /\ m.node = net[d]
        BY <1>2 DEF Presses
  <1>4. m.what \in BOOLEAN /\ MCEndpoints[d] = {"utility"} /\ Right(d) = "remote"
        BY <1>2, <1>3 DEF MessageFits, Right
  <1>5. \A e \in Dev : SettledBox(inbox[e])
        BY DEF Presses, SettledBox, Moving
  <1>6. PICK j \in 1 .. Len(recs) : recs[j].eui = d /\ recs[j].node = net[d]
        BY <1>1, <1>3, <1>5 DEF RecFits
  <1> HIDE DEF m
  <1>7. i \in 1 .. Len(recs) /\ i # 0 /\ recs[i].node = net[d]
        BY <1>1, <1>3, <1>6, Found
  <1> HIDE DEF i
  <1>8. recs[i].eui \in Dev /\ net[recs[i].eui] = net[d]
    <2>1. recs[i] \in IdRec
          BY <1>1, <1>7
    <2>2. recs[i].eui \in Dev
          BY <2>1 DEF IdRec
    <2> QED BY <1>1, <1>5, <1>7, <2>2 DEF RecFits
  <1>9. recs[i].eui = d
        BY <1>1, <1>3, <1>8 DEF Boxes
  <1>10. recs[i].ep # Nil
         BY <1>7 DEF Presses
  <1>11. recs[i].type = "remote"
         BY <1>1, <1>4, <1>5, <1>7, <1>9, <1>10 DEF RecFits
  <1> QED BY <1>2, <1>3, <1>4, <1>7, <1>10, <1>11 DEF m, i

\* A press handled has been acted on, if only because its first copy was.
LEMMA ActedOn ==
  ASSUME OneDimmer, Listed(net, inbox, recs, misread), Presses, NEW d \in Dev, Ids!Handle(d)
  PROVE  Presses'
  <1> DEFINE m == Head(inbox[d])
             i == Ids!At(recs, m.node)
  <1>1. inbox[d] # <<>> /\ net' = net /\ pushed' = pushed
        BY DEF Ids!Handle, Ids!radio
  <1>2. /\ m.k = "press" /\ m.what \in BOOLEAN /\ m = inbox[d][1] /\ MCEndpoints[d] = {"utility"}
        /\ i # 0 /\ recs[i].type = "remote" /\ recs[i].ep # Nil
        BY <1>1, DimmerListed
  <1>3. Ids!OnPress(d, m)
        BY <1>2 DEF Ids!Handle, Ids!OnJoin, Ids!OnLeft, Ids!OnAnnounced, Ids!OnDesc
  <1>4. /\ recs' = recs /\ misread' = misread /\ inbox' = Ids!Without(inbox, d)
        /\ acted' = IF Ids!IsRepeat(m.what) THEN acted ELSE [last |-> m.what, open |-> TRUE]
        BY <1>2, <1>3 DEF Ids!OnPress
  <1> HIDE DEF i
  <1>5. acted' \in [last : BOOLEAN \cup {Nil}, open : BOOLEAN] /\ acted'.last = m.what
    <2> HIDE DEF m
    <2>1. CASE Ids!IsRepeat(m.what)
      <3>1. acted' = acted /\ acted = [last |-> m.what, open |-> TRUE]
            BY <1>4, <2>1 DEF Ids!IsRepeat
      <3> QED BY <3>1 DEF Presses
    <2>2. CASE ~Ids!IsRepeat(m.what)
          BY <1>2, <1>4, <2>2
    <2> QED BY <2>1, <2>2
  <1>6. \A e \in Dev : e # d => inbox[e] = <<>>
    <2>1. SUFFICES ASSUME NEW e \in Dev, e # d, inbox[e] # <<>> PROVE FALSE
          OBVIOUS
    <2>2. MCEndpoints[e] = {"utility"}
          BY <2>1, DimmerListed
    <2>3. d # "lamp" /\ e # "lamp"
          BY <1>2, <2>2 DEF MCEndpoints
    <2> QED BY <2>1, <2>3 DEF OneDimmer
  <1>7. /\ inbox'[d] = Tail(inbox[d]) /\ \A e \in Dev : e # d => inbox'[e] = <<>>
        /\ inbox[d] \in Seq(IdMessage)
    <2>1. inbox \in [Dev -> Seq(IdMessage)]
          BY DEF Listed, Boxes
    <2> QED BY <1>4, <1>6, <2>1 DEF Ids!Without
  <1>8. /\ Len(inbox[d]) \in Nat /\ Len(inbox[d]) # 0 /\ Len(Tail(inbox[d])) = Len(inbox[d]) - 1
        /\ \A k \in 1 .. Len(Tail(inbox[d])) : k + 1 \in 1 .. Len(inbox[d]) /\ Tail(inbox[d])[k] = inbox[d][k + 1]
        /\ (Tail(inbox[d]) = <<>> => Len(inbox[d]) = 1) /\ Len(<<>>) = 0
    <2> DEFINE box == inbox[d]
    <2>1. box \in Seq(IdMessage) /\ box # <<>>
          BY <1>1, <1>7
    <2> HIDE DEF box, IdMessage
    <2>2. /\ Len(box) \in Nat /\ Len(box) # 0 /\ Len(Tail(box)) = Len(box) - 1
          /\ \A k \in 1 .. Len(Tail(box)) : k + 1 \in 1 .. Len(box) /\ Tail(box)[k] = box[k + 1]
          BY <2>1
    <2>3. Len(<<>>) = 0
          OBVIOUS
    <2>4. Tail(box) = <<>> => Len(box) = 1
      <3>1. Tail(box) = <<>> => Len(Tail(box)) = 0
            BY <2>3
      <3> HIDE DEF IdMessage
      <3>2. \A k, o \in Nat : o = k - 1 /\ o = 0 => k = 1
            OBVIOUS
      <3>3. Len(Tail(box)) \in Nat
            BY <2>1, <2>2
      <3> QED BY <2>2, <3>1, <3>2, <3>3
    <2> QED BY <2>2, <2>3, <2>4 DEF box
  <1>9. ASSUME NEW e \in Dev, NEW k \in 1 .. Len(inbox'[e])
        PROVE  /\ inbox'[e][k].k = "press" /\ net[e] # Nil /\ inbox'[e][k].node = net[e]
               /\ k = Len(inbox'[e]) => inbox'[e][k].what = pushed
    <2>1. e = d
          BY <1>7, <1>8, <1>9
    <2>2. k \in 1 .. Len(Tail(inbox[d])) /\ inbox'[e][k] = inbox[d][k + 1]
          BY <1>7, <1>8, <1>9, <2>1
    <2>3. k + 1 \in 1 .. Len(inbox[d]) /\ (k = Len(inbox'[e]) => k + 1 = Len(inbox[d]))
      <3>1. Len(inbox'[e]) = Len(inbox[d]) - 1 /\ k + 1 \in 1 .. Len(inbox[d]) /\ k \in Int
        <4> DEFINE box == inbox[d]
                   rest == Tail(inbox[d])
        <4>1. inbox'[e] = rest /\ k \in 1 .. Len(rest) /\ Len(rest) = Len(box) - 1
              BY <1>7, <1>8, <2>1, <2>2
        <4>2. k + 1 \in 1 .. Len(box)
              BY <1>8, <4>1
        <4> HIDE DEF box, rest
        <4>3. k \in Int
              BY <4>1
        <4> QED BY <4>1, <4>2, <4>3 DEF box
      <3> QED BY <1>8, <3>1
    <2> QED BY <2>1, <2>2, <2>3 DEF Presses
  <1>10. ASSUME \A e \in Dev : inbox'[e] = <<>> PROVE acted'.last = pushed
    <2>1. Len(inbox[d]) = 1 /\ 1 \in 1 .. Len(inbox[d])
      <3>1. inbox'[d] = <<>>
            BY <1>10
      <3>2. Tail(inbox[d]) = <<>>
            BY <1>7, <3>1
      <3>3. Len(inbox[d]) = 1
            BY <1>8, <3>2
      <3> QED BY <3>3
    <2>2. inbox[d][1].what = pushed
          BY <2>1 DEF Presses
    <2> QED BY <1>2, <1>5, <2>2
  <1>11. misread' = {} /\ \A k \in 1 .. Len(recs') : recs'[k].ep # Nil
         BY <1>4 DEF Presses
  <1> QED BY <1>1, <1>5, <1>9, <1>10, <1>11 DEF Presses

\* A press is the last pressed, and under way.
LEMMA Pressed ==
  ASSUME OneDimmer, Listed(net, inbox, recs, misread), Presses, NEW d \in Dev, NEW on \in BOOLEAN, Ids!Button(d, on)
  PROVE  Presses'
  <1> DEFINE copy == [k |-> "press", node |-> net[d], what |-> on]
             says == <<copy, copy>>
  <1>1. /\ net[d] # Nil /\ MCEndpoints[d] = {"utility"} /\ pushed' = on /\ inbox' = [inbox EXCEPT ![d] = @ \o says]
        /\ net' = net /\ recs' = recs /\ misread' = misread /\ acted' = acted
        BY DEF Ids!Button, Ids!Says
  <1>2. inbox \in [Dev -> Seq(IdMessage)]
        BY DEF Listed, Boxes
  <1>3. \A e \in Dev : e # d => inbox[e] = <<>>
    <2>1. SUFFICES ASSUME NEW e \in Dev, e # d, inbox[e] # <<>> PROVE FALSE
          OBVIOUS
    <2>2. MCEndpoints[e] = {"utility"}
          BY <2>1, DimmerListed
    <2>3. d # "lamp" /\ e # "lamp"
          BY <1>1, <2>2 DEF MCEndpoints
    <2> QED BY <2>1, <2>3 DEF OneDimmer
  <1>4. copy.k = "press" /\ copy.node = net[d] /\ copy.what = on
        OBVIOUS
  <1> HIDE DEF copy
  <1>5. /\ inbox[d] \in Seq(IdMessage) /\ Len(inbox[d]) \in Nat /\ inbox'[d] = inbox[d] \o says
        /\ \A e \in Dev : e # d => inbox'[e] = <<>>
        BY <1>1, <1>2, <1>3
  <1>6. /\ Len(inbox'[d]) = Len(inbox[d]) + 2 /\ Len(<<>>) = 0
        /\ \A i \in 1 .. Len(inbox[d]) : inbox'[d][i] = inbox[d][i]
        /\ \A i \in 1 .. Len(inbox'[d]) : i \in 1 .. Len(inbox[d]) \/ inbox'[d][i] = copy
        BY <1>5
  <1>7. ASSUME NEW e \in Dev, NEW k \in 1 .. Len(inbox'[e])
        PROVE  /\ inbox'[e][k].k = "press" /\ net[e] # Nil /\ inbox'[e][k].node = net[e]
               /\ k = Len(inbox'[e]) => inbox'[e][k].what = on
    <2>1. e = d
          BY <1>5, <1>6, <1>7
    <2>2. CASE k \in 1 .. Len(inbox[d])
      <3>1. k # Len(inbox'[e]) /\ inbox'[e][k] = inbox[d][k]
            BY <1>5, <1>6, <2>1, <2>2
      <3> QED BY <2>1, <2>2, <3>1 DEF Presses
    <2>3. CASE k \notin 1 .. Len(inbox[d])
          BY <1>1, <1>4, <1>6, <1>7, <2>1, <2>3
    <2> QED BY <2>2, <2>3
  <1>8. inbox'[d] # <<>>
        BY <1>5, <1>6
  <1>9. acted \in [last : BOOLEAN \cup {Nil}, open : BOOLEAN] /\ misread = {} /\ \A i \in 1 .. Len(recs) : recs[i].ep # Nil
        BY DEF Presses
  <1> QED BY <1>1, <1>7, <1>8, <1>9 DEF Presses

\* Every step of the devices.
LEMMA PressStep ==
  ASSUME OneDimmer, RecordsInv, PressInv, panics \in Nat, moves \in Nat, [Ids!Next]_(Ids!devVars)
  PROVE  PressInv' /\ moves' \in Nat
  <1>0. ASSUME UNCHANGED <<net, inbox, recs, misread, pushed, panics, moves>>,
               acted' = acted \/ acted' = [acted EXCEPT !.open = FALSE]
        PROVE  PressInv' /\ moves' \in Nat
    <2>1. acted \in [last : BOOLEAN \cup {Nil}, open : BOOLEAN]
          => acted' \in [last : BOOLEAN \cup {Nil}, open : BOOLEAN] /\ acted'.last = acted.last
          BY <1>0
    <2> QED BY <1>0, <2>1 DEF PressInv, Presses
  <1>1. CASE UNCHANGED Ids!devVars
        BY <1>0, <1>1 DEF Ids!devVars
  <1>2. ASSUME NEW d \in Dev, Ids!Handle(d) PROVE PressInv' /\ moves' \in Nat
    <2>1. panics' = panics /\ moves' = moves
          BY <1>2 DEF Ids!Handle, Ids!radio
    <2> QED BY <1>2, <2>1, ActedOn DEF RecordsInv, PressInv
  <1>3. CASE Ids!Tick
    <2>1. net' = net /\ panics' = panics /\ moves' = moves /\ pushed' = pushed /\ acted' = acted /\ misread' = misread
          BY <1>3 DEF Ids!Tick, Ids!radio
    <2>2. CASE recs' = recs /\ inbox' = inbox
          BY <1>0, <2>1, <2>2
    <2>3. CASE ~(recs' = recs /\ inbox' = inbox)
      <3>1. PICK i \in DOMAIN recs : recs[i].ep = Nil
            BY <1>3, <2>3 DEF Ids!Tick
      <3>2. ASSUME panics = 0, Presses PROVE FALSE
        <4>1. recs \in Seq(IdRec)
              BY <3>2 DEF RecordsInv, Listed
        <4>2. DOMAIN recs = 1 .. Len(recs)
              BY <4>1
        <4> QED BY <3>1, <3>2, <4>2 DEF Presses
      <3> QED BY <2>1, <3>2 DEF PressInv
    <2> QED BY <2>2, <2>3
  <1>4. CASE Ids!Sync
        BY <1>0, <1>4 DEF Ids!Sync, Ids!radio
  <1>5. CASE Ids!WindowEnds
        BY <1>0, <1>5 DEF Ids!WindowEnds, Ids!radio
  <1>6. CASE Ids!Panic
        BY <1>6 DEF Ids!Panic, Ids!radio, PressInv
  <1>7. ASSUME NEW d \in Dev, (\E node \in Node : Ids!Moves(d, node)) \/ Ids!Leaves(d)
        PROVE  PressInv' /\ moves' \in Nat
    <2>1. moves' = moves + 1
          BY <1>7 DEF Ids!Moves, Ids!Leaves
    <2> QED BY <2>1 DEF PressInv
  <1>8. ASSUME NEW d \in Dev, NEW on \in BOOLEAN, Ids!Button(d, on) PROVE PressInv' /\ moves' \in Nat
    <2>1. panics' = panics /\ moves' = moves
          BY <1>8 DEF Ids!Button
    <2> QED BY <1>8, <2>1, Pressed DEF RecordsInv, PressInv
  <1> QED BY <1>1, <1>2, <1>3, <1>4, <1>5, <1>6, <1>7, <1>8 DEF Ids!Next, Ids!Drives

-----------------------------------------------------------------------------
(* The theorems.                                                           *)

\* A lamp in reach again is as it was last asked to be, in a house of any number of lamps and
\* any number of commands, whether the driver starts before the first command or after a power
\* cut (availability.rs).
THEOREM ThAnyHouse ==
  ASSUME NEW CONSTANT n \in Nat, NEW CONSTANT c, NEW CONSTANT f
  PROVE  (House(n, c, f)!Init \/ House(n, c, f)!CutInit) /\ [][House(n, c, f)!Next]_(House(n, c, f)!lampVars)
         => []House(n, c, f)!ComesBackAsAsked
  <1>1. House(n, c, f)!Init \/ House(n, c, f)!CutInit => LampInv(n)
        BY LampsStart
  <1>2. LampInv(n) /\ [House(n, c, f)!Next]_(House(n, c, f)!lampVars) => LampInv(n)'
        BY LampsStep
  <1>3. LampInv(n) => House(n, c, f)!ComesBackAsAsked
        BY LampsAsAsked
  <1> QED BY <1>1, <1>2, <1>3, PTL

HouseInv == IF part = "two" THEN LampInv(2) ELSE LampInv(1)

\* The same of the lamps checked.
THEOREM ThComesBackAsAsked == Spec => []ComesBackAsAsked
  <1>1. Init => HouseInv
        BY LampsStart DEF Init, HouseInv
  <1>2. HouseInv /\ [Next]_vars => HouseInv'
    <2>1. SUFFICES ASSUME HouseInv, [Next]_vars PROVE HouseInv'
          OBVIOUS
    <2>2. part' = part
          BY <2>1 DEF Next, vars
    <2>3. ASSUME NEW n \in Nat, NEW c, NEW f, LampInv(n), UNCHANGED lampVars PROVE LampInv(n)'
      <3>1. UNCHANGED House(n, c, f)!lampVars
            BY <2>3 DEF lampVars, House!lampVars
      <3> QED BY <2>3, <3>1, LampsStep
    <2>4. CASE part = "two"
      <3>1. LampInv(2)
            BY <2>1, <2>4 DEF HouseInv
      <3>2. House(2, 0, 1)!Next \/ UNCHANGED lampVars
            BY <2>1, <2>4 DEF Next, vars
      <3>3. LampInv(2)'
            BY <2>3, <3>1, <3>2, LampsStep
      <3> QED BY <2>2, <2>4, <3>3 DEF HouseInv
    <2>5. CASE part # "two"
      <3>1. LampInv(1)
            BY <2>1, <2>5 DEF HouseInv
      <3>2. House(1, 1, 3)!Next \/ UNCHANGED lampVars
            BY <2>1, <2>5 DEF Next, vars
      <3>3. LampInv(1)'
            BY <2>3, <3>1, <3>2, LampsStep
      <3> QED BY <2>2, <2>5, <3>3 DEF HouseInv
    <2> QED BY <2>4, <2>5
  <1>3. HouseInv => ComesBackAsAsked
        BY LampsAsAsked DEF HouseInv, ComesBackAsAsked
  <1> QED BY <1>1, <1>2, <1>3, PTL DEF Spec

\* They start as the devices' module says.
LEMMA IdsStart ==
  Init => Ids!Init
  BY DEF Init

\* They move only as it says.
LEMMA IdsMove ==
  [Next]_vars => [Ids!Next]_(Ids!devVars)
  <1>1. devVars = Ids!devVars
        BY DEF devVars, Ids!devVars
  <1>2. ASSUME UNCHANGED devVars PROVE UNCHANGED Ids!devVars
        BY <1>2 DEF devVars, Ids!devVars
  <1> QED BY <1>2 DEF Next, vars

\* Once the driver's devices are published and synced, each it has interviewed is in the file, as
\* it is now, whichever saves failed (zigbee/mod.rs).
THEOREM ThKeptWhenSettled == Spec => []KeptWhenSettled
  <1>1. Init => KeptInv
        BY IdsStart, ListedStart
  <1>2. KeptInv /\ [Next]_vars => KeptInv'
        BY IdsMove, KeptStep
  <1>3. KeptInv => KeptWhenSettled
        BY KeptIsKept
  <1> QED BY <1>1, <1>2, <1>3, PTL DEF Spec

\* Once every callback is handled, each device that is there has one record, with its node id
\* and what it is, whatever joined, left and was reused before (callbacks.rs, discovery.rs).
THEOREM ThRecordsFit == Spec => []RecordsFit
  <1> DEFINE Inv == RecordsInv /\ panics \in Nat
  <1>1. Init => Inv
        BY IdsStart, ListedStart DEF RecordsInv
  <1>2. Inv /\ [Next]_vars => Inv'
        BY IdsMove, ListedStep
  <1>3. Inv => RecordsFit
        BY ListedIsFit
  <1> QED BY <1>1, <1>2, <1>3, PTL DEF Spec

\* The lamps were last told what was last pressed, of a house with one dimmer: two dimmers'
\* presses overtake each other (remotes.rs).
THEOREM ThLastPressWins ==
  ASSUME OneDimmer
  PROVE  Spec => []LastPressWins
  <1> DEFINE Inv == RecordsInv /\ panics \in Nat /\ PressInv /\ moves \in Nat
  <1>1. Init => Inv
    <2>1. SUFFICES ASSUME Init PROVE Inv
          OBVIOUS
    <2>2. /\ Listed(net, inbox, recs, misread) /\ panics = 0 /\ \A i \in 1 .. Len(recs) : recs[i].ep # Nil
          BY <2>1, IdsStart, ListedStart
    <2>3. /\ acted = [last |-> Nil, open |-> FALSE] /\ pushed = Nil /\ misread = {} /\ moves = 0
          /\ inbox = [d \in Dev |-> <<>>]
          BY <2>1, IdsStart DEF Ids!Init
    <2>4. \A d \in Dev : 1 .. Len(inbox[d]) = {}
          BY <2>3
    <2>5. acted \in [last : BOOLEAN \cup {Nil}, open : BOOLEAN] /\ acted.last = pushed
          BY <2>3
    <2>6. Presses
          BY <2>2, <2>3, <2>4, <2>5 DEF Presses
    <2> QED BY <2>2, <2>3, <2>6 DEF RecordsInv, PressInv
  <1>2. Inv /\ [Next]_vars => Inv'
        BY IdsMove, ListedStep, PressStep
  <1>3. Inv => LastPressWins
        BY DEF PressInv, Presses, LastPressWins, Ids!LastPressWins, Ids!Quiet
  <1> QED BY <1>1, <1>2, <1>3, PTL DEF Spec

=============================================================================
