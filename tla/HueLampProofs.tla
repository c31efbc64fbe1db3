--------------------------- MODULE HueLampProofs ---------------------------
(***************************************************************************)
(* Forgetting a Hue lamp, for any failure limit and any lag of the events. *)
(***************************************************************************)
EXTENDS HueLamp, TLAPS

\* Once the lamp is blacklisted, and unless a scan was caught in between, it is not there and no
\* scan that saw it has still to keep it.
Gone == black => raced \/ (~known /\ \A s \in Scan : scan[s] # "seen")

GoneInv ==
    /\ known \in BOOLEAN /\ black \in BOOLEAN /\ raced \in BOOLEAN
    /\ scan \in [Scan -> Place]
    /\ Gone

\* Nothing is blacklisted at the start.
LEMMA InitGone == Init => GoneInv
  <1> SUFFICES ASSUME Init PROVE GoneInv
      OBVIOUS
  <1>1. known \in BOOLEAN /\ black = FALSE /\ raced = FALSE /\ scan = [s \in Scan |-> "idle"]
        BY Zenon DEF Init
  <1> QED BY <1>1 DEF GoneInv, Gone, Place

\* What a step may do to the four variables, and still leave a forgotten lamp forgotten.
Harmless(s) ==
    /\ UNCHANGED <<black, raced>>
    /\ known' = known \/ known' = FALSE
    /\ \E there \in Place \ {"seen"} : scan' = [scan EXCEPT ![s] = there]

\* A harmless step keeps the reason.
LEMMA HarmlessGone ==
  ASSUME GoneInv, NEW s \in Scan, Harmless(s)
  PROVE  GoneInv'
  <1>1. PICK there \in Place \ {"seen"} : scan' = [scan EXCEPT ![s] = there]
        BY DEF Harmless
  <1>2. UNCHANGED <<black, raced>> /\ known' \in BOOLEAN /\ (known' => known)
    <2>1. CASE known' = known BY <2>1, Zenon DEF Harmless, GoneInv
    <2>2. CASE known' = FALSE BY <2>2, Zenon DEF Harmless, GoneInv
    <2> QED BY <2>1, <2>2 DEF Harmless
  <1> QED BY <1>1, <1>2 DEF GoneInv, Gone

\* Only ScanSees and ScanKeeps can bring a lamp back, and Extended looks out for them.
LEMMA NextGone == GoneInv /\ [Next]_vars => GoneInv'
  <1> SUFFICES ASSUME GoneInv, [Next]_vars PROVE GoneInv'
      OBVIOUS
  <1>1. ASSUME NEW s \in Scan, ScanSees(s) PROVE GoneInv'
    <2>1. ~black /\ UNCHANGED <<known, black, raced>> /\ scan' = [scan EXCEPT ![s] = "seen"]
          BY <1>1, Zenon DEF ScanSees, Step
    <2> QED BY <2>1 DEF GoneInv, Gone, Place
  <1>2. ASSUME NEW s \in Scan, ScanKeeps(s) PROVE GoneInv'
    <2>1. scan[s] = "seen" /\ known' = TRUE /\ UNCHANGED <<black, raced>>
          BY <1>2, Zenon DEF ScanKeeps
    <2>2. \E there \in Place : scan' = [scan EXCEPT ![s] = there]
      <3>1. scan' = [scan EXCEPT ![s] = IF lamp'.connected \/ lamp'.connecting THEN "idle" ELSE "queued"]
            BY <1>2, Zenon DEF ScanKeeps, Step
      <3> QED BY <3>1 DEF Place
    <2>3. black => raced
          BY <2>1, Zenon DEF GoneInv, Gone, Place
    <2> QED BY <2>1, <2>2, <2>3 DEF GoneInv, Gone, Place
  <1>3. ASSUME NEW s \in Scan, ScanMisses(s) PROVE GoneInv'
    <2>1. UNCHANGED <<known, black, raced, scan>>
          BY <1>3, Zenon DEF ScanMisses
    <2> QED BY <2>1 DEF GoneInv, Gone, Place
  <1>4. ASSUME NEW s \in Scan, ConnectClaim(s) PROVE Harmless(s)
    <2>1. UNCHANGED <<known, black, raced>>
          BY <1>4, Zenon DEF ConnectClaim
    <2>2. \/ scan' = [scan EXCEPT ![s] = "idle"]
          \/ scan' = [scan EXCEPT ![s] = IF lamp.peripheral THEN "linking" ELSE "failing"]
          BY <1>4, Zenon DEF ConnectClaim, Step
    <2>3. (IF lamp.peripheral THEN "linking" ELSE "failing") \in Place \ {"seen"}
          BY DEF Place
    <2> QED BY <2>1, <2>2, <2>3 DEF Harmless, Place
  <1>5. ASSUME NEW s \in Scan, ConnectLinks(s) \/ ConnectReads(s) \/ ConnectFails(s) \/ ConnectDone(s) PROVE Harmless(s)
    <2>1. UNCHANGED <<known, black, raced>>
          BY <1>5, Zenon DEF ConnectLinks, ConnectReads, ConnectFails, ConnectDone
    <2>2. \/ scan' = [scan EXCEPT ![s] = "reading"] \/ scan' = [scan EXCEPT ![s] = "finishing"]
          \/ scan' = [scan EXCEPT ![s] = "failing"] \/ scan' = [scan EXCEPT ![s] = "idle"]
          BY <1>5, Zenon DEF ConnectLinks, ConnectReads, ConnectFails, ConnectDone, Step
    <2> QED BY <2>1, <2>2 DEF Harmless, Place
  <1>6. ASSUME NEW s \in Scan, ConnectFailed(s) PROVE Harmless(s)
    <2>1. UNCHANGED <<known, black, raced>>
          BY <1>6, Zenon DEF ConnectFailed
    <2>2. \E failures : scan' = [scan EXCEPT ![s] = IF known /\ failures >= MaxFailures THEN "removing" ELSE "idle"]
          BY <1>6, Zenon DEF ConnectFailed, Step
    <2>3. \A failures : (IF known /\ failures >= MaxFailures THEN "removing" ELSE "idle") \in Place \ {"seen"}
          BY DEF Place
    <2> QED BY <2>1, <2>2, <2>3 DEF Harmless, Place
  <1>7. ASSUME NEW s \in Scan, ScanForgets(s) \/ ScanParts(s) PROVE Harmless(s)
    <2>1. UNCHANGED <<black, raced>> /\ (known' = known \/ known' = FALSE)
          BY <1>7, Zenon DEF ScanForgets, ScanParts, Removed
    <2>2. \/ scan' = [scan EXCEPT ![s] = "parting"] \/ scan' = [scan EXCEPT ![s] = "idle"]
          \/ scan' = [scan EXCEPT ![s] = "extending"]
          BY <1>7, Zenon DEF ScanForgets, ScanParts, Step
    <2> QED BY <2>1, <2>2 DEF Harmless, Place
  <1>8. ASSUME NEW s \in Scan, ScanExtends(s) PROVE GoneInv'
    <2>1. /\ black' = TRUE /\ known' = known /\ scan' = [scan EXCEPT ![s] = "idle"]
          /\ raced' = (raced \/ known \/ \E x \in Scan : scan[x] = "seen")
          BY <1>8, Zenon DEF ScanExtends, Extended, Step
    <2>2. raced' \/ (~known' /\ \A x \in Scan : scan[x] # "seen")
          BY <2>1, Zenon DEF GoneInv
    <2>3. raced' \in BOOLEAN /\ black' \in BOOLEAN
          BY <2>1, Zenon
    <2> QED BY <2>1, <2>2, <2>3 DEF GoneInv, Gone, Place
  <1>9. ScanDropped => Harmless("asked")
    <2> SUFFICES ASSUME ScanDropped PROVE Harmless("asked")
        OBVIOUS
    <2>1. UNCHANGED <<known, black, raced>> /\ scan' = [scan EXCEPT !["asked"] = "idle"]
          BY Zenon DEF ScanDropped, Step
    <2> QED BY <2>1 DEF Harmless, Place
  <1>10. CASE ForgetStart \/ ForgetParts \/ ForgetDropped
    <2>1. UNCHANGED <<black, raced, scan>> /\ (known' = known \/ known' = FALSE)
          BY <1>10, Zenon DEF ForgetStart, ForgetParts, ForgetDropped, Removed
    <2>2. known' \in BOOLEAN /\ (known' => known)
      <3>1. CASE known' = known BY <3>1, Zenon DEF GoneInv
      <3>2. CASE known' = FALSE BY <3>2, Zenon DEF GoneInv
      <3> QED BY <2>1, <3>1, <3>2
    <2> QED BY <2>1, <2>2 DEF GoneInv, Gone
  <1>11. CASE ForgetEnds
    <2>1. /\ black' = TRUE /\ known' = known /\ scan' = scan
          /\ raced' = (raced \/ known \/ \E x \in Scan : scan[x] = "seen")
          BY <1>11, Zenon DEF ForgetEnds, Extended
    <2>2. raced' \/ (~known' /\ \A x \in Scan : scan'[x] # "seen")
          BY <2>1, Zenon DEF GoneInv
    <2>3. raced' \in BOOLEAN /\ black' \in BOOLEAN
          BY <2>1, Zenon
    <2> QED BY <2>1, <2>2, <2>3 DEF GoneInv, Gone, Place
  <1>12. CASE Polls \/ CommandWrites \/ CommandDone \/ CommandDropped \/ Notified \/ Event \/ Leaves \/ Returns
    <2>1. UNCHANGED <<known, black, scan, raced>>
          BY <1>12, Zenon DEF Polls, PollStart, PollReads, PollFails, PollReleases, CommandWrites, CommandDone,
                              CommandDropped, Notified, Event, Leaves, Returns
    <2> QED BY <2>1 DEF GoneInv, Gone, Place
  <1>13. CASE UNCHANGED vars
        BY <1>13 DEF vars, GoneInv, Gone
  <1>14. ASSUME NEW s \in Scan, Harmless(s) PROVE GoneInv'
        BY <1>14, HarmlessGone
  <1> QED BY <1>1, <1>2, <1>3, <1>4, <1>5, <1>6, <1>7, <1>8, <1>9, <1>10, <1>11, <1>12, <1>13, <1>14
             DEF Next, Scans, Scan

\* A lamp is never taken back but by a scan that had read the blacklist before (blacklist_lamp
\* and perform_scan of hue/mod.rs), however often lamps fail, leave and return.
THEOREM ThTakenBackOnlyByRace == Spec => []TakenBackOnlyByRace
  <1>1. GoneInv => TakenBackOnlyByRace BY DEF GoneInv, Gone, TakenBackOnlyByRace
  <1> QED BY InitGone, NextGone, <1>1, PTL DEF Spec

=============================================================================
