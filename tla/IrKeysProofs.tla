---------------------------- MODULE IrKeysProofs ----------------------------
(***************************************************************************)
(* Who talks to the blaster, what the house knows of the air conditioner   *)
(* and what a toggle does to it, for any number of keys, channels,         *)
(* requests, codes and actions.                                            *)
(***************************************************************************)
EXTENDS IrKeys, TLAPS

-----------------------------------------------------------------------------
(* The invariant.                                                          *)

\* The lock is held for the one thread that is nobody's orphan: by the caller that waits for it, or
\* by the task a learning that timed out left behind.
LockInv ==
    /\ \A c \in Caller : call[c].at = "talking" => holder = c
    /\ \A t \in threads : t.tie = "waited" => /\ holder = t.by /\ call[t.by].at = "talking"
                                              /\ t.op = call[t.by].op /\ t.cmd = call[t.by].cmd
    /\ \A t \in threads : t.tie = "kept" => holder = "thread" /\ t.op = "learn"
    /\ Alone

\* A caller that is about to record what the air conditioner heard last, and still is so.
FreshInv ==
    \A c \in Caller : call[c].fresh => /\ call[c].at = "recording"
                                       /\ call[c].cmd \in State
                                       /\ ac = (call[c].cmd = "on")

BlasterInv == BlasterTypeOK /\ LockInv /\ FreshInv /\ PictureIsTrue

\* What any step may do to the blaster.
BlasterNext ==
    \/ \E c \in Caller, op \in Op, cmd \in State \cup Code \cup {Nil} : Ask(c, op, cmd)
    \/ \E c \in Caller : Serves(c) \/ Drop(c) \/ (Abandon(c) /\ UNCHANGED drops)
    \/ \E t \in threads : ThreadEnds(t) \/ ThreadFails(t)

-----------------------------------------------------------------------------
(* The blaster.                                                            *)

\* Nobody has called, and nothing is known of the air conditioner.
LEMMA BlasterInitInv == BlasterInit => BlasterInv
  <1> SUFFICES ASSUME BlasterInit PROVE BlasterInv
      OBVIOUS
  <1> USE BlasterAssumption DEF BlasterInit
  <1>1. Idle \in CallRec /\ Idle.at = "ok" /\ ~Idle.fresh
        BY DEF Idle, CallRec, Busy, Op
  <1>2. BlasterTypeOK
    <2>1. call \in [Caller -> CallRec]
          BY <1>1
    <2>2. threads \subseteq Thread /\ codes \subseteq Code /\ drops \in 0 .. MaxDrops /\ holder \in Caller \cup {"thread", Nil}
          OBVIOUS
    <2>3. devices \in BOOLEAN /\ ac \in BOOLEAN /\ astray \in BOOLEAN /\ climate \in ClimateRec \cup {Nil}
          OBVIOUS
    <2> QED BY <2>1, <2>2, <2>3 DEF BlasterTypeOK
  <1>3. LockInv /\ FreshInv /\ PictureIsTrue
        BY <1>1 DEF LockInv, Alone, FreshInv, PictureIsTrue
  <1> QED BY <1>2, <1>3 DEF BlasterInv

\* A call that is asked for, served or dropped leaves the other calls alone.
LEMMA AtSets ==
  ASSUME BlasterTypeOK, NEW c \in Caller, NEW place \in Busy \cup {"ok", "failed"}, At(c, place)
  PROVE  /\ call' \in [Caller -> CallRec]
         /\ call'[c].at = place /\ (call'[c].fresh => place \in Busy /\ call[c].fresh)
         /\ place \in Busy => call'[c].cmd = call[c].cmd /\ call'[c].op = call[c].op
         /\ \A d \in Caller \ {c} : call'[d] = call[d]
  <1>1. Idle \in CallRec
        BY DEF Idle, CallRec, Busy, Op
  <1>2. CASE place \in Busy
        BY <1>2 DEF At, BlasterTypeOK, CallRec
  <1>3. CASE place \notin Busy
    <2> DEFINE i == [Idle EXCEPT !.at = place]
    <2>1. i \in CallRec /\ i.at = place /\ ~i.fresh
          BY <1>1 DEF CallRec, Idle
    <2>2. call' = [call EXCEPT ![c] = i]
          BY <1>3 DEF At
    <2> HIDE DEF i
    <2> QED BY <1>3, <2>1, <2>2 DEF BlasterTypeOK
  <1> QED BY <1>2, <1>3

\* A thread that is let go of is the same thread, with another tie.
LEMMA TiedTies ==
  ASSUME BlasterTypeOK, NEW c \in Caller, NEW tie \in {"kept", "orphan"}
  PROVE  /\ Tied(c, tie) \subseteq Thread
         /\ \A t \in Tied(c, tie) :
               \/ t \in threads /\ ~(t.by = c /\ t.tie = "waited")
               \/ t.tie = tie /\ \E u \in threads : u.by = c /\ u.tie = "waited" /\ t = [u EXCEPT !.tie = tie]
  <1>1. ASSUME NEW u \in threads, u.by = c, u.tie = "waited"
        PROVE  [u EXCEPT !.tie = tie] \in Thread /\ [u EXCEPT !.tie = tie].tie = tie
        BY DEF BlasterTypeOK, Thread
  <1> QED BY <1>1 DEF Tied, BlasterTypeOK

\* A call that is asked waits for the lock, or fails on a code nobody knows.
LEMMA AskKeeps ==
  ASSUME BlasterInv, NEW c \in Caller, NEW op \in Op, NEW cmd \in State \cup Code \cup {Nil}, Ask(c, op, cmd)
  PROVE  BlasterInv'
  <1> DEFINE known == cmd \in codes \cup State \cup {Nil}
             at == CASE ~known -> "failed"
                     [] op = "discover" /\ devices -> "ok"
                     [] OTHER -> "asking"
             new == IF at \in Busy THEN [at |-> at, op |-> op, cmd |-> cmd, fresh |-> FALSE]
                    ELSE [Idle EXCEPT !.at = at]
  <1>1. at \in {"failed", "ok", "asking"}
        OBVIOUS
  <1>2. Free(c) /\ call' = [call EXCEPT ![c] = new]
        BY DEF Ask
  <1>3. UNCHANGED <<holder, threads, codes, devices, climate, ac, astray, drops>>
        BY DEF Ask
  <1> HIDE DEF at
  <1>4. new \in CallRec /\ new.at = at /\ ~new.fresh
        BY <1>1 DEF Idle, CallRec, Busy, Op
  <1> HIDE DEF new
  <1> USE DEF BlasterInv
  <1>5. BlasterTypeOK'
        BY <1>2, <1>3, <1>4 DEF BlasterTypeOK
  <1>6. LockInv'
        BY <1>1, <1>2, <1>3, <1>4 DEF LockInv, Alone, BlasterTypeOK, Free, Thread
  <1>7. FreshInv' /\ PictureIsTrue'
        BY <1>1, <1>2, <1>3, <1>4 DEF FreshInv, PictureIsTrue, BlasterTypeOK, Free
  <1> QED BY <1>5, <1>6, <1>7

\* Every step of a call that was asked: the lock, the talk, the record, the end.
LEMMA ServesKeeps ==
  ASSUME BlasterInv, NEW c \in Caller, Serves(c)
  PROVE  BlasterInv'
  <1> USE DEF BlasterInv
  <1>1. CASE Locks(c)
    <2> DEFINE t == [by |-> c, op |-> call[c].op, cmd |-> call[c].cmd, tie |-> "waited"]
    <2>1. t \in Thread /\ t.by = c /\ t.tie = "waited" /\ t.op = call[c].op /\ t.cmd = call[c].cmd
          BY DEF BlasterTypeOK, CallRec, Thread
    <2>2. /\ call[c].at = "asking" /\ holder = Nil
          /\ UNCHANGED <<codes, devices, climate, ac, astray, drops>>
          /\ \/ At(c, "ok") /\ UNCHANGED <<holder, threads>>
             \/ holder' = c /\ threads' = threads \cup {t} /\ At(c, "talking")
          BY <1>1 DEF Locks
    <2> HIDE DEF t
    <2>3. /\ call' \in [Caller -> CallRec]
          /\ call'[c].at \in {"ok", "talking"} /\ ~call'[c].fresh
          /\ call'[c].at = "talking" => call'[c].op = call[c].op /\ call'[c].cmd = call[c].cmd
          /\ \A d \in Caller \ {c} : call'[d] = call[d]
          BY <2>2, AtSets DEF Busy, FreshInv
    <2>4. \A u \in threads : u.tie = "orphan" /\ u \in Thread
          BY <2>2, BlasterAssumption DEF LockInv, BlasterTypeOK, Thread
    <2>5. BlasterTypeOK'
          BY <2>1, <2>2, <2>3 DEF BlasterTypeOK
    <2>6. LockInv'
      <3>1. CASE At(c, "ok") /\ UNCHANGED <<holder, threads>>
        <4>1. call'[c].at = "ok"
              BY <3>1, AtSets
        <4> QED BY <2>2, <2>3, <2>4, <3>1, <4>1 DEF LockInv, Alone
      <3>2. CASE holder' = c /\ threads' = threads \cup {t} /\ At(c, "talking")
        <4>1. call'[c].at = "talking"
              BY <3>2, AtSets DEF Busy
        <4>2. \A d \in Caller \ {c} : call'[d].at # "talking"
              BY <2>2, <2>3, BlasterAssumption DEF LockInv
        <4> QED BY <2>1, <2>3, <2>4, <3>2, <4>1, <4>2 DEF LockInv, Alone
      <3> QED BY <2>2, <3>1, <3>2
    <2>7. FreshInv' /\ PictureIsTrue'
          BY <2>2, <2>3 DEF FreshInv, PictureIsTrue
    <2> QED BY <2>5, <2>6, <2>7
  <1>2. CASE Refused(c)
    <2>1. /\ call[c].at = "asking" /\ At(c, "failed")
          /\ UNCHANGED <<holder, threads, codes, devices, climate, ac, astray, drops>>
          BY <1>2 DEF Refused
    <2>2. /\ call' \in [Caller -> CallRec] /\ call'[c].at = "failed" /\ ~call'[c].fresh
          /\ \A d \in Caller \ {c} : call'[d] = call[d]
          BY <2>1, AtSets DEF Busy
    <2>3. BlasterTypeOK'
          BY <2>1, <2>2 DEF BlasterTypeOK
    <2>4. LockInv'
          BY <2>1, <2>2 DEF LockInv, Alone, BlasterTypeOK, Thread
    <2>5. FreshInv' /\ PictureIsTrue'
          BY <2>1, <2>2 DEF FreshInv, PictureIsTrue
    <2> QED BY <2>3, <2>4, <2>5
  <1>3. CASE LearnTimesOut(c)
    <2>1. /\ call[c].at = "talking" /\ call[c].op = "learn" /\ holder' = "thread"
          /\ threads' = Tied(c, "kept") /\ At(c, "failed")
          /\ UNCHANGED <<codes, devices, climate, ac, astray, drops>>
          BY <1>3 DEF LearnTimesOut
    <2>2. /\ call' \in [Caller -> CallRec] /\ call'[c].at = "failed" /\ ~call'[c].fresh
          /\ \A d \in Caller \ {c} : call'[d] = call[d]
          BY <2>1, AtSets DEF Busy
    <2>3. threads' \subseteq Thread
          BY <2>1, TiedTies
    <2>4. BlasterTypeOK'
          BY <2>1, <2>2, <2>3 DEF BlasterTypeOK
    <2>5. holder = c
          BY <2>1 DEF LockInv
    <2>6. ASSUME NEW t \in threads'
          PROVE  \/ t.tie = "orphan"
                 \/ t.tie = "kept" /\ t.op = "learn" /\ \E u \in threads : u.tie = "waited" /\ t = [u EXCEPT !.tie = "kept"]
      <3>1. CASE t \in threads /\ ~(t.by = c /\ t.tie = "waited")
        <4>1. t.tie # "kept"
              BY <2>5, <3>1, BlasterAssumption DEF LockInv
        <4>2. t.tie # "waited"
              BY <2>5, <3>1 DEF LockInv
        <4> QED BY <3>1, <4>1, <4>2 DEF BlasterTypeOK, Thread
      <3>2. ASSUME NEW u \in threads, u.by = c, u.tie = "waited", t = [u EXCEPT !.tie = "kept"]
            PROVE  t.tie = "kept" /\ t.op = "learn"
            BY <2>1, <3>2 DEF LockInv, BlasterTypeOK, Thread
      <3> QED BY <2>1, <2>6, <3>1, <3>2, TiedTies
    <2>7. Alone'
      <3> SUFFICES ASSUME NEW t \in threads', NEW u \in threads', t.tie = "kept", u.tie = "kept" PROVE t = u
          BY <2>6 DEF Alone
      <3>1. PICK v \in threads : v.tie = "waited" /\ t = [v EXCEPT !.tie = "kept"]
            BY <2>6
      <3>2. PICK w \in threads : w.tie = "waited" /\ u = [w EXCEPT !.tie = "kept"]
            BY <2>6
      <3>3. v = w
            BY <3>1, <3>2 DEF LockInv, Alone
      <3> QED BY <3>1, <3>2, <3>3
    <2>8. LockInv'
      <3>1. \A d \in Caller : call'[d].at # "talking"
            BY <2>2, <2>5 DEF LockInv
      <3> QED BY <2>1, <2>6, <2>7, <3>1 DEF LockInv
    <2>9. FreshInv' /\ PictureIsTrue'
          BY <2>1, <2>2 DEF FreshInv, PictureIsTrue
    <2> QED BY <2>4, <2>8, <2>9
  <1>4. CASE Save(c)
    <2>1. /\ call[c].at = "saving" /\ At(c, "ok") /\ codes' \subseteq Code
          /\ UNCHANGED <<holder, threads, devices, climate, ac, astray, drops>>
          BY <1>4 DEF Save, BlasterTypeOK
    <2>2. /\ call' \in [Caller -> CallRec] /\ call'[c].at = "ok" /\ ~call'[c].fresh
          /\ \A d \in Caller \ {c} : call'[d] = call[d]
          BY <2>1, AtSets DEF Busy
    <2>3. BlasterTypeOK'
          BY <2>1, <2>2 DEF BlasterTypeOK
    <2>4. LockInv'
          BY <2>1, <2>2 DEF LockInv, Alone, BlasterTypeOK, Thread
    <2>5. FreshInv' /\ PictureIsTrue'
          BY <2>1, <2>2 DEF FreshInv, PictureIsTrue
    <2> QED BY <2>3, <2>4, <2>5
  <1>5. CASE Record(c)
    <2>1. /\ call[c].at = "recording" /\ At(c, "ok")
          /\ UNCHANGED <<holder, threads, codes, devices, ac, drops>>
          BY <1>5 DEF Record
    <2>2. /\ call' \in [Caller -> CallRec] /\ call'[c].at = "ok" /\ ~call'[c].fresh
          /\ \A d \in Caller \ {c} : call'[d] = call[d]
          BY <2>1, AtSets DEF Busy
    <2>3. \/ call[c].cmd \in Code /\ UNCHANGED <<climate, astray>>
          \/ call[c].cmd = Nil /\ astray' = ~call[c].fresh
          \/ call[c].cmd = "on" /\ climate' = [power |-> TRUE, settings |-> TRUE] /\ astray' = ~call[c].fresh
          \/ /\ call[c].cmd = "off" /\ astray' = ~call[c].fresh
             /\ climate' = [power |-> FALSE, settings |-> climate # Nil /\ climate.settings]
      <3>1. call[c].cmd \in State \cup Code \cup {Nil}
            BY DEF BlasterTypeOK, CallRec
      <3> QED BY <1>5, <3>1, BlasterAssumption DEF Record, State
    <2>4. climate' \in ClimateRec \cup {Nil} /\ astray' \in BOOLEAN
          BY <1>5 DEF Record, State, ClimateRec, BlasterTypeOK, CallRec
    <2>5. BlasterTypeOK'
          BY <2>1, <2>2, <2>4 DEF BlasterTypeOK
    <2>6. LockInv'
          BY <2>1, <2>2 DEF LockInv, Alone, BlasterTypeOK, Thread
    <2>7. FreshInv'
          BY <2>1, <2>2 DEF FreshInv
    <2>8. PictureIsTrue'
      <3>1. CASE call[c].cmd \in Code \cup {Nil}
            BY <2>1, <2>2, <2>3, <3>1, BlasterAssumption DEF PictureIsTrue, FreshInv, State
      <3>2. CASE call[c].cmd = "on"
        <4>1. call[c].fresh => ac = TRUE
              BY <3>2 DEF FreshInv, State
        <4>2. climate'.power = TRUE /\ astray' = ~call[c].fresh
              BY <2>3, <3>2, BlasterAssumption DEF State
        <4>3. ac' = ac
              BY <2>1
        <4> QED BY <4>1, <4>2, <4>3 DEF PictureIsTrue
      <3>3. CASE call[c].cmd = "off"
        <4>1. call[c].fresh => ac = FALSE
              BY <3>3 DEF FreshInv, State
        <4>2. climate'.power = FALSE /\ astray' = ~call[c].fresh
              BY <2>3, <3>3, BlasterAssumption DEF State
        <4>3. ac' = ac
              BY <2>1
        <4> QED BY <4>1, <4>2, <4>3 DEF PictureIsTrue
      <3> QED BY <3>1, <3>2, <3>3 DEF BlasterTypeOK, CallRec, State
    <2> QED BY <2>5, <2>6, <2>7, <2>8
  <1> QED BY <1>1, <1>2, <1>3, <1>4, <1>5 DEF Serves

\* A dropped call lets the lock go and orphans its thread.
LEMMA AbandonKeeps ==
  ASSUME BlasterInv, NEW c \in Caller, Abandon(c), drops' \in 0 .. MaxDrops
  PROVE  BlasterInv'
  <1> USE DEF BlasterInv
  <1>1. /\ holder' = (IF holder = c THEN Nil ELSE holder)
        /\ threads' = Tied(c, "orphan") /\ At(c, "failed")
        /\ astray' = (astray \/ (call[c].at = "recording" /\ call[c].cmd \in State))
        /\ UNCHANGED <<codes, devices, climate, ac>>
        BY DEF Abandon
  <1>2. /\ call' \in [Caller -> CallRec] /\ call'[c].at = "failed" /\ ~call'[c].fresh
        /\ \A d \in Caller \ {c} : call'[d] = call[d]
        BY <1>1, AtSets DEF Busy
  <1>3. threads' \subseteq Thread /\ \A t \in threads' : t.tie = "orphan" \/ (t \in threads /\ ~(t.by = c /\ t.tie = "waited"))
        BY <1>1, TiedTies
  <1>4. BlasterTypeOK'
        BY <1>1, <1>2, <1>3 DEF BlasterTypeOK
  <1>5. LockInv'
    <2>1. Alone'
          BY <1>3 DEF LockInv, Alone
    <2>2. \A d \in Caller : call'[d].at = "talking" => holder' = d
          BY <1>1, <1>2 DEF LockInv
    <2>3. \A t \in threads' : t.tie = "waited" => /\ holder' = t.by /\ call'[t.by].at = "talking"
                                                  /\ t.op = call'[t.by].op /\ t.cmd = call'[t.by].cmd
          BY <1>1, <1>2, <1>3 DEF LockInv, Thread
    <2>4. \A t \in threads' : t.tie = "kept" => holder' = "thread" /\ t.op = "learn"
          BY <1>1, <1>3, BlasterAssumption DEF LockInv
    <2> QED BY <2>1, <2>2, <2>3, <2>4 DEF LockInv
  <1>6. FreshInv'
        BY <1>1, <1>2 DEF FreshInv
  <1>7. PictureIsTrue'
    <2> SUFFICES ASSUME climate # Nil, climate.power # ac, ~astray'
                 PROVE  \E d \in Caller : call'[d].at = "recording" /\ call'[d].fresh
        BY <1>1 DEF PictureIsTrue
    <2>1. PICK d \in Caller : call[d].at = "recording" /\ call[d].fresh
          BY <1>1 DEF PictureIsTrue
    <2>2. d # c
          BY <1>1, <2>1 DEF FreshInv
    <2> QED BY <1>2, <2>1, <2>2
  <1> QED BY <1>4, <1>5, <1>6, <1>7

\* A thread that is over is no longer there, and the lock is free unless the thread was an orphan.
LEMMA EndsLock ==
  ASSUME BlasterInv, NEW t \in threads, Ends(t), call' \in [Caller -> CallRec],
         \A c \in Caller : call'[c].at = "talking" => call[c].at = "talking" /\ ~(c = t.by /\ t.tie = "waited"),
         \A c \in Caller : call[c].at = "talking" /\ ~(c = t.by /\ t.tie = "waited") =>
             call'[c].at = "talking" /\ call'[c].op = call[c].op /\ call'[c].cmd = call[c].cmd
  PROVE  LockInv' /\ threads' \subseteq Thread /\ holder' \in Caller \cup {"thread", Nil}
  <1> USE DEF BlasterInv, BlasterTypeOK
  <1>1. threads' = threads \ {t} /\ holder' = (IF t.tie = "orphan" THEN holder ELSE Nil) /\ t \in Thread
        BY DEF Ends
  <1>2. CASE t.tie = "orphan"
    <2>1. \A c \in Caller : call'[c].at = "talking" => holder' = c
          BY <1>1, <1>2 DEF LockInv
    <2>2. \A u \in threads' : u.tie = "waited" => /\ holder' = u.by /\ call'[u.by].at = "talking"
                                                  /\ u.op = call'[u.by].op /\ u.cmd = call'[u.by].cmd
          BY <1>1, <1>2 DEF LockInv, Thread
    <2> QED BY <1>1, <1>2, <2>1, <2>2 DEF LockInv, Alone
  <1>3. CASE t.tie # "orphan"
    <2>1. \A u \in threads' : u.tie = "orphan"
          BY <1>1, <1>3 DEF LockInv, Alone
    <2>2. \A c \in Caller : call'[c].at # "talking"
          BY <1>1, <1>3, BlasterAssumption DEF LockInv, Thread
    <2> QED BY <1>1, <1>3, <2>1, <2>2 DEF LockInv, Alone
  <1> QED BY <1>2, <1>3

\* The air conditioner hears a state, or may have done anything, or nothing was for it.
LEMMA EndKeeps ==
  ASSUME BlasterInv, NEW t \in threads, ThreadEnds(t)
  PROVE  BlasterInv'
  <1> USE DEF BlasterInv
  <1>1. Ends(t) /\ UNCHANGED <<codes, climate, drops>> /\ devices' \in BOOLEAN /\ t \in Thread
        BY DEF ThreadEnds, BlasterTypeOK
  <1>2. Then(t) \in {"saving", "recording", "ok"} /\ (t.op = "climate" => Then(t) = "recording")
        BY DEF Then
  <1>3. t.tie = "waited" => call[t.by].at = "talking" /\ call[t.by].cmd = t.cmd /\ ~call[t.by].fresh
        BY <1>1 DEF LockInv, FreshInv, Thread
  <1>4. CASE t.op = "climate" /\ t.cmd \in State
    <2>1. /\ ac' = (t.cmd = "on") /\ ac' \in BOOLEAN
          /\ astray' = (astray \/ t.tie = "orphan") /\ astray' \in BOOLEAN
          BY <1>4 DEF ThreadEnds, Hears, BlasterTypeOK
    <2>2. call' = [c \in Caller |->
                     IF c = t.by /\ t.tie = "waited" THEN [call[c] EXCEPT !.at = Then(t), !.fresh = TRUE]
                     ELSE [call[c] EXCEPT !.fresh = FALSE]]
          BY <1>4 DEF ThreadEnds, Hears
    <2>3. /\ call' \in [Caller -> CallRec]
          /\ \A c \in Caller : /\ call'[c].op = call[c].op /\ call'[c].cmd = call[c].cmd
                               /\ c = t.by /\ t.tie = "waited" => call'[c].at = "recording" /\ call'[c].fresh
                               /\ ~(c = t.by /\ t.tie = "waited") => call'[c].at = call[c].at /\ ~call'[c].fresh
          BY <1>2, <1>4, <2>2 DEF BlasterTypeOK, CallRec, Busy
    <2>4. LockInv' /\ threads' \subseteq Thread /\ holder' \in Caller \cup {"thread", Nil}
          BY <1>1, <2>3, EndsLock
    <2>5. BlasterTypeOK'
          BY <1>1, <2>1, <2>3, <2>4 DEF BlasterTypeOK
    <2>6. FreshInv'
          BY <1>3, <1>4, <2>1, <2>3 DEF FreshInv
    <2>7. PictureIsTrue'
      <3>1. t.tie # "kept"
            BY <1>4 DEF LockInv
      <3>2. CASE t.tie = "waited"
            BY <1>1, <2>3, <3>2 DEF PictureIsTrue, Thread
      <3>3. CASE t.tie = "orphan"
            BY <2>1, <3>3 DEF PictureIsTrue
      <3> QED BY <1>1, <3>1, <3>2, <3>3 DEF Thread
    <2> QED BY <2>4, <2>5, <2>6, <2>7
  <1>5. CASE ~(t.op = "climate" /\ t.cmd \in State)
    <2> DEFINE known(c) == [call[c] EXCEPT !.fresh = @ /\ ac' = ac]
    <2>1. /\ ac' \in BOOLEAN
          /\ call' = [c \in Caller |-> IF c # t.by \/ t.tie # "waited" THEN known(c)
                                       ELSE IF Then(t) \in Busy THEN [known(c) EXCEPT !.at = Then(t)] ELSE Idle]
          /\ astray' = (astray \/ ac' # ac) /\ astray' \in BOOLEAN
          BY <1>5 DEF ThreadEnds, BlasterTypeOK
    <2>2. \A c \in Caller : /\ known(c) \in CallRec /\ known(c).at = call[c].at
                            /\ known(c).op = call[c].op /\ known(c).cmd = call[c].cmd
                            /\ known(c).fresh = (call[c].fresh /\ ac' = ac)
          BY DEF BlasterTypeOK, CallRec
    <2>3. Idle \in CallRec /\ Idle.at = "ok" /\ ~Idle.fresh
          BY BlasterAssumption DEF Idle, CallRec, Busy, Op
    <2> HIDE DEF known
    <2>4. /\ call' \in [Caller -> CallRec]
          /\ \A c \in Caller :
               /\ ~(c = t.by /\ t.tie = "waited") => call'[c] = known(c)
               /\ c = t.by /\ t.tie = "waited" => call'[c].at \in {"saving", "recording", "ok"} /\ ~call'[c].fresh
      <3>1. \A c \in Caller : Then(t) \in Busy => LET k == [known(c) EXCEPT !.at = Then(t)]
                                                  IN  k \in CallRec /\ k.at = Then(t) /\ k.fresh = known(c).fresh
            BY <2>2 DEF CallRec
      <3>2. \A c \in Caller : c = t.by /\ t.tie = "waited" => ~known(c).fresh
            BY <1>3, <2>2
      <3> QED BY <1>2, <2>1, <2>2, <2>3, <3>1, <3>2
    <2>5. LockInv' /\ threads' \subseteq Thread /\ holder' \in Caller \cup {"thread", Nil}
          BY <1>1, <2>2, <2>4, EndsLock
    <2>6. BlasterTypeOK'
          BY <1>1, <2>1, <2>4, <2>5 DEF BlasterTypeOK
    <2>7. FreshInv'
      <3> SUFFICES ASSUME NEW c \in Caller, call'[c].fresh
                   PROVE  call'[c].at = "recording" /\ call'[c].cmd \in State /\ ac' = (call'[c].cmd = "on")
          BY DEF FreshInv
      <3>1. call'[c] = known(c)
            BY <2>4
      <3>2. call[c].fresh /\ ac' = ac
            BY <2>2, <3>1
      <3>3. call[c].at = "recording" /\ call[c].cmd \in State /\ ac = (call[c].cmd = "on")
            BY <3>2 DEF FreshInv
      <3> QED BY <2>2, <3>1, <3>2, <3>3
    <2>8. PictureIsTrue'
      <3> SUFFICES ASSUME climate # Nil, climate.power # ac', ~astray'
                   PROVE  \E c \in Caller : call'[c].at = "recording" /\ call'[c].fresh
          BY <1>1 DEF PictureIsTrue
      <3>1. ac' = ac /\ ~astray
            BY <2>1
      <3>2. PICK c \in Caller : call[c].at = "recording" /\ call[c].fresh
            BY <3>1 DEF PictureIsTrue
      <3>3. ~(c = t.by /\ t.tie = "waited")
            BY <1>3, <3>2
      <3> QED BY <2>2, <2>4, <3>1, <3>2, <3>3
    <2> QED BY <2>5, <2>6, <2>7, <2>8
  <1> QED BY <1>4, <1>5

\* A thread that failed leaves its caller with an answer; what it may have sent all the same is
\* known to be unrecorded.
LEMMA FailKeeps ==
  ASSUME BlasterInv, NEW t \in threads, ThreadFails(t)
  PROVE  BlasterInv'
  <1> USE DEF BlasterInv
  <1> DEFINE known(c) == [call[c] EXCEPT !.fresh = @ /\ ac' = ac]
  <1>1. /\ Ends(t) /\ UNCHANGED <<codes, devices, climate, drops>> /\ t \in Thread
        /\ \E at \in {"ok", "failed"} :
              call' = [c \in Caller |-> IF c = t.by /\ t.tie = "waited" THEN [Idle EXCEPT !.at = at] ELSE known(c)]
        /\ astray' = (astray \/ ac' # ac) /\ astray' \in BOOLEAN
        BY DEF ThreadFails, BlasterTypeOK
  <1>2. ac' \in BOOLEAN
        BY DEF ThreadFails, BlasterTypeOK
  <1>3. \A c \in Caller : /\ known(c) \in CallRec /\ known(c).at = call[c].at
                          /\ known(c).op = call[c].op /\ known(c).cmd = call[c].cmd
                          /\ known(c).fresh = (call[c].fresh /\ ac' = ac)
        BY DEF BlasterTypeOK, CallRec
  <1>4. \A at \in {"ok", "failed"} : LET i == [Idle EXCEPT !.at = at] IN i \in CallRec /\ i.at = at /\ ~i.fresh
        BY BlasterAssumption DEF Idle, CallRec, Busy, Op
  <1> HIDE DEF known
  <1>5. /\ call' \in [Caller -> CallRec]
        /\ \A c \in Caller : /\ ~(c = t.by /\ t.tie = "waited") => call'[c] = known(c)
                             /\ c = t.by /\ t.tie = "waited" => call'[c].at \in {"ok", "failed"} /\ ~call'[c].fresh
        BY <1>1, <1>3, <1>4
  <1>6. LockInv' /\ threads' \subseteq Thread /\ holder' \in Caller \cup {"thread", Nil}
        BY <1>1, <1>3, <1>5, EndsLock
  <1>7. BlasterTypeOK'
        BY <1>1, <1>2, <1>5, <1>6 DEF BlasterTypeOK
  <1>8. FreshInv'
    <2> SUFFICES ASSUME NEW c \in Caller, call'[c].fresh
                 PROVE  call'[c].at = "recording" /\ call'[c].cmd \in State /\ ac' = (call'[c].cmd = "on")
        BY DEF FreshInv
    <2>1. call'[c] = known(c)
          BY <1>5
    <2>2. call[c].fresh /\ ac' = ac
          BY <1>3, <2>1
    <2>3. call[c].at = "recording" /\ call[c].cmd \in State /\ ac = (call[c].cmd = "on")
          BY <2>2 DEF FreshInv
    <2> QED BY <1>3, <2>1, <2>2, <2>3
  <1>9. PictureIsTrue'
    <2> SUFFICES ASSUME climate # Nil, climate.power # ac', ~astray'
                 PROVE  \E c \in Caller : call'[c].at = "recording" /\ call'[c].fresh
        BY <1>1 DEF PictureIsTrue
    <2>1. ac' = ac /\ ~astray
          BY <1>1
    <2>2. PICK c \in Caller : call[c].at = "recording" /\ call[c].fresh
          BY <2>1 DEF PictureIsTrue
    <2>3. ~(c = t.by /\ t.tie = "waited")
          BY <2>2 DEF LockInv
    <2> QED BY <1>3, <1>5, <2>1, <2>2, <2>3
  <1> QED BY <1>6, <1>7, <1>8, <1>9

\* Whatever the blaster is asked and however it ends.
LEMMA BlasterKeeps == BlasterInv /\ (BlasterNext \/ UNCHANGED blaster) => BlasterInv'
  <1> SUFFICES ASSUME BlasterInv, BlasterNext \/ UNCHANGED blaster PROVE BlasterInv'
      OBVIOUS
  <1>1. CASE UNCHANGED blaster
    <2>1. BlasterTypeOK' /\ LockInv' /\ FreshInv' /\ PictureIsTrue'
          BY <1>1 DEF blaster, BlasterInv, BlasterTypeOK, LockInv, Alone, FreshInv, PictureIsTrue
    <2> QED BY <2>1 DEF BlasterInv
  <1>2. ASSUME NEW c \in Caller, Drop(c) PROVE BlasterInv'
    <2>1. drops' \in 0 .. MaxDrops /\ Abandon(c)
          BY <1>2, BlasterAssumption DEF Drop, BlasterInv, BlasterTypeOK
    <2> QED BY <2>1, AbandonKeeps
  <1>3. ASSUME NEW c \in Caller, Abandon(c), UNCHANGED drops PROVE BlasterInv'
        BY <1>3, AbandonKeeps DEF BlasterInv, BlasterTypeOK
  <1> QED BY <1>1, <1>2, <1>3, AskKeeps, ServesKeeps, EndKeeps, FailKeeps DEF BlasterNext

-----------------------------------------------------------------------------
(* Keys, channels and runs: the invariant.                                 *)

ChanRec == [key : Key, jobs : Seq(Seq(Action))]

RemoteTypes ==
    /\ keymap \in [Key -> Binding \cup {Nil}]
    /\ scenes \in [Scene -> Seq(Action) \cup {Nil}]
    /\ pressed \subseteq Key
    /\ event \in [Event -> [key : Key, binding : Binding, kind : {"press", "repeat"}] \cup {Nil}]
    /\ queue \in [Key -> Chan \cup {Nil}]
    /\ chan \in [Chan -> ChanRec \cup {Nil}]
    /\ run \in [Runner -> RunRec \cup {Nil}]

\* A key has one channel, a channel's runs are its own, and only a run calls from a channel.
ChanInv ==
    /\ \A x \in Chan : chan[x] # Nil => queue[chan[x].key] = x /\ Len(chan[x].jobs) <= KeyQueue
    /\ \A x \in Chan : run[x] # Nil => chan[x] # Nil
    /\ \A x \in Chan : run[x] = Nil => Free(x)

AtHand(q) == IF q.inner # <<>> THEN Head(q.inner) ELSE Head(q.todo)

\* A run q has something left to do; what it sent, the call c, is what it decided.
RunFits(q, c) ==
    /\ q.inner # <<>> \/ q.todo # <<>>
    /\ q.toggles => q.order # Nil
    /\ c.at \notin {"ok", "failed"} => /\ q.sent /\ AtHand(q).what # "switch"
                                       /\ q.order # Nil => c.op = "climate" /\ c.cmd = q.order

\* A toggle that read the truth, with nobody in between: the air conditioner is as it was read.
Flips(q, c) ==
    /\ q.toggles /\ ~q.blind /\ ~q.crossed
    /\ ~q.sent \/ c.at \in {"asking", "talking"}
    => ac = (q.order = "off")

RunInv == \A r \in Runner : run[r] # Nil => RunFits(run[r], call[r]) /\ Flips(run[r], call[r])

IInv == BlasterInv /\ RemoteTypes /\ ChanInv /\ RunInv

\* The first state: no key has a channel, nothing runs.
LEMMA InitIInv == Init => IInv
  <1> SUFFICES ASSUME Init PROVE IInv
      OBVIOUS
  <1> USE RemoteAssumption, BlasterAssumption DEF Init
  <1>1. BlasterInv
        BY BlasterInitInv
  <1>2. RemoteTypes
        BY DEF RemoteTypes
  <1>3. \A c \in Caller : Free(c)
        BY DEF BlasterInit, Idle, Free
  <1>4. ChanInv /\ RunInv
        BY <1>3 DEF ChanInv, RunInv, Runner
  <1> QED BY <1>1, <1>2, <1>4 DEF IInv

-----------------------------------------------------------------------------
(* Runs.                                                                   *)

\* A new run is at rest.
LEMMA RunsFit ==
  ASSUME NEW actions \in Seq(Action)
  PROVE  LET q == Runs(actions) IN
         q \in RunRec /\ q.todo = actions /\ q.inner = <<>> /\ q.order = Nil /\ ~q.toggles /\ ~q.sent
  BY DEF Runs, RunRec

\* A run goes on when it has something left.
LEMMA GoingFits ==
  ASSUME NEW q \in RunRec, NEW c \in CallRec, ~q.toggles, c.at \in {"ok", "failed"}
  PROVE  /\ Going(q) \in RunRec \cup {Nil}
         /\ Going(q) # Nil => RunFits(Going(q), c) /\ Flips(Going(q), c)
  BY DEF Going, RunFits, Flips

\* After an action, the rest.
LEMMA PassedFits ==
  ASSUME RemoteTypes, RunInv, NEW r \in Runner, run[r] # Nil, NEW c \in CallRec, c.at \in {"ok", "failed"}
  PROVE  /\ Passed(r) \in RunRec \cup {Nil}
         /\ Passed(r) # Nil => RunFits(Passed(r), c) /\ Flips(Passed(r), c)
  <1>1. run[r] \in RunRec /\ run[r].todo \in Seq(Action) /\ run[r].inner \in Seq(Action)
        BY DEF RemoteTypes, RunRec
  <1>2. CASE run[r].inner # <<>>
    <2> DEFINE q == [Runs(run[r].todo) EXCEPT !.inner = Tail(run[r].inner)]
    <2>1. q \in RunRec /\ ~q.toggles
      <3>1. Tail(run[r].inner) \in Seq(Action)
            BY <1>1, <1>2
      <3>2. Runs(run[r].todo) \in RunRec /\ ~Runs(run[r].todo).toggles
            BY <1>1, RunsFit
      <3> QED BY <3>1, <3>2 DEF RunRec
    <2>2. Passed(r) = Going(q)
          BY <1>2 DEF Passed
    <2> HIDE DEF q
    <2> QED BY <2>1, <2>2, GoingFits
  <1>3. CASE run[r].inner = <<>>
    <2>1. run[r].todo # <<>>
          BY <1>3 DEF RunInv, RunFits
    <2>2. Tail(run[r].todo) \in Seq(Action)
          BY <1>1, <2>1
    <2>3. Passed(r) = Going(Runs(Tail(run[r].todo)))
          BY <1>3 DEF Passed
    <2> QED BY <2>2, <2>3, RunsFit, GoingFits
  <1> QED BY <1>2, <1>3

\* The action at hand is one.
LEMMA CurrentFits ==
  ASSUME RemoteTypes, RunInv, NEW r \in Runner, run[r] # Nil
  PROVE  Current(r) \in Action
  <1>1. /\ run[r].todo \in Seq(Action) /\ run[r].inner \in Seq(Action)
        /\ run[r].inner # <<>> \/ run[r].todo # <<>>
        BY DEF RemoteTypes, RunRec, RunInv, RunFits
  <1> QED BY <1>1 DEF Current

\* One run changes and nothing else.
LEMMA OneRun ==
  ASSUME RemoteTypes, ChanInv, RunInv, NEW r \in Runner, NEW q \in RunRec \cup {Nil},
         run' = [run EXCEPT ![r] = q], UNCHANGED <<call, ac, queue, chan>>,
         q # Nil => RunFits(q, call[r]) /\ Flips(q, call[r]),
         r \in Chan => (q = Nil => Free(r)) /\ (q # Nil => chan[r] # Nil)
  PROVE  run' \in [Runner -> RunRec \cup {Nil}] /\ ChanInv' /\ RunInv'
  <1>1. /\ run' \in [Runner -> RunRec \cup {Nil}]
        /\ run'[r] = q /\ \A s \in Runner \ {r} : run'[s] = run[s]
        BY DEF RemoteTypes
  <1>2. ChanInv'
        BY <1>1 DEF ChanInv, Free, Runner
  <1>3. RunInv'
        BY <1>1 DEF RunInv, RunFits, Flips
  <1> QED BY <1>1, <1>2, <1>3

\* What every step but Ask does to a caller: it goes on with what it asked, or has its answer.
Goes(c) ==
    /\ call'[c].at \notin {"ok", "failed"} => call[c].at \notin {"ok", "failed"} /\ call'[c].op = call[c].op /\ call'[c].cmd = call[c].cmd
    /\ call'[c].at \in {"asking", "talking"} => call[c].at \in {"asking", "talking"}

\* The runs do not notice.
LEMMA QuietRuns ==
  ASSUME RemoteTypes, ChanInv, RunInv, UNCHANGED <<run, ac, queue, chan>>, \A c \in Caller : Goes(c)
  PROVE  run' \in [Runner -> RunRec \cup {Nil}] /\ ChanInv' /\ RunInv'
  <1>1. Runner \subseteq Caller
        BY RemoteAssumption DEF Runner
  <1>2. ChanInv'
        BY <1>1 DEF ChanInv, Free, Goes, Runner
  <1>3. RunInv'
        BY <1>1 DEF RunInv, RunFits, Flips, Goes
  <1> QED BY <1>2, <1>3 DEF RemoteTypes

\* An action of a run, but for the one that calls the blaster.
LEMMA ActsFit ==
  ASSUME IInv, NEW r \in Runner,
         ActScene(r) \/ ActOrder(r) \/ ActResolve(r) \/ ActSwitch(r) \/ ActClimate(r) \/ ActSent(r)
  PROVE  run' \in [Runner -> RunRec \cup {Nil}] /\ ChanInv' /\ RunInv'
  <1> DEFINE Result == run' \in [Runner -> RunRec \cup {Nil}] /\ ChanInv' /\ RunInv'
  <1> USE DEF IInv
  <1>1. /\ run[r] # Nil /\ UNCHANGED blaster /\ UNCHANGED <<queue, chan>>
        /\ r \in Caller /\ call[r] \in CallRec /\ run[r] \in RunRec /\ scenes \in [Scene -> Seq(Action) \cup {Nil}]
        /\ run[r].order # Nil => run[r].order \in State
        BY RemoteAssumption DEF ActScene, ActOrder, ActResolve, ActSwitch, ActClimate, ActSent, Acting, Rest,
                                BlasterInv, BlasterTypeOK, RemoteTypes, RunRec, Runner, State
  <1>2. UNCHANGED <<call, ac>>
        BY <1>1 DEF blaster
  <1>3. RunFits(run[r], call[r]) /\ Flips(run[r], call[r]) /\ (r \in Chan => chan[r] # Nil)
        BY <1>1 DEF RunInv, ChanInv
  <1>4. ASSUME ~run[r].sent \/ Free(r) PROVE Free(r) /\ call[r].at \in {"ok", "failed"}
        BY <1>3, <1>4 DEF RunFits, Free
  <1>5. ASSUME Pass(r), Free(r) PROVE Result
    <2>1. /\ Passed(r) \in RunRec \cup {Nil}
          /\ Passed(r) # Nil => RunFits(Passed(r), call[r]) /\ Flips(Passed(r), call[r])
          BY <1>1, <1>5, PassedFits DEF Free
    <2>2. run' = [run EXCEPT ![r] = Passed(r)]
          BY <1>5 DEF Pass
    <2> QED BY <1>1, <1>2, <1>3, <1>5, <2>1, <2>2, OneRun
  <1>6. ASSUME NEW q \in RunRec \cup {Nil}, run' = [run EXCEPT ![r] = q], Free(r),
               q # Nil => RunFits(q, call[r]) /\ Flips(q, call[r])
        PROVE  Result
        BY <1>1, <1>2, <1>3, <1>6, OneRun
  <1> HIDE DEF Result
  <1>7. ASSUME ActScene(r) PROVE Result
    <2>1. ~run[r].sent /\ run[r].order = Nil /\ Current(r).what = "scene" /\ Current(r).to \in Scene
          BY <1>1, <1>7, CurrentFits DEF ActScene, Acting, Action
    <2>2. Free(r) /\ call[r].at \in {"ok", "failed"}
          BY <1>4, <2>1
    <2> DEFINE found == scenes[Current(r).to]
               q == [run[r] EXCEPT !.todo = Tail(@), !.inner = found]
    <2>3. \/ Pass(r)
          \/ run[r].inner = <<>> /\ found # Nil /\ run' = [run EXCEPT ![r] = Going(q)]
          BY <1>7 DEF ActScene
    <2>4. CASE run[r].inner = <<>> /\ found # Nil /\ run' = [run EXCEPT ![r] = Going(q)]
      <3>1. run[r].todo # <<>> /\ run[r].todo \in Seq(Action) /\ found \in Seq(Action) /\ ~run[r].toggles
            BY <1>1, <1>3, <2>1, <2>4 DEF RunFits, RunRec
      <3>2. Tail(run[r].todo) \in Seq(Action)
            BY <3>1
      <3>3. q \in RunRec /\ ~q.toggles
            BY <1>1, <3>1, <3>2 DEF RunRec
      <3> HIDE DEF q
      <3> QED BY <1>1, <1>6, <2>2, <2>4, <3>3, GoingFits
    <2> QED BY <1>5, <2>2, <2>3, <2>4
  <1>8. ASSUME ActOrder(r) PROVE Result
        BY <1>4, <1>5, <1>8 DEF ActOrder, Acting
  <1>9. ASSUME ActResolve(r) PROVE Result
    <2>1. PICK to \in {"on", "off"} : run' = [run EXCEPT ![r].order = to]
          BY <1>9 DEF ActResolve
    <2>2. ~run[r].sent /\ run[r].order = Nil
          BY <1>9 DEF ActResolve, Acting
    <2> DEFINE q == [run[r] EXCEPT !.order = to]
    <2>3. q \in RunRec /\ q.toggles = run[r].toggles /\ q.inner = run[r].inner /\ q.todo = run[r].todo
          BY <1>1 DEF RunRec
    <2>4. run' = [run EXCEPT ![r] = q]
          BY <1>1, <2>1 DEF RemoteTypes
    <2> HIDE DEF q
    <2>5. Free(r) /\ ~q.toggles /\ RunFits(q, call[r]) /\ Flips(q, call[r])
          BY <1>3, <1>4, <2>2, <2>3 DEF RunFits, Flips
    <2> QED BY <1>6, <2>3, <2>4, <2>5
  <1>10. ASSUME ActSwitch(r) PROVE Result
    <2>1. run[r].order # Nil /\ Current(r).what = "switch" /\ Pass(r)
          BY <1>10 DEF ActSwitch
    <2>2. Free(r)
      <3>1. AtHand(run[r]).what = "switch"
            BY <2>1 DEF Current, AtHand
      <3> QED BY <1>3, <3>1 DEF RunFits, Free
    <2> QED BY <1>5, <2>1, <2>2
  <1>11. ASSUME ActClimate(r) PROVE Result
    <2>1. /\ ~run[r].sent /\ run[r].order = Nil /\ Current(r).what = "climate"
          /\ Current(r).to \in {"on", "off", "toggle"}
          BY <1>1, <1>11, CurrentFits DEF ActClimate, Acting, Action
    <2>2. Free(r) /\ call[r].at \in {"ok", "failed"}
          BY <1>4, <2>1
    <2> DEFINE to == Current(r).to
               order == IF to = "toggle" THEN (IF IsOn THEN "off" ELSE "on") ELSE to
               q == [run[r] EXCEPT !.order = order, !.toggles = (to = "toggle"), !.blind = (IsOn # ac)]
    <2>3. Pass(r) \/ run' = [run EXCEPT ![r] = q]
      <3>1. Pass(r) \/ run' = [run EXCEPT ![r].order = order, ![r].toggles = (to = "toggle"), ![r].blind = (IsOn # ac)]
            BY <1>11 DEF ActClimate
      <3> QED BY <1>1, <3>1 DEF RemoteTypes
    <2>4. /\ order \in {"on", "off"} /\ (to = "toggle" => (order = "off" <=> IsOn))
          /\ IsOn \in BOOLEAN /\ ac \in BOOLEAN
      <3>1. IsOn \in BOOLEAN /\ ac \in BOOLEAN
            BY DEF IsOn, ClimateRec, BlasterInv, BlasterTypeOK
      <3> HIDE DEF to
      <3> QED BY <2>1, <3>1 DEF to
    <2>5. /\ q \in RunRec /\ q.inner = run[r].inner /\ q.todo = run[r].todo /\ q.order = order
          /\ q.toggles = (to = "toggle") /\ q.blind = (IsOn # ac)
          BY <1>1, <2>4 DEF RunRec
    <2>6. RunFits(q, call[r])
          BY <1>3, <2>2, <2>4, <2>5, BlasterAssumption DEF RunFits, State
    <2>7. Flips(q, call[r])
          BY <2>4, <2>5 DEF Flips
    <2> HIDE DEF q
    <2> QED BY <1>5, <1>6, <2>2, <2>3, <2>5, <2>6, <2>7
  <1>12. ASSUME ActSent(r) PROVE Result
         BY <1>5, <1>12 DEF ActSent
  <1> QED BY <1>7, <1>8, <1>9, <1>10, <1>11, <1>12 DEF Result

\* What Ask does to the calls.
LEMMA AskSets ==
  ASSUME BlasterTypeOK, NEW c \in Caller, NEW op \in Op, NEW cmd \in State \cup Code \cup {Nil}, Ask(c, op, cmd)
  PROVE  /\ Free(c) /\ call'[c].at \in {"failed", "ok", "asking"} /\ UNCHANGED ac
         /\ call'[c].at = "asking" => call'[c].op = op /\ call'[c].cmd = cmd
         /\ \A d \in Caller \ {c} : call'[d] = call[d]
  <1> DEFINE known == cmd \in codes \cup State \cup {Nil}
             at == CASE ~known -> "failed"
                     [] op = "discover" /\ devices -> "ok"
                     [] OTHER -> "asking"
             new == IF at \in Busy THEN [at |-> at, op |-> op, cmd |-> cmd, fresh |-> FALSE]
                    ELSE [Idle EXCEPT !.at = at]
  <1>1. at \in {"failed", "ok", "asking"}
        OBVIOUS
  <1>2. Free(c) /\ call' = [call EXCEPT ![c] = new] /\ UNCHANGED ac
        BY DEF Ask
  <1> HIDE DEF at
  <1>3. new.at = at /\ (at = "asking" => new.op = op /\ new.cmd = cmd)
        BY <1>1 DEF Idle, Busy
  <1> HIDE DEF new
  <1> QED BY <1>1, <1>2, <1>3 DEF BlasterTypeOK

\* The action that calls the blaster.
LEMMA SendFits ==
  ASSUME IInv, NEW r \in Runner, ActSend(r)
  PROVE  /\ run' \in [Runner -> RunRec \cup {Nil}] /\ ChanInv' /\ RunInv'
         /\ \E op \in Op, cmd \in State \cup Code \cup {Nil} : Ask(r, op, cmd)
  <1> USE DEF IInv
  <1>1. /\ run[r] # Nil /\ ~run[r].sent /\ run' = [run EXCEPT ![r].sent = TRUE] /\ UNCHANGED <<queue, chan>>
        /\ r \in Caller /\ Runner \subseteq Caller /\ run[r] \in RunRec /\ BlasterTypeOK
        BY RemoteAssumption DEF ActSend, Rest, RemoteTypes, Runner, BlasterInv
  <1>2. RunFits(run[r], call[r]) /\ Flips(run[r], call[r])
        BY <1>1 DEF RunInv
  <1>3. \E op \in Op, cmd \in State \cup Code \cup {Nil} :
           Ask(r, op, cmd) /\ Current(r).what # "switch" /\ (run[r].order # Nil => op = "climate" /\ cmd = run[r].order)
    <2>1. CASE run[r].order # Nil /\ Current(r).what = "climate" /\ Ask(r, "climate", run[r].order)
          BY <1>1, <2>1 DEF RunRec, State, Op
    <2>2. CASE Acting(r, "code") /\ Ask(r, "send", Current(r).to)
      <3>1. Current(r).what = "code" /\ Current(r).to \in Code /\ run[r].order = Nil
            BY <1>1, <2>2, CurrentFits DEF Acting, Action
      <3> QED BY <2>2, <3>1 DEF Op
    <2> QED BY <2>1, <2>2 DEF ActSend
  <1>4. PICK op \in Op, cmd \in State \cup Code \cup {Nil} :
           Ask(r, op, cmd) /\ Current(r).what # "switch" /\ (run[r].order # Nil => op = "climate" /\ cmd = run[r].order)
        BY <1>3
  <1> DEFINE q == [run[r] EXCEPT !.sent = TRUE]
  <1>5. /\ q \in RunRec /\ q.sent /\ q.inner = run[r].inner /\ q.todo = run[r].todo /\ q.order = run[r].order
        /\ q.toggles = run[r].toggles /\ q.blind = run[r].blind /\ q.crossed = run[r].crossed
        BY <1>1 DEF RunRec
  <1>6. run' \in [Runner -> RunRec \cup {Nil}] /\ run'[r] = q /\ \A s \in Runner \ {r} : run'[s] = run[s]
    <2>1. run' = [run EXCEPT ![r] = q]
          BY <1>1 DEF RemoteTypes
    <2> HIDE DEF q
    <2> QED BY <1>5, <2>1 DEF RemoteTypes
  <1> HIDE DEF q
  <1>7. /\ Free(r) /\ call'[r].at \in {"failed", "ok", "asking"} /\ UNCHANGED ac
        /\ call'[r].at = "asking" => call'[r].op = op /\ call'[r].cmd = cmd
        /\ \A d \in Caller \ {r} : call'[d] = call[d]
        BY <1>1, <1>4, AskSets
  <1>8. RunFits(q, call'[r]) /\ Flips(q, call'[r])
    <2>1. AtHand(q).what # "switch"
          BY <1>4, <1>5 DEF Current, AtHand
    <2>2. RunFits(q, call'[r])
          BY <1>2, <1>4, <1>5, <1>7, <2>1 DEF RunFits
    <2>3. Flips(q, call'[r])
          BY <1>1, <1>2, <1>5, <1>7 DEF Flips
    <2> QED BY <2>2, <2>3
  <1>9. ChanInv'
    <2>1. q # Nil
          BY <1>5, RemoteAssumption
    <2> QED BY <1>1, <1>6, <1>7, <2>1 DEF ChanInv, Free, Runner
  <1>10. RunInv'
    <2> SUFFICES ASSUME NEW s \in Runner, run'[s] # Nil
                 PROVE  RunFits(run'[s], call'[s]) /\ Flips(run'[s], call'[s])
        BY <1>7 DEF RunInv, RunFits, Flips
    <2>1. CASE s = r
          BY <1>6, <1>8, <2>1
    <2>2. CASE s # r
          BY <1>1, <1>6, <1>7, <2>2 DEF RunInv
    <2> QED BY <2>1, <2>2
  <1> QED BY <1>4, <1>6, <1>9, <1>10

\* What serving, dropping and answering a call does to the callers.
LEMMA ServesGo ==
  ASSUME BlasterInv, NEW c \in Caller, Serves(c) \/ Abandon(c)
  PROVE  UNCHANGED ac /\ \A d \in Caller : Goes(d)
  <1> USE DEF BlasterInv
  <1>1. UNCHANGED ac /\ \E place \in {"ok", "failed"} : At(c, place) \/ (At(c, "talking") /\ call[c].at = "asking")
        BY DEF Serves, Locks, Refused, LearnTimesOut, Save, Record, Abandon
  <1> QED BY <1>1, AtSets DEF Goes, Busy

\* A thread that ends sets free the call that waited for it, and changes the air conditioner only
\* by a send.
LEMMA ThreadGoes ==
  ASSUME BlasterInv, NEW t \in threads, ThreadEnds(t) \/ ThreadFails(t)
  PROVE  /\ \A d \in Caller : Goes(d)
         /\ t.tie = "waited" => call'[t.by].at \notin {"asking", "talking"}
         /\ t.op \notin {"climate", "send"} => UNCHANGED ac
  <1> USE DEF BlasterInv
  <1>1. /\ t \in Thread /\ Then(t) \in {"saving", "recording", "ok"}
        /\ t.tie = "waited" => call[t.by].at = "talking"
        BY DEF BlasterTypeOK, LockInv, Then
  <1>2. CASE ThreadFails(t)
    <2> DEFINE known(c) == [call[c] EXCEPT !.fresh = @ /\ ac' = ac]
    <2>1. /\ \E at \in {"ok", "failed"} :
                call' = [c \in Caller |-> IF c = t.by /\ t.tie = "waited" THEN [Idle EXCEPT !.at = at] ELSE known(c)]
          /\ t.op \notin {"climate", "send"} => UNCHANGED ac
          BY <1>2 DEF ThreadFails
    <2>2. \A c \in Caller : /\ known(c).at = call[c].at
                            /\ known(c).op = call[c].op /\ known(c).cmd = call[c].cmd
          BY DEF BlasterTypeOK, CallRec
    <2>3. \A at \in {"ok", "failed"} : [Idle EXCEPT !.at = at].at = at
          BY DEF Idle
    <2> HIDE DEF known
    <2>4. \A c \in Caller : /\ ~(c = t.by /\ t.tie = "waited") => call'[c] = known(c)
                            /\ c = t.by /\ t.tie = "waited" => call'[c].at \in {"ok", "failed"}
          BY <2>1, <2>3
    <2> QED BY <1>1, <2>1, <2>2, <2>4 DEF Goes, Busy, Thread
  <1>3. CASE ThreadEnds(t) /\ t.op = "climate" /\ t.cmd \in State
    <2>1. call' = [c \in Caller |->
                     IF c = t.by /\ t.tie = "waited" THEN [call[c] EXCEPT !.at = Then(t), !.fresh = TRUE]
                     ELSE [call[c] EXCEPT !.fresh = FALSE]]
          BY <1>3 DEF ThreadEnds, Hears
    <2>2. \A c \in Caller : /\ call'[c].op = call[c].op /\ call'[c].cmd = call[c].cmd
                            /\ c = t.by /\ t.tie = "waited" => call'[c].at = "recording"
                            /\ ~(c = t.by /\ t.tie = "waited") => call'[c].at = call[c].at
          BY <1>3, <2>1 DEF BlasterTypeOK, CallRec, Then
    <2> QED BY <1>1, <1>3, <2>2 DEF Goes, Thread
  <1>4. CASE ThreadEnds(t) /\ ~(t.op = "climate" /\ t.cmd \in State)
    <2> DEFINE known(c) == [call[c] EXCEPT !.fresh = @ /\ ac' = ac]
    <2>1. /\ call' = [c \in Caller |-> IF c # t.by \/ t.tie # "waited" THEN known(c)
                                       ELSE IF Then(t) \in Busy THEN [known(c) EXCEPT !.at = Then(t)] ELSE Idle]
          /\ t.op \notin {"climate", "send"} => UNCHANGED ac
          BY <1>4 DEF ThreadEnds
    <2>2. \A c \in Caller : /\ known(c) \in CallRec /\ known(c).at = call[c].at
                            /\ known(c).op = call[c].op /\ known(c).cmd = call[c].cmd
          BY DEF BlasterTypeOK, CallRec
    <2> HIDE DEF known
    <2>3. \A c \in Caller : /\ ~(c = t.by /\ t.tie = "waited") => call'[c] = known(c)
                            /\ c = t.by /\ t.tie = "waited" =>
                                  /\ call'[c].at \in {"saving", "recording", "ok"}
                                  /\ call'[c].at # "ok" => call'[c].op = call[c].op /\ call'[c].cmd = call[c].cmd
      <3>1. \A c \in Caller : LET k == [known(c) EXCEPT !.at = Then(t)]
                              IN  k.at = Then(t) /\ k.op = known(c).op /\ k.cmd = known(c).cmd
            BY <2>2 DEF CallRec
      <3> QED BY <1>1, <2>1, <2>2, <3>1 DEF Idle
    <2> QED BY <1>1, <2>1, <2>2, <2>3 DEF Goes, Thread
  <1> QED BY <1>2, <1>3, <1>4


-----------------------------------------------------------------------------
(* Keys, channels and runs: the steps.                                     *)

RemoteInv == RemoteTypes /\ ChanInv /\ RunInv

\* A press is received, ignored, or a binding or a scene is written: no run notices.
LEMMA PressKeeps ==
  ASSUME IInv,
         \/ \E e \in Event, k \in Key, kind \in {"press", "repeat"} : Receive(e, k, kind)
         \/ \E e \in Event : Phantom(e)
         \/ \E k \in Key, b \in Binding \cup {Nil} : SetBinding(k, b)
         \/ \E s \in Scene, actions \in SceneActions \cup {Nil} : PutScene(s, actions)
         \/ UNCHANGED vars
  PROVE  RemoteInv'
  <1> USE DEF IInv
  <1>1. UNCHANGED <<call, ac, pressed, queue, chan, run>>
        BY DEF Receive, Phantom, SetBinding, PutScene, RestCalled, vars, remote, blaster
  <1>2. ChanInv' /\ RunInv'
        BY <1>1 DEF ChanInv, Free, RunInv, RunFits, Flips
  <1>3. keymap' \in [Key -> Binding \cup {Nil}]
        BY DEF Receive, Phantom, SetBinding, PutScene, vars, remote, RemoteTypes
  <1>4. scenes' \in [Scene -> Seq(Action) \cup {Nil}]
        BY RemoteAssumption DEF Receive, Phantom, SetBinding, PutScene, vars, remote, RemoteTypes
  <1>5. event' \in [Event -> [key : Key, binding : Binding, kind : {"press", "repeat"}] \cup {Nil}]
    <2>1. ASSUME NEW e \in Event, NEW k \in Key, NEW kind \in {"press", "repeat"}, Receive(e, k, kind)
          PROVE  event' \in [Event -> [key : Key, binding : Binding, kind : {"press", "repeat"}] \cup {Nil}]
          BY <2>1 DEF Receive, RemoteTypes
    <2>2. ASSUME NEW e \in Event, Phantom(e)
          PROVE  event' \in [Event -> [key : Key, binding : Binding, kind : {"press", "repeat"}] \cup {Nil}]
          BY <2>2 DEF Phantom, RemoteTypes
    <2> QED BY <2>1, <2>2 DEF SetBinding, PutScene, vars, remote, RemoteTypes
  <1> QED BY <1>1, <1>2, <1>3, <1>4, <1>5 DEF RemoteInv, RemoteTypes

\* A press joins its key's channel; a key without one gets an unused one, which no other key has.
LEMMA FireKeeps ==
  ASSUME IInv, NEW e \in Event, Fire(e)
  PROVE  RemoteInv'
  <1> USE DEF IInv
  <1> DEFINE k == event[e].key
             job == event[e].binding.actions
  <1>1. k \in Key /\ job \in Seq(Action) /\ RunInOrder(k, job)
        BY RemoteAssumption DEF Fire, RemoteTypes
  <1>2. /\ UNCHANGED <<call, ac, keymap, scenes, run>>
        /\ pressed' \subseteq Key /\ event' = [event EXCEPT ![e] = Nil]
        BY <1>1 DEF Fire, blaster, RemoteTypes
  <1> HIDE DEF k, job
  <1>3. /\ queue' \in [Key -> Chan \cup {Nil}] /\ chan' \in [Chan -> ChanRec \cup {Nil}]
        /\ \A x \in Chan : chan'[x] # Nil => queue'[chan'[x].key] = x /\ Len(chan'[x].jobs) <= KeyQueue
        /\ \A x \in Chan : chan[x] # Nil => chan'[x] # Nil
    <2>1. CASE queue[k] # Nil /\ chan[queue[k]] # Nil
      <3> DEFINE x == queue[k]
                 new == [chan[x] EXCEPT !.jobs = Append(@, job)]
      <3>1. x \in Chan /\ chan[x] \in ChanRec /\ Len(chan[x].jobs) \in Nat
            BY <1>1, <2>1 DEF RemoteTypes, ChanRec
      <3>2. UNCHANGED queue /\ (UNCHANGED chan \/ (chan' = [chan EXCEPT ![x] = new] /\ Len(chan[x].jobs) < KeyQueue))
            BY <1>1, <2>1, <3>1 DEF RunInOrder, RemoteTypes
      <3>3. new \in ChanRec /\ new.key = chan[x].key /\ Len(new.jobs) = Len(chan[x].jobs) + 1
        <4>1. chan[x].jobs \in Seq(Seq(Action))
              BY <3>1 DEF ChanRec
        <4>2. /\ Append(chan[x].jobs, job) \in Seq(Seq(Action))
              /\ Len(Append(chan[x].jobs, job)) = Len(chan[x].jobs) + 1
              BY <1>1, <4>1
        <4> QED BY <3>1, <4>2 DEF ChanRec
      <3>4. new # Nil
            BY <3>3, RemoteAssumption DEF ChanRec
      <3> HIDE DEF new
      <3>5. CASE UNCHANGED chan
            BY <3>2, <3>5 DEF ChanInv, RemoteTypes
      <3>6. CASE chan' = [chan EXCEPT ![x] = new] /\ Len(chan[x].jobs) < KeyQueue
        <4>1. chan' \in [Chan -> ChanRec \cup {Nil}] /\ \A y \in Chan \ {x} : chan'[y] = chan[y]
              BY <3>3, <3>6 DEF RemoteTypes
        <4>2. chan'[x] = new /\ Len(new.jobs) <= KeyQueue /\ queue[chan[x].key] = x
              BY <2>1, <3>1, <3>3, <3>6, RemoteAssumption DEF ChanInv, RemoteTypes
        <4>3. queue' = queue /\ queue' \in [Key -> Chan \cup {Nil}]
              BY <3>2 DEF RemoteTypes
        <4> HIDE DEF x
        <4>4. ASSUME NEW y \in Chan, chan'[y] # Nil
              PROVE  queue'[chan'[y].key] = y /\ Len(chan'[y].jobs) <= KeyQueue
          <5>1. CASE y = x
                BY <3>3, <4>2, <4>3, <5>1
          <5>2. CASE y # x
                BY <4>1, <4>3, <4>4, <5>2 DEF ChanInv
          <5> QED BY <5>1, <5>2
        <4>5. \A y \in Chan : chan[y] # Nil => chan'[y] # Nil
              BY <3>4, <4>1, <4>2
        <4> QED BY <4>1, <4>3, <4>4, <4>5
      <3> QED BY <3>2, <3>5, <3>6
    <2>2. CASE ~(queue[k] # Nil /\ chan[queue[k]] # Nil)
      <3>1. PICK x \in Unused(k) : Started(k, x, job)
            BY <1>1, <2>2 DEF RunInOrder
      <3> DEFINE new == [key |-> k, jobs |-> <<job>>]
      <3>2. x \in Chan /\ chan[x] = Nil /\ \A j \in Key : queue[j] # x \/ j = k
            BY DEF Unused
      <3>3. chan' = [chan EXCEPT ![x] = new] /\ queue' = [queue EXCEPT ![k] = x]
            BY <3>1 DEF Started
      <3>4. new \in ChanRec /\ new.key = k /\ Len(new.jobs) = 1 /\ 1 <= KeyQueue
            BY <1>1, RemoteAssumption DEF ChanRec
      <3>5. new # Nil
            BY <3>4, RemoteAssumption DEF ChanRec
      <3> HIDE DEF new
      <3>6. ASSUME NEW y \in Chan \ {x}, chan[y] # Nil
            PROVE  queue'[chan[y].key] = y /\ Len(chan[y].jobs) <= KeyQueue
        <4>1. queue[chan[y].key] = y /\ Len(chan[y].jobs) <= KeyQueue /\ chan[y].key \in Key
              BY <3>6 DEF ChanInv, RemoteTypes, ChanRec
        <4>2. chan[y].key # k
              BY <2>2, <3>6, <4>1, RemoteAssumption, BlasterAssumption
        <4> QED BY <3>3, <4>1, <4>2 DEF RemoteTypes
      <3> QED BY <1>1, <3>2, <3>3, <3>4, <3>5, <3>6 DEF RemoteTypes
    <2> QED BY <2>1, <2>2
  <1>4. ChanInv' /\ RunInv'
        BY <1>2, <1>3 DEF ChanInv, Free, RunInv, RunFits, Flips
  <1>5. RemoteTypes'
        BY <1>2, <1>3 DEF RemoteTypes
  <1> QED BY <1>4, <1>5 DEF RemoteInv

\* A channel's task takes its next press.
LEMMA TakeKeeps ==
  ASSUME IInv, NEW x \in Chan, Take(x)
  PROVE  RemoteInv'
  <1> USE DEF IInv
  <1>1. /\ chan[x] # Nil /\ run[x] = Nil /\ chan[x].jobs # <<>> /\ chan[x] \in ChanRec
        /\ UNCHANGED <<call, ac, keymap, scenes, pressed, event, queue>>
        /\ x \in Runner /\ x \in Caller /\ call[x] \in CallRec
        BY RemoteAssumption DEF Take, blaster, RemoteTypes, Runner, BlasterInv, BlasterTypeOK
  <1>2. Free(x) /\ call[x].at \in {"ok", "failed"}
        BY <1>1 DEF ChanInv, Free
  <1> DEFINE q == Going(Runs(Head(chan[x].jobs)))
             new == [chan[x] EXCEPT !.jobs = Tail(@)]
  <1>3. Head(chan[x].jobs) \in Seq(Action) /\ Tail(chan[x].jobs) \in Seq(Seq(Action)) /\ Len(Tail(chan[x].jobs)) = Len(chan[x].jobs) - 1
        BY <1>1 DEF ChanRec
  <1>4. q \in RunRec \cup {Nil} /\ (q # Nil => RunFits(q, call[x]) /\ Flips(q, call[x]))
        BY <1>1, <1>2, <1>3, RunsFit, GoingFits
  <1>5. new \in ChanRec /\ new.key = chan[x].key /\ new.jobs = Tail(chan[x].jobs)
        BY <1>1, <1>3 DEF ChanRec
  <1>6. run' = [run EXCEPT ![x] = q] /\ chan' = [chan EXCEPT ![x] = new] /\ new # Nil
        BY <1>1, <1>5, RemoteAssumption DEF Take, ChanRec, RemoteTypes
  <1> HIDE DEF q, new
  <1>7. Len(new.jobs) <= KeyQueue
        BY <1>1, <1>3, <1>5, RemoteAssumption DEF ChanInv, ChanRec
  <1>8. RemoteTypes'
        BY <1>1, <1>4, <1>5, <1>6 DEF RemoteTypes
  <1>9. ChanInv'
        BY <1>1, <1>2, <1>5, <1>6, <1>7 DEF ChanInv, Free, RemoteTypes, Runner
  <1>10. RunInv'
        BY <1>1, <1>4, <1>6 DEF RunInv, RunFits, Flips, RemoteTypes
  <1> QED BY <1>8, <1>9, <1>10 DEF RemoteInv

\* A panic takes the channel, its run and its call.
LEMMA PanicKeeps ==
  ASSUME IInv, NEW x \in Chan, Panic(x)
  PROVE  RemoteInv'
  <1> USE DEF IInv
  <1>1. /\ run' = [run EXCEPT ![x] = Nil] /\ chan' = [chan EXCEPT ![x] = Nil]
        /\ UNCHANGED <<keymap, scenes, pressed, event, queue>>
        /\ x \in Runner /\ x \in Caller /\ Caller = Runner /\ BlasterTypeOK
        BY RemoteAssumption DEF Panic, Runner, BlasterInv
  <1>2. UNCHANGED ac /\ Free(x)' /\ \A d \in Caller \ {x} : call'[d] = call[d]
    <2>1. CASE call[x].at \in Busy
      <3>1. Abandon(x)
            BY <2>1 DEF Panic
      <3>2. At(x, "failed") /\ UNCHANGED ac
            BY <3>1 DEF Abandon
      <3> QED BY <1>1, <3>2, AtSets DEF Free
    <2>2. CASE call[x].at \notin Busy
      <3>1. UNCHANGED <<call, ac>>
            BY <2>2 DEF Panic, blaster
      <3> QED BY <1>1, <2>2, <3>1 DEF BlasterTypeOK, CallRec, Free
    <2> QED BY <2>1, <2>2
  <1>3. RemoteTypes'
        BY <1>1 DEF RemoteTypes
  <1>4. ChanInv'
        BY <1>1, <1>2 DEF ChanInv, Free, RemoteTypes, Runner
  <1>5. RunInv'
        BY <1>1, <1>2 DEF RunInv, RunFits, Flips, RemoteTypes
  <1> QED BY <1>3, <1>4, <1>5 DEF RemoteInv

\* An action of a run.
LEMMA ActsKeep ==
  ASSUME IInv, NEW r \in Runner, Acts(r)
  PROVE  RemoteInv'
  <1>1. run' \in [Runner -> RunRec \cup {Nil}] /\ ChanInv' /\ RunInv'
        BY ActsFit, SendFits DEF Acts
  <1>2. UNCHANGED <<keymap, scenes, pressed, event, queue, chan>>
        BY DEF Acts, ActScene, ActOrder, ActResolve, ActSwitch, ActClimate, ActSend, ActSent, Rest
  <1> QED BY <1>1, <1>2 DEF IInv, RemoteInv, RemoteTypes


\* A request runs a binding or a scene, calls the blaster, or is dropped.
LEMMA RequestKeeps ==
  ASSUME IInv, NEW q \in Req,
         \/ \E b \in Binding : RunNow(q, b.actions)
         \/ \E s \in Scene : RunScene(q, s)
         \/ \E op \in Op, cmd \in State \cup Code \cup {Nil} : CallBlaster(q, op, cmd)
         \/ DropRequest(q)
  PROVE  RemoteInv'
  <1> USE DEF IInv
  <1>1. q \in Runner /\ q \in Caller /\ q \notin Chan /\ Caller = Runner /\ BlasterTypeOK /\ call[q] \in CallRec
        BY RemoteAssumption DEF Runner, BlasterInv, BlasterTypeOK
  <1>2. UNCHANGED <<keymap, scenes, pressed, event, queue, chan>>
        BY DEF RunNow, RunScene, CallBlaster, DropRequest, RestCalled, Rest
  <1>3. ASSUME NEW actions \in Seq(Action), RunNow(q, actions) PROVE RemoteInv'
    <2>1. Free(q) /\ run' = [run EXCEPT ![q] = Going(Runs(actions))] /\ UNCHANGED <<call, ac>>
          BY <1>3 DEF RunNow, blaster
    <2>2. call[q].at \in {"ok", "failed"}
          BY <2>1 DEF Free
    <2> DEFINE new == Going(Runs(actions))
    <2>3. new \in RunRec \cup {Nil} /\ (new # Nil => RunFits(new, call[q]) /\ Flips(new, call[q]))
          BY <1>1, <2>2, RunsFit, GoingFits
    <2> HIDE DEF new
    <2>4. run' = [run EXCEPT ![q] = new]
          BY <2>1 DEF new
    <2>5. run' \in [Runner -> RunRec \cup {Nil}] /\ ChanInv' /\ RunInv'
          BY <1>1, <1>2, <2>1, <2>3, <2>4, OneRun
    <2> QED BY <1>2, <2>5 DEF RemoteInv, RemoteTypes
  <1>4. ASSUME NEW b \in Binding, RunNow(q, b.actions) PROVE RemoteInv'
        BY <1>3, <1>4, RemoteAssumption
  <1>5. ASSUME NEW s \in Scene, RunScene(q, s) PROVE RemoteInv'
        BY <1>3, <1>5 DEF RunScene, RemoteTypes
  <1>6. ASSUME NEW op \in Op, NEW cmd \in State \cup Code \cup {Nil}, CallBlaster(q, op, cmd) PROVE RemoteInv'
    <2>1. run[q] = Nil /\ UNCHANGED run /\ Ask(q, op, cmd)
          BY <1>6 DEF CallBlaster
    <2>2. UNCHANGED ac /\ \A d \in Caller \ {q} : call'[d] = call[d]
          BY <1>1, <2>1, AskSets
    <2>3. ChanInv'
          BY <1>1, <1>2, <2>1, <2>2 DEF ChanInv, Free, Runner
    <2>4. RunInv'
          BY <1>1, <2>1, <2>2 DEF RunInv, RunFits, Flips
    <2> QED BY <1>2, <2>1, <2>3, <2>4 DEF RemoteInv, RemoteTypes
  <1>7. ASSUME DropRequest(q) PROVE RemoteInv'
    <2>1. Abandon(q) /\ run' = [run EXCEPT ![q] = Nil]
          BY <1>7 DEF DropRequest, Drop
    <2>2. UNCHANGED ac /\ \A d \in Caller : Goes(d)
          BY <1>1, <2>1, ServesGo
    <2>3. ChanInv'
          BY <1>1, <1>2, <2>1, <2>2 DEF ChanInv, Free, Goes, Runner, RemoteTypes
    <2>4. RunInv'
          BY <1>1, <2>1, <2>2 DEF RunInv, RunFits, Flips, Goes, RemoteTypes
    <2> QED BY <1>2, <2>1, <2>3, <2>4 DEF RemoteInv, RemoteTypes
  <1> QED BY <1>4, <1>5, <1>6, <1>7

\* Two runs of one key are one: a key has one channel, a channel one task.
LEMMA OneOfAKey ==
  ASSUME RemoteTypes, ChanInv, NEW r \in Runner, NEW s \in Runner, run[r] # Nil, run[s] # Nil, Source(r) = Source(s)
  PROVE  r = s
  <1>1. \A x \in Chan : run[x] # Nil => /\ Source(x) = chan[x].key /\ chan[x].key \in Key
                                        /\ queue[chan[x].key] = x
        BY DEF Source, ChanInv, RemoteTypes, ChanRec
  <1>2. \A q \in Req : Source(q) = q
        BY RemoteAssumption DEF Source
  <1> QED BY <1>1, <1>2, RemoteAssumption DEF Runner

\* A thread that sends: who had decided and not sent knows that it was crossed; who sent it has its
\* answer.
LEMMA CrossedKeeps ==
  ASSUME IInv, NEW t \in threads, ThreadEnds(t) \/ ThreadFails(t), Crossed(t), UNCHANGED <<queue, chan>>
  PROVE  run' \in [Runner -> RunRec \cup {Nil}] /\ ChanInv' /\ RunInv'
  <1> USE DEF IInv
  <1>1. /\ \A d \in Caller : Goes(d)
        /\ t.tie = "waited" => call'[t.by].at \notin {"asking", "talking"} /\ call[t.by].at = "talking"
        /\ t.by \in Runner /\ Caller = Runner
        BY ThreadGoes, RemoteAssumption DEF BlasterInv, BlasterTypeOK, LockInv, Thread, Runner
  <1> DEFINE met(r) == /\ run[r] # Nil /\ run[r].order # Nil
                       /\ t.tie = "waited" => run[t.by] = Nil \/ Source(r) # Source(t.by)
  <1>2. run' = [r \in Runner |-> IF met(r) THEN [run[r] EXCEPT !.crossed = TRUE] ELSE run[r]]
        BY DEF Crossed
  <1>3. ASSUME NEW r \in Runner, run[r] # Nil
        PROVE  /\ run'[r] \in RunRec /\ run'[r].inner = run[r].inner /\ run'[r].todo = run[r].todo
               /\ run'[r].order = run[r].order /\ run'[r].toggles = run[r].toggles /\ run'[r].sent = run[r].sent
               /\ met(r) => run'[r].crossed
               /\ ~met(r) => run'[r] = run[r]
    <2> DEFINE new == [run[r] EXCEPT !.crossed = TRUE]
    <2>1. run[r] \in RunRec
          BY <1>3 DEF RemoteTypes
    <2>2. /\ new \in RunRec /\ new.inner = run[r].inner /\ new.todo = run[r].todo
          /\ new.order = run[r].order /\ new.toggles = run[r].toggles /\ new.sent = run[r].sent /\ new.crossed
          BY <2>1 DEF RunRec
    <2>3. (met(r) => run'[r] = new) /\ (~met(r) => run'[r] = run[r])
          BY <1>2
    <2> HIDE DEF new, met
    <2> QED BY <2>1, <2>2, <2>3
  <1>4. \A r \in Runner : run[r] = Nil => run'[r] = Nil
        BY <1>2
  <1>5. \A r \in Runner : run[r] # Nil => run'[r] # Nil
        BY <1>3, RemoteAssumption
  <1>6. run' \in [Runner -> RunRec \cup {Nil}]
        BY <1>2, <1>3, <1>4
  <1>7. ChanInv'
        BY <1>1, <1>4, <1>5 DEF ChanInv, Free, Goes, Runner
  <1>8. ASSUME NEW r \in Runner, run[r] # Nil
        PROVE  (RunFits(run[r], call[r]) /\ Flips(run[r], call[r]))'
    <2>1. RunFits(run[r], call[r]) /\ Flips(run[r], call[r]) /\ Goes(r)
          BY <1>1, <1>8 DEF RunInv
    <2>2. RunFits(run[r], call[r])'
          BY <1>3, <1>8, <2>1 DEF RunFits, Goes, AtHand
    <2>3. ASSUME run'[r].toggles, ~run'[r].blind, ~run'[r].crossed,
                 ~run'[r].sent \/ call'[r].at \in {"asking", "talking"}
          PROVE  FALSE
      <3>1. ~met(r) /\ run'[r] = run[r] /\ run[r].order # Nil
            BY <1>3, <1>8, <2>1, <2>3 DEF RunFits
      <3>2. t.tie = "waited" /\ run[t.by] # Nil /\ Source(r) = Source(t.by)
            BY <1>8, <3>1
      <3>3. t.by = r
            BY <1>1, <1>8, <3>2, OneOfAKey
      <3>4. run[r].sent
            BY <1>1, <2>1, <3>2, <3>3 DEF RunFits
      <3> QED BY <1>1, <2>3, <3>1, <3>2, <3>3, <3>4
    <2>4. Flips(run[r], call[r])'
          BY <2>3 DEF Flips
    <2> QED BY <2>2, <2>4
  <1>9. RunInv'
        BY <1>4, <1>8 DEF RunInv
  <1> QED BY <1>6, <1>7, <1>9

\* A thread's end, whatever it did.
LEMMA ThreadsKeep == IInv /\ Threads => RemoteInv'
  <1> SUFFICES ASSUME IInv, Threads PROVE RemoteInv'
      OBVIOUS
  <1> USE DEF IInv
  <1>1. PICK t \in threads :
          /\ \/ ThreadFails(t) /\ IF ac' = ac THEN UNCHANGED run ELSE Crossed(t)
             \/ ThreadEnds(t) /\ IF t.op \in {"climate", "send"} THEN Crossed(t) ELSE UNCHANGED run
          /\ UNCHANGED <<Rest, switch>>
        BY DEF Threads
  <1>2. UNCHANGED <<keymap, scenes, pressed, event, queue, chan>>
        BY <1>1 DEF Rest
  <1>3. CASE (ThreadEnds(t) \/ ThreadFails(t)) /\ Crossed(t)
        BY <1>2, <1>3, CrossedKeeps DEF RemoteInv, RemoteTypes
  <1>4. CASE UNCHANGED run /\ ((ThreadFails(t) /\ UNCHANGED ac) \/ (ThreadEnds(t) /\ t.op \notin {"climate", "send"}))
    <2>1. UNCHANGED ac /\ \A d \in Caller : Goes(d)
          BY <1>4, ThreadGoes
    <2> QED BY <1>2, <1>4, <2>1, QuietRuns DEF RemoteInv, RemoteTypes
  <1> QED BY <1>1, <1>3, <1>4

\* What a step of the remote does to the blaster.
LEMMA NextBlaster == IInv /\ [Next]_vars => BlasterNext \/ UNCHANGED blaster
  <1> SUFFICES ASSUME IInv, [Next]_vars PROVE BlasterNext \/ UNCHANGED blaster
      OBVIOUS
  <1> USE RemoteAssumption DEF Runner
  <1>1. ASSUME NEW r \in Runner, Acts(r) PROVE BlasterNext \/ UNCHANGED blaster
    <2>1. ActSend(r) \/ UNCHANGED blaster
          BY <1>1 DEF Acts, ActScene, ActOrder, ActResolve, ActSwitch, ActClimate, ActSent
    <2> QED BY <2>1, SendFits DEF BlasterNext
  <1>2. ASSUME NEW x \in Chan, Take(x) \/ Panic(x) PROVE BlasterNext \/ UNCHANGED blaster
        BY <1>2 DEF Take, Panic, BlasterNext
  <1>3. ASSUME NEW c \in Caller, Calls(c) PROVE BlasterNext
        BY <1>3 DEF Calls, BlasterNext
  <1>4. ASSUME Threads PROVE BlasterNext
        BY <1>4 DEF Threads, BlasterNext
  <1>5. ASSUME NEW q \in Req, NEW op \in Op, NEW cmd \in State \cup Code \cup {Nil}, CallBlaster(q, op, cmd)
        PROVE  BlasterNext
        BY <1>5 DEF CallBlaster, BlasterNext
  <1>6. ASSUME NEW q \in Req, DropRequest(q) PROVE BlasterNext
        BY <1>6 DEF DropRequest, BlasterNext
  <1>7. ASSUME \/ \E e \in Event : Phantom(e) \/ Fire(e) \/ \E k \in Key, kind \in {"press", "repeat"} : Receive(e, k, kind)
               \/ \E k \in Key, b \in Binding \cup {Nil} : SetBinding(k, b)
               \/ \E s \in Scene, actions \in SceneActions \cup {Nil} : PutScene(s, actions)
               \/ \E q \in Req : (\E b \in Binding : RunNow(q, b.actions)) \/ (\E s \in Scene : RunScene(q, s))
               \/ UNCHANGED vars
        PROVE  UNCHANGED blaster
        BY <1>7 DEF Phantom, Fire, Receive, SetBinding, PutScene, RunNow, RunScene, vars
  <1> QED BY <1>1, <1>2, <1>3, <1>4, <1>5, <1>6, <1>7 DEF Next

\* Every step keeps the invariant.
LEMMA NextIInv == IInv /\ [Next]_vars => IInv'
  <1> SUFFICES ASSUME IInv, [Next]_vars PROVE RemoteInv'
      BY NextBlaster, BlasterKeeps DEF IInv, RemoteInv
  <1>1. ASSUME NEW c \in Caller, Calls(c) PROVE RemoteInv'
    <2>1. Serves(c) /\ UNCHANGED <<keymap, scenes, pressed, event, queue, chan, run>>
          BY <1>1 DEF Calls, Rest
    <2>2. UNCHANGED ac /\ \A d \in Caller : Goes(d)
          BY <2>1, ServesGo DEF IInv
    <2> QED BY <2>1, <2>2, QuietRuns DEF IInv, RemoteInv, RemoteTypes
  <1>2. ASSUME NEW x \in Chan, Take(x) \/ Panic(x) PROVE RemoteInv'
        BY <1>2, TakeKeeps, PanicKeeps
  <1>3. ASSUME NEW e \in Event, Fire(e) PROVE RemoteInv'
        BY <1>3, FireKeeps
  <1> QED BY <1>1, <1>2, <1>3, PressKeeps, ActsKeep, RequestKeeps, ThreadsKeep DEF Next

-----------------------------------------------------------------------------
(* The theorems.                                                           *)

\* The inductive invariant.
THEOREM ThInv == Spec => []IInv
  BY InitIInv, NextIInv, PTL DEF Spec

\* Two threads talk to the blaster at once only when a dropped call left one of them: a learning
\* that timed out keeps the blaster to itself (broadlink.rs, learn_ir), whoever else calls, whatever
\* panics and however many requests there are.
THEOREM ThAlone == Spec => []Alone
  <1>1. IInv => Alone
        BY DEF IInv, BlasterInv, LockInv
  <1> QED BY <1>1, ThInv, PTL

\* What the house believes of the air conditioner is so, or about to be recorded, or astray in one of
\* the ways PictureIsTrue names (broadlink.rs, send_mitsubishi_command and record_climate_state).
THEOREM ThPictureIsTrue == Spec => []PictureIsTrue
  <1>1. IInv => PictureIsTrue
        BY DEF IInv, BlasterInv
  <1> QED BY <1>1, ThInv, PTL

\* A toggle that goes out is the one that its run decided.
LEMMA ToggleStep ==
  ASSUME IInv, [Next]_vars, NEW t \in threads \ threads',
         t.op = "climate", t.tie = "waited", run[t.by] # Nil, run[t.by].toggles,
         call'[t.by].at = "recording", ~run[t.by].blind, ~run[t.by].crossed
  PROVE  ac' # ac
  <1> USE DEF IInv
  <1>1. /\ t \in Thread /\ t.by \in Caller /\ t.by \in Runner /\ run[t.by] \in RunRec /\ BlasterTypeOK
        /\ call[t.by].at = "talking" /\ t.cmd = call[t.by].cmd
        BY RemoteAssumption DEF BlasterInv, BlasterTypeOK, LockInv, Thread, Runner, RemoteTypes
  <1>2. ThreadEnds(t)
    <2>1. ASSUME NEW c \in Caller, Abandon(c) \/ LearnTimesOut(c) PROVE FALSE
      <3>1. At(c, "failed") /\ \E tie \in {"kept", "orphan"} : threads' = Tied(c, tie)
            BY <2>1 DEF Abandon, LearnTimesOut
      <3>2. t.by = c
            BY <3>1 DEF Tied
      <3> QED BY <1>1, <3>1, <3>2, AtSets
    <2>2. ASSUME NEW u \in threads, ThreadFails(u) PROVE FALSE
      <3>1. u = t
            BY <2>2 DEF ThreadFails, Ends
      <3>2. PICK at \in {"ok", "failed"} : call'[t.by] = [Idle EXCEPT !.at = at]
            BY <1>1, <2>2, <3>1 DEF ThreadFails
      <3> QED BY <3>2 DEF Idle
    <2>3. ASSUME NEW u \in threads, ThreadEnds(u) PROVE u = t
          BY <2>3 DEF ThreadEnds, Ends
    <2>4. BlasterNext
          BY NextBlaster DEF blaster
    <2>5. \A c \in Caller : Locks(c) \/ Refused(c) \/ Save(c) \/ Record(c) => threads \subseteq threads'
          BY DEF Locks, Refused, Save, Record
    <2>6. \A c \in Caller, op \in Op, cmd \in State \cup Code \cup {Nil} : Ask(c, op, cmd) => UNCHANGED threads
          BY DEF Ask
    <2> QED BY <2>1, <2>2, <2>3, <2>4, <2>5, <2>6 DEF BlasterNext, Serves, Drop
  <1>3. RunFits(run[t.by], call[t.by]) /\ Flips(run[t.by], call[t.by])
        BY <1>1 DEF RunInv
  <1>4. run[t.by].order \in State /\ t.cmd = run[t.by].order
        BY <1>1, <1>3 DEF RunFits, RunRec, State
  <1>5. ac' = (t.cmd = "on")
        BY <1>2, <1>4 DEF ThreadEnds, Hears
  <1>6. ac = (run[t.by].order = "off")
        BY <1>1, <1>3 DEF Flips
  <1>7. CASE t.cmd = "on"
        BY <1>4, <1>5, <1>6, <1>7
  <1>8. CASE t.cmd = "off"
        BY <1>4, <1>5, <1>6, <1>8
  <1> QED BY <1>4, <1>7, <1>8 DEF State

\* A toggle that reaches the air conditioner flips it, unless what it read was untrue or an order of
\* someone else came in between (ir.rs, run_in_order and climate_toggle): a key's presses, run one
\* after the other, never read the same state.
THEOREM ThTogglesFlip == Spec => TogglesFlip
  <1>1. IInv /\ [Next]_vars =>
          [\A t \in threads \ threads' :
             /\ t.op = "climate" /\ t.tie = "waited" /\ run[t.by] # Nil /\ run[t.by].toggles
             /\ call'[t.by].at = "recording"
             => ac' # ac \/ run[t.by].blind \/ run[t.by].crossed]_vars
        BY ToggleStep
  <1> QED BY <1>1, ThInv, PTL DEF Spec, TogglesFlip

=============================================================================
