------------------------------ MODULE AdbLink ------------------------------
(***************************************************************************)
(* The kept ADB connection to the Android box: backend/src/adb.rs, and     *)
(* shell_on of androidtv.rs.                                               *)
(*                                                                         *)
(* One connection is kept in a slot behind a lock; who holds the lock      *)
(* writes and reads it, and may be dropped at any await, half-way through  *)
(* a message even, the connection staying in the slot.  Streams carry a    *)
(* local id; the box sends the next chunk of a stream only once the last   *)
(* is acknowledged.  A message is [kind, id, of]: its command, the local   *)
(* id of its stream, and the command whose output it carries.  Left out:   *)
(* bytes, checksums and lengths (a stream out of step fails the magic      *)
(* check), the remote id, and the RSA arithmetic.                          *)
(***************************************************************************)
EXTENDS Naturals, Sequences, FiniteSets

CONSTANTS
    User,       \* those who run a shell command, each with a command of its own
    Chunks,     \* the most chunks a command prints
    MaxCuts,    \* bound on connections that die
    MaxLeaves,  \* bound on dropped calls
    MaxShells,  \* bound on shell commands
    Nil

VARIABLES
    user,       \* what each user is at
    lock,       \* who holds the slot, or Nil
    kept,       \* the slot holds the connection
    up, out, in,  \* the connection: alive, what the box and this host have yet to read
    skew,       \* this host's reading is in the middle of a message
    nextId,     \* next_local_id
    stream,     \* the box's open streams: [id, of, left, acked]
    knows,      \* the box knows this host's key
    ran,        \* history: how often each user's command was started on the box
    cuts, leaves, shells

adb == <<user, lock, kept, up, out, in, skew, nextId, stream, knows, ran, cuts, leaves, shells>>

\* at: idle, waiting for the lock, in the handshake, opening a stream, reading one; id, its stream;
\* got, what it read; fresh, this is its own connection; tries, commands it sent.
Idle == [at |-> "idle", id |-> 0, got |-> <<>>, fresh |-> FALSE, tries |-> 0, signed |-> FALSE,
         offered |-> FALSE, answer |-> Nil]

Msg(kind, id, of) == [kind |-> kind, id |-> id, of |-> of]

Init ==
    /\ user = [u \in User |-> Idle]
    /\ lock = Nil /\ kept = FALSE
    /\ up = FALSE /\ out = <<>> /\ in = <<>> /\ skew = FALSE
    /\ nextId = 1 /\ stream = {}
    /\ knows \in BOOLEAN
    /\ ran = [u \in User |-> 0]
    /\ cuts = 0 /\ leaves = 0 /\ shells = 0

conn == <<up, out, in, skew, nextId, stream>>
bounds == <<cuts, leaves, shells>>

-----------------------------------------------------------------------------
(* This host.                                                              *)

Shell(u) ==
    /\ user[u].at = "idle" /\ shells < MaxShells
    /\ user' = [user EXCEPT ![u] = [Idle EXCEPT !.at = "waiting"]]
    /\ shells' = shells + 1
    /\ ran' = [ran EXCEPT ![u] = 0]
    /\ UNCHANGED <<lock, kept, conn, knows, cuts, leaves>>

\* A message for the box: lost when the connection is dead, which the next read tells.
Writes(m) == out' = IF up THEN Append(out, m) ELSE out

\* OPEN, on the connection at hand.
Opens(u, new) ==
    /\ user' = [user EXCEPT ![u] = [new EXCEPT !.at = "opening", !.id = nextId, !.got = <<>>, !.tries = @ + 1]]
    /\ nextId' = nextId + 1
    /\ Writes(Msg("OPEN", nextId, u))

\* A new connection; the handshake starts with this host's CNXN.
Dials(u) ==
    /\ user' = [user EXCEPT ![u].at = "hello", ![u].fresh = TRUE, ![u].signed = FALSE, ![u].offered = FALSE]
    /\ up' = TRUE /\ out' = <<Msg("CNXN", 0, Nil)>> /\ in' = <<>> /\ skew' = FALSE
    /\ nextId' = 1 /\ stream' = {}

Answers(u, how) ==
    /\ user' = [user EXCEPT ![u] = [@ EXCEPT !.at = "idle", !.answer = how]]
    /\ lock' = Nil

\* shell_on: the kept connection, else a new one.
Start(u) ==
    /\ user[u].at = "waiting" /\ lock = Nil
    /\ lock' = u
    /\ IF kept THEN Opens(u, user[u]) /\ UNCHANGED <<up, in, skew, stream>> ELSE Dials(u)
    /\ UNCHANGED <<kept, knows, ran, bounds>>

\* The box is asleep, or does not answer: no connection.
DialFails(u) ==
    /\ user[u].at = "waiting" /\ lock = Nil /\ ~kept
    /\ user' = [user EXCEPT ![u].at = "idle", ![u].answer = "failed"]
    /\ UNCHANGED <<lock, kept, conn, knows, ran, bounds>>

\* The exchange fails.  The kept connection is replaced, once; a new one that fails is an error.
Broken(u) ==
    /\ IF user[u].fresh
         THEN /\ Answers(u, "failed")
              /\ up' = FALSE /\ out' = <<>> /\ in' = <<>> /\ skew' = FALSE /\ UNCHANGED <<nextId, stream>>
         ELSE Dials(u) /\ UNCHANGED lock
    /\ kept' = FALSE

\* A read that fails: the connection died, or its bytes are out of step.
ReadFails(u) ==
    /\ lock = u
    /\ (~up /\ in = <<>>) \/ skew
    /\ Broken(u)
    /\ UNCHANGED <<knows, ran, bounds>>

Hears == lock # Nil /\ ~skew /\ in # <<>> /\ in' = Tail(in)

\* handshake: sign the first token, offer the public key at the second, give up at the third.
Handshake(u) ==
    /\ lock = u /\ user[u].at = "hello" /\ Hears
    /\ LET m == Head(in) IN
         CASE m.kind = "CNXN" -> Opens(u, user[u]) /\ UNCHANGED <<lock, up>>
           [] m.kind = "TOKEN" /\ ~user[u].signed ->
                /\ user' = [user EXCEPT ![u].signed = TRUE]
                /\ Writes(Msg("SIGNATURE", 0, Nil)) /\ UNCHANGED <<lock, nextId, up>>
           [] m.kind = "TOKEN" /\ user[u].signed /\ ~user[u].offered ->
                /\ user' = [user EXCEPT ![u].offered = TRUE]
                /\ Writes(Msg("PUBLICKEY", 0, Nil)) /\ UNCHANGED <<lock, nextId, up>>
           [] OTHER -> Answers(u, "failed") /\ up' = FALSE /\ out' = <<>> /\ UNCHANGED nextId
    /\ UNCHANGED <<kept, skew, stream, knows, ran, bounds>>

\* Mutant: whatever arrives is taken for this stream's.
OwnAny(u, m) == TRUE

\* arg1 = local_id: everything else on the wire is skipped.
Own(u, m) == m.id = user[u].id

\* open, then shell_capped: chunks are kept and acknowledged, CLSE ends it.
Reads(u) ==
    /\ lock = u /\ user[u].at \in {"opening", "reading"} /\ Hears
    /\ LET m == Head(in) IN
         /\ ~(Own(u, m) /\ user[u].at = "opening" /\ m.kind = "CLSE")
         /\ CASE Own(u, m) /\ user[u].at = "opening" /\ m.kind = "OKAY" ->
                user' = [user EXCEPT ![u].at = "reading"] /\ UNCHANGED <<lock, kept, out>>
           [] Own(u, m) /\ user[u].at = "reading" /\ m.kind = "WRTE" ->
                /\ user' = [user EXCEPT ![u].got = Append(@, m.of)]
                /\ Writes(Msg("OKAY", m.id, Nil)) /\ UNCHANGED <<lock, kept>>
           [] Own(u, m) /\ user[u].at = "reading" /\ m.kind = "CLSE" ->
                Answers(u, "ok") /\ kept' = TRUE /\ Writes(Msg("CLSE", m.id, Nil))
           [] OTHER -> UNCHANGED <<user, lock, kept, out>>
    /\ UNCHANGED <<up, skew, nextId, stream, knows, ran, bounds>>

\* The box would not open the stream, or prints too much (the stream is left half-read).
Refuses(u) ==
    /\ lock = u /\ ~skew /\ in # <<>> /\ Own(u, Head(in))
    /\ \/ user[u].at = "opening" /\ Head(in).kind = "CLSE"
       \/ user[u].at = "reading" /\ Head(in).kind = "WRTE"
    /\ Broken(u)
    /\ UNCHANGED <<knows, ran, bounds>>

\* The request is dropped, waiting, or at a read or a write, perhaps in the middle of a message:
\* the lock is let go, a new connection closed, the kept one kept as it is (the box hangs up on
\* half a message).
Leave(u) ==
    /\ user[u].at # "idle" /\ leaves < MaxLeaves
    /\ leaves' = leaves + 1
    /\ user' = [user EXCEPT ![u] = Idle]
    /\ lock' = IF lock = u THEN Nil ELSE lock
    /\ IF lock = u /\ user[u].fresh
         THEN up' = FALSE /\ out' = <<>> /\ in' = <<>> /\ skew' = FALSE
         ELSE /\ UNCHANGED in
              /\ \/ UNCHANGED <<up, out, skew>>
                 \/ lock = u /\ in # <<>> /\ skew' = TRUE /\ UNCHANGED <<up, out>>
                 \/ lock = u /\ up' = FALSE /\ out' = <<>> /\ UNCHANGED skew
    /\ UNCHANGED <<kept, nextId, stream, knows, ran, cuts, shells>>

-----------------------------------------------------------------------------
(* The box (external): adbd as this client meets it.                       *)

Adbd ==
    /\ up /\ out # <<>>
    /\ out' = Tail(out)
    /\ LET m == Head(out)
           of == {s \in stream : s.id = m.id}
           says(k, o) == in' = Append(in, Msg(k, m.id, o))
       IN  CASE m.kind = "CNXN" -> says("TOKEN", Nil) /\ UNCHANGED <<stream, knows, ran>>
             [] m.kind = "SIGNATURE" -> says(IF knows THEN "CNXN" ELSE "TOKEN", Nil) /\ UNCHANGED <<stream, knows, ran>>
             \* someone accepts the prompt, or refuses it
             [] m.kind = "PUBLICKEY" -> knows' \in BOOLEAN /\ says(IF knows' THEN "CNXN" ELSE "TOKEN", Nil) /\ UNCHANGED <<stream, ran>>
             [] m.kind = "OPEN" ->
                  \/ /\ says("OKAY", Nil)
                     /\ stream' = stream \cup {[id |-> m.id, of |-> m.of, left |-> Chunks, acked |-> TRUE]}
                     /\ ran' = [ran EXCEPT ![m.of] = @ + 1] /\ UNCHANGED knows
                  \/ says("CLSE", Nil) /\ UNCHANGED <<stream, knows, ran>>
             [] m.kind = "OKAY" ->
                  /\ stream' = (stream \ of) \cup {[s EXCEPT !.acked = TRUE] : s \in of}
                  /\ UNCHANGED <<in, knows, ran>>
             [] OTHER -> stream' = stream \ of /\ UNCHANGED <<in, knows, ran>>
    /\ UNCHANGED <<user, lock, kept, up, skew, nextId, bounds>>

\* A chunk of a command's output, or its end.
Prints(s) ==
    /\ up /\ s \in stream /\ s.acked
    /\ IF s.left > 0
         THEN /\ in' = Append(in, Msg("WRTE", s.id, s.of))
              /\ stream' = (stream \ {s}) \cup {[s EXCEPT !.left = @ - 1, !.acked = FALSE]}
         ELSE /\ in' = Append(in, Msg("CLSE", s.id, Nil))
              /\ stream' = stream \ {s}
    /\ UNCHANGED <<user, lock, kept, up, out, skew, nextId, knows, ran, bounds>>

\* The box sleeps, adbd restarts, the network fails, or a read times out.
Cut ==
    /\ up /\ cuts < MaxCuts
    /\ cuts' = cuts + 1
    /\ up' = FALSE /\ out' = <<>>
    /\ UNCHANGED <<user, lock, kept, in, skew, nextId, stream, knows, ran, leaves, shells>>

-----------------------------------------------------------------------------

Works(u) == Start(u) \/ DialFails(u) \/ ReadFails(u) \/ Handshake(u) \/ Reads(u) \/ Refuses(u)

Next ==
    \/ \E u \in User : Shell(u) \/ Works(u) \/ Leave(u)
    \/ Adbd \/ (\E s \in stream : Prints(s)) \/ Cut

-----------------------------------------------------------------------------
(* Properties.                                                             *)

\* A shell that answers holds all its command printed and nothing another command did, also on a
\* connection that a dropped request left in the middle of its output (adb.rs:423-463).
AnswersAreOwn == \A u \in User : user[u].answer = "ok" => user[u].got = [i \in 1 .. Chunks |-> u]

=============================================================================
