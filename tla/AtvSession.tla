----------------------------- MODULE AtvSession -----------------------------
(***************************************************************************)
(* One Remote v2 session with the box: Session of backend/src/atvremote.rs.*)
(*                                                                         *)
(* The TV drives: it sends remote_configure, then remote_set_active, then  *)
(* pings, and hangs up on a ping left unanswered.  Two tasks serve it: the *)
(* reader, which hands over whole messages and gives up after a silence,   *)
(* and the one that writes, which takes turns between what the TV said and *)
(* the keys callers queue.  Callers hold clones of the session; the last   *)
(* one let go ends it.  Left out: TLS, the protobuf encoding (Wire), and   *)
(* messages nobody answers.                                                *)
(***************************************************************************)
EXTENDS Naturals, Sequences

CONSTANTS
    Keys,       \* bound on the keys pressed; they are numbered
    Room,       \* the commands channel (64 in the code)
    Backlog,    \* the incoming channel (8 in the code)
    Pings       \* bound on the TV's pings

VARIABLES
    sess,       \* "hello" until the TV made it active, "open", "over" when its task is gone
    held,       \* somebody holds the session, or waits for it
    reader,     \* the reader task runs
    said,       \* what the TV sent and the reader has not read
    incoming, commands,   \* the two channels
    heard,      \* what this host wrote and the TV has not read
    tv,         \* the TV's side: "new", "configuring", "activating", "active", "gone"
    asked,      \* a ping awaits its answer
    accepted,   \* keys answered Ok so far
    did,        \* the keys the TV carried out
    pings

session == <<sess, held, reader, said, incoming, commands, heard, tv, asked, accepted, did, pings>>

\* What travels: the TV's three messages and this host's answers, or a key.
Msg(what, key) == [what |-> what, key |-> key]

Init ==
    /\ sess = "hello" /\ held = TRUE /\ reader = TRUE
    /\ said = <<>> /\ incoming = <<>> /\ commands = <<>> /\ heard = <<>>
    /\ tv = "new" /\ asked = FALSE
    /\ accepted = 0 /\ did = <<>> /\ pings = 0

-----------------------------------------------------------------------------
(* This host.                                                              *)

\* read_framed, within SESSION_SILENCE of the last message.
Read ==
    /\ reader /\ said # <<>> /\ Len(incoming) < Backlog /\ sess # "over"
    /\ incoming' = Append(incoming, Head(said))
    /\ said' = Tail(said)
    /\ UNCHANGED <<sess, held, reader, commands, heard, tv, asked, accepted, did, pings>>

\* Mutant: a read that waits for ever.
SilenceForever ==
    /\ FALSE
    /\ UNCHANGED session

\* The TV hung up, or says nothing for too long.
Silence ==
    /\ reader /\ said = <<>> /\ tv = "gone"
    /\ reader' = FALSE
    /\ UNCHANGED <<sess, held, said, incoming, commands, heard, tv, asked, accepted, did, pings>>

\* Mutant: ready as soon as the TV asked for the configuration.
ReadyEarly(m) == m.what \in {"configure", "activate"}

\* remote_set_active answered: connect returns.
Ready(m) == m.what = "activate"

\* answer_to, and the answer written (a TV that is gone never reads it).
Answer ==
    /\ sess # "over" /\ incoming # <<>>
    /\ LET m == Head(incoming) IN
         /\ heard' = IF tv = "gone" THEN heard ELSE Append(heard, m)
         /\ sess' = IF Ready(m) THEN "open" ELSE sess
    /\ incoming' = Tail(incoming)
    /\ UNCHANGED <<held, reader, said, commands, tv, asked, accepted, did, pings>>

\* Session::send, by anyone who has the session: waits for room in the channel.
Press ==
    /\ sess = "open" /\ held
    /\ accepted < Keys /\ Len(commands) < Room
    /\ accepted' = accepted + 1
    /\ commands' = Append(commands, Msg("key", accepted'))
    /\ UNCHANGED <<sess, held, reader, said, incoming, heard, tv, asked, did, pings>>

Send ==
    /\ sess # "over" /\ commands # <<>>
    /\ heard' = IF tv = "gone" THEN heard ELSE Append(heard, Head(commands))
    /\ commands' = Tail(commands)
    /\ UNCHANGED <<sess, held, reader, said, incoming, tv, asked, accepted, did, pings>>

\* The slot is cleared or replaced and no call is under way; or the wait for `ready` timed out
\* (NEGOTIATION_TIMEOUT) or was dropped.
LetGo ==
    /\ held
    /\ held' = FALSE
    /\ UNCHANGED <<sess, reader, said, incoming, commands, heard, tv, asked, accepted, did, pings>>

\* The task returns: the reader stopped and all it read is answered, or a write failed, or nobody
\* holds the session and its keys are sent.  Its channels close, and the reader goes with it.
Over ==
    /\ sess # "over"
    /\ \/ ~reader /\ incoming = <<>>
       \/ tv = "gone" /\ incoming \o commands # <<>>
       \/ ~held /\ commands = <<>>
    /\ sess' = "over" /\ reader' = FALSE
    /\ tv' = "gone"
    /\ UNCHANGED <<held, said, incoming, commands, heard, asked, accepted, did, pings>>

-----------------------------------------------------------------------------
(* The TV (external), as the client's notes describe it.                   *)

Says(what) == said' = Append(said, Msg(what, 0))

\* A host it has not paired with is never asked to become active.
TvAsks ==
    /\ \/ tv = "new" /\ tv' = "configuring" /\ Says("configure") /\ UNCHANGED <<asked, pings>>
       \/ /\ tv = "active" /\ ~asked /\ pings < Pings
          /\ asked' = TRUE /\ pings' = pings + 1 /\ Says("ping") /\ UNCHANGED tv
    /\ UNCHANGED <<sess, held, reader, incoming, commands, heard, accepted, did>>

\* Keys are carried out once it is active, and ignored before.
TvHears ==
    /\ tv # "gone" /\ heard # <<>>
    /\ heard' = Tail(heard)
    /\ LET m == Head(heard) IN
         /\ IF m.what = "configure" THEN tv' = "activating" /\ Says("activate")
            ELSE tv' = (IF m.what = "activate" THEN "active" ELSE tv) /\ UNCHANGED said
         /\ asked' = (asked /\ m.what # "ping")
         /\ did' = IF m.what = "key" /\ tv = "active" THEN Append(did, m.key) ELSE did
    /\ UNCHANGED <<sess, held, reader, incoming, commands, accepted, pings>>

\* Asleep, unplugged, or tired of waiting for an answer; nothing may tell.
TvGoes ==
    /\ tv # "gone"
    /\ tv' = "gone"
    /\ said' \in {said, <<>>}
    /\ UNCHANGED <<sess, held, reader, incoming, commands, heard, asked, accepted, did, pings>>

-----------------------------------------------------------------------------

Serve == Read \/ Silence \/ Answer \/ Send \/ Over

Next == Serve \/ Press \/ LetGo \/ TvAsks \/ TvHears \/ TvGoes

-----------------------------------------------------------------------------
(* Properties.                                                             *)

\* What the TV carried out is what was pressed, in order, with nothing missing in between: a key
\* answered Ok is lost only with every key after it (atvremote.rs:736-814).
KeysInOrder == did = [i \in 1 .. Len(did) |-> i] /\ Len(did) <= accepted

\* A session whose TV is gone ends, told or not, and so does one nobody holds: a caller then
\* finds it closed and connects again (atvremote.rs:65-68, :744-800).
SessionEnds == tv = "gone" \/ ~held ~> sess = "over"

=============================================================================
