----------------------------- MODULE LogSession -----------------------------
(***************************************************************************)
(* session and server of the datadog log proxy: one TCP connection whose   *)
(* bytes are read into a fixed buffer, split at line ends and parsed line  *)
(* by line; a timer closes a connection that has been silent for 60 s.     *)
(* All handlers run on the thread in io_service.run(), in the order in     *)
(* which their operations complete.                                        *)
(*                                                                         *)
(* Bytes are abstract: "LF"; "NUL"; "d", the text of a line up to its      *)
(* ddsource tag; and "x", any other text.  What a peer sends is fixed at   *)
(* the start (wire), how it is cut into reads is not.  A wait that         *)
(* re-arming the timer cancels ends in a handler that returns at once; it  *)
(* is left out.  asio is external.                                         *)
(***************************************************************************)
EXTENDS Integers, Sequences, FiniteSets, SequencesExt

CONSTANTS
  Wires,      \* what a peer may send
  max_length  \* size of buffer_

ASSUME LengthAssumption == max_length \in Nat \ {0}
ASSUME WiresAssumption == Wires \subseteq Seq({"LF", "NUL", "d", "x"})

VARIABLES
  wire,       \* bytes sent by the peer and not yet read
  peer,       \* the peer's end of the connection is open
  socket,     \* socket_: "new", "open", "closed", "freed" with the session
  reading,    \* async_read_some is waiting
  timer,      \* _connection_dead_timer is running
  handlers,   \* completed operations whose handlers have not run
  buffer,     \* buffer_[0 .. remaining_ - 1]
  line,       \* line_
  lines,      \* the lines handle_line was called for (history)
  got,        \* the bytes handle_read was given (history)
  burst,      \* a read has carried more than one line end (history)
  thrown,     \* an exception has left io_service.run()
  stream      \* _stream: events for the topology

sessionVars == <<wire, peer, socket, reading, timer, handlers, buffer, line, lines,
                 got, burst, thrown>>

ReadDone(bytes) == [h |-> "read", bytes |-> bytes]
ReadFailed == [h |-> "error", bytes |-> << >>]
TimerDone == [h |-> "dead", bytes |-> << >>]

LFs(s) == Cardinality({i \in DOMAIN s : s[i] = "LF"})

SessionInit ==
  /\ wire \in Wires /\ peer = TRUE /\ socket = "new" /\ reading = FALSE /\ timer = FALSE
  /\ handlers = << >> /\ buffer = << >> /\ line = << >> /\ lines = << >> /\ got = << >>
  /\ burst = FALSE /\ thrown = FALSE /\ stream = << >>

-----------------------------------------------------------------------------
(* The connection *)

\* Mutant: the session starts without its timer.
handle_acceptNoTimer ==
  /\ socket = "new"
  /\ \/ socket' = "closed" /\ UNCHANGED <<reading, timer>>
     \/ socket' = "open" /\ reading' = TRUE /\ UNCHANGED timer
  /\ UNCHANGED <<wire, peer, handlers, buffer, line, lines, got, burst, thrown, stream>>

\* handle_accept: start() finds the peer gone and closes, or begins to read.  A
\* failed accept is like the first: the session is dropped.
handle_accept ==
  /\ socket = "new"
  /\ \/ socket' = "closed" /\ UNCHANGED <<reading, timer>>
     \/ socket' = "open" /\ reading' = TRUE /\ timer' = TRUE
  /\ UNCHANGED <<wire, peer, handlers, buffer, line, lines, got, burst, thrown, stream>>

PeerCloses ==
  /\ socket = "open" /\ peer
  /\ peer' = FALSE
  /\ UNCHANGED <<wire, socket, reading, timer, handlers, buffer, line, lines, got,
                 burst, thrown, stream>>

\* Bytes arrive, or the read fails: at the end of what the peer sent, or because
\* the socket was closed.
ReadCompletes ==
  /\ reading
  /\ reading' = FALSE
  /\ \/ /\ socket = "open"
        /\ \E n \in 1..(max_length - Len(buffer)) :
             /\ n <= Len(wire)
             /\ wire' = SubSeq(wire, n + 1, Len(wire))
             /\ handlers' = Append(handlers, ReadDone(SubSeq(wire, 1, n)))
     \/ /\ socket # "open" \/ (~peer /\ wire = << >>)
        /\ handlers' = Append(handlers, ReadFailed)
        /\ UNCHANGED wire
  /\ UNCHANGED <<peer, socket, timer, buffer, line, lines, got, burst, thrown, stream>>

TimerExpires ==
  /\ timer
  /\ timer' = FALSE
  /\ handlers' = Append(handlers, TimerDone)
  /\ UNCHANGED <<wire, peer, socket, reading, buffer, line, lines, got, burst, thrown, stream>>

-----------------------------------------------------------------------------
(* The handlers *)

\* line_.append(buffer_, 0, n) makes a std::string of buffer_ first, which ends
\* at a NUL.
UpToNUL(s) ==
  LET nul == {i \in DOMAIN s : s[i] = "NUL"}
  IN IF nul = {} THEN s ELSE SubSeq(s, 1, (CHOOSE i \in nul : \A j \in nul : i <= j) - 1)

\* handle_line: a line without one of its tags is dropped; one that ends at a key
\* makes substr throw; any other is inserted.  "d" stands for the first of the keys
\* and "x" for the rest of a line that has them all: the later keys end a line in
\* one of these ways too.
LineOutcome(l) ==
  LET d == {i \in DOMAIN l : l[i] = "d"}
      first == CHOOSE i \in d : \A j \in d : i <= j
  IN IF d = {} THEN "dropped"
     ELSE IF first = Len(l) THEN "throws"
     ELSE IF \E i \in DOMAIN l : i > first /\ l[i] = "x" THEN "inserted"
     ELSE "dropped"

\* The event of the n-th line; requests of the other proxies are numbered from 1.
LineEvent(n) == <<0, n>>

handle_line(l) ==
  /\ lines' = Append(lines, l)
  /\ stream' = IF LineOutcome(l) = "inserted"
               THEN Append(stream, LineEvent(Len(lines) + 1)) ELSE stream
  /\ thrown' = (LineOutcome(l) = "throws")

\* Mutant: remaining_ counts the line end.
RestKeepsLF(s, p) == SubSeq(s, p, Len(s))

\* What memmove leaves after the line end at p.
Rest(s, p) == SubSeq(s, p + 1, Len(s))

handle_read ==
  /\ handlers # << >> /\ Head(handlers).h = "read"
  /\ handlers' = Tail(handlers)
  /\ timer' = TRUE
  /\ LET bytes == Head(handlers).bytes
         all == buffer \o bytes
         ends == {i \in DOMAIN all : all[i] = "LF"}
         p == CHOOSE i \in ends : \A j \in ends : i <= j
     IN /\ got' = got \o bytes
        /\ burst' = (burst \/ LFs(bytes) > 1)
        /\ IF ends = {}
           THEN /\ line' = line \o UpToNUL(all) /\ buffer' = << >>
                /\ UNCHANGED <<lines, stream, thrown>>
           ELSE /\ handle_line(line \o UpToNUL(SubSeq(all, 1, p - 1)))
                /\ line' = << >> /\ buffer' = Rest(all, p)
  /\ reading' = ~thrown'
  /\ UNCHANGED <<wire, peer, socket>>

\* handle_read with an error: nothing is done, and no further read begun.
handle_read_error ==
  /\ handlers # << >> /\ Head(handlers) = ReadFailed
  /\ handlers' = Tail(handlers)
  /\ UNCHANGED <<wire, peer, socket, reading, timer, buffer, line, lines, got, burst,
                 thrown, stream>>

handle_connection_dead_timer ==
  /\ handlers # << >> /\ Head(handlers) = TimerDone
  /\ handlers' = Tail(handlers)
  /\ socket' = IF socket = "open" THEN "closed" ELSE socket
  /\ UNCHANGED <<wire, peer, reading, timer, buffer, line, lines, got, burst, thrown, stream>>

\* No operation holds the session any more: its destructor closes the socket.
session_destroyed ==
  /\ socket \in {"open", "closed"} /\ ~reading /\ ~timer /\ handlers = << >>
  /\ socket' = "freed"
  /\ UNCHANGED <<wire, peer, reading, timer, handlers, buffer, line, lines, got, burst,
                 thrown, stream>>

Handlers == handle_read \/ handle_read_error \/ handle_connection_dead_timer \/ session_destroyed

-----------------------------------------------------------------------------
(* Properties of the session *)

Text == FlattenSeq([i \in DOMAIN lines |-> Append(lines[i], "LF")]) \o line \o buffer

\* However the bytes are cut into reads, the lines handled, the line begun and the
\* bytes left in the buffer are together what was read, in order.  With a NUL in
\* the stream a line may miss what follows it, but never runs into the next line.
Framing ==
  /\ "NUL" \notin ToSet(got) => Text = got
  /\ LFs(Text) = LFs(got)

\* A read always has room for a byte, at the fullest buffer too, and a complete
\* line waits in the buffer only after a read that carried several: handle_read
\* takes one line per read, and the rest waits until the peer sends more.
ReadsHaveRoom ==
  /\ reading => Len(buffer) < max_length
  /\ LFs(buffer) > 0 => burst

=============================================================================
