------------------------------- MODULE MCProxy -------------------------------
(* The instance of Proxy for TLC. *)
EXTENDS Proxy

\* Every stream of up to three bytes, and longer ones: several lines in one read, a
\* line over several reads, a line end at the end of the buffer, a NUL in a line,
\* and lines that are inserted, dropped, or throw.
MCWires ==
  BoundedSeq({"LF", "NUL", "d", "x"}, 3)
  \cup { <<"d", "x", "LF", "d", "x", "LF">>,
         <<"LF", "LF", "LF", "x">>,
         <<"x", "x", "LF", "x", "LF">>,
         <<"d", "NUL", "x", "LF", "x", "LF">>,
         <<"d", "x", "NUL", "x", "LF">>,
         <<"d", "LF", "LF", "d", "x", "LF">> }

=============================================================================
