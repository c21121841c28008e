---------------------------- MODULE MCLspClient ----------------------------
(* Small instances of LspClient: two questions, one restart, answers whose  *)
(* length in bytes is the number of their characters, or exceeds it.        *)
EXTENDS LspClient

CONSTANTS q1, q2

MCQueries == {q1, q2}

(* extension.js:64 and lipilsp.lp:15, "Header: Content-Length: <bytes>":    *)
(* messages are framed by their length, so whatever their text, the body of *)
(* the answer to each request awaited is still to be sent, or in the pipe.  *)
(* The code counts bytes on one side and characters on the other.           *)
FramedAnswersArrive ==
    \A c \in Clients : server[c] = "up" => \A m \in pending[c] :
        \/ \E i \in DOMAIN stdin[c] : stdin[c][i] = m
        \/ \E i \in DOMAIN Stream(c) : Stream(c)[i] = Body(m)

=============================================================================
