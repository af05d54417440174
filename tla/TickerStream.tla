---------------------------- MODULE TickerStream ----------------------------
(***************************************************************************)
(* One ticker stream: openStream of src/exchange/bithumb-public-ws.js.     *)
(* Messages are decoded asynchronously (a frame may be a Blob), close() is *)
(* asked for by the window and answered by the peer, or not within a       *)
(* second, and neither stops messages from being read.                     *)
(***************************************************************************)
EXTENDS Naturals

CONSTANT MaxReading   \* bound: messages received and not yet decoded

ASSUME ReadingAssumption == MaxReading \in Nat \ {0}

VARIABLE stream   \* the socket and the locals of openStream

(* closed and ended are the flags closed and resolvedClosed; forced tells  *)
(* that the wait for the close event was given up, slow that it found      *)
(* messages that were still being decoded (history).                       *)
NoStream == [socket |-> "none", closed |-> FALSE, ended |-> FALSE,
             forced |-> FALSE, slow |-> FALSE, reading |-> 0]

Connecting == [NoStream EXCEPT !.socket = "connecting"]

Alive(s) == s.socket \in {"connecting", "open", "closing"}

(* onOpen: the subscription is sent.                                       *)
OnOpen ==
  /\ stream.socket = "connecting"
  /\ stream' = [stream EXCEPT !.socket = "open"]

(* onMessage starts to decode a message; it does not look at `closed`.     *)
Receive ==
  /\ stream.socket \in {"open", "closing"} /\ stream.reading < MaxReading
  /\ stream' = [stream EXCEPT !.reading = @ + 1]

(* ... and has decoded it.                                                 *)
Decoded(s) == [s EXCEPT !.reading = @ - 1]

(* closeSafely, from the window's timer, an error or the stop signal.      *)
CloseSafely(s) ==
  IF s.closed THEN s
  ELSE [s EXCEPT !.closed = TRUE, !.socket = IF Alive(s) THEN "closing" ELSE @]

(* Mutant: no timer, the close event alone counts.                         *)
ForcedCloseNever ==
  /\ stream.closed /\ ~stream.ended /\ ~Alive(stream)
  /\ stream' = [stream EXCEPT !.ended = TRUE, !.forced = TRUE]

(* The second after close() is over: `closed` resolves without the event.  *)
ForcedClose ==
  /\ stream.closed /\ ~stream.ended
  /\ stream' = [stream EXCEPT !.ended = TRUE, !.forced = TRUE]

(* onClose: the peer has answered, or closed of its own accord.            *)
OnClose ==
  /\ Alive(stream)
  /\ stream' = [stream EXCEPT !.socket = "dead", !.closed = TRUE, !.ended = TRUE,
                              !.slow = stream.reading > 0]
=============================================================================
