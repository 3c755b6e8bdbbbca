------------------------ MODULE CoapMessagingWindow ------------------------
(***************************************************************************)
(* CoapMessaging implements ConWindow: the CONs of a session's delay queue *)
(* are the abstract line, its nodes in the send queue the abstract window. *)
(***************************************************************************)
EXTENDS CoapMessaging

\* The CONs of a delay queue, in its order.
ConsOf(q) ==
  LET taken[i \in 0..Len(q)] ==
        IF i = 0 THEN << >>
        ELSE IF q[i] \in Con THEN Append(taken[i - 1], q[i]) ELSE taken[i - 1]
  IN  taken[Len(q)]

\* The abstract state: the sessions that may transmit, their lines and
\* windows, and the messages that are concluded.
Established == {s \in Session : state[s] = "ESTABLISHED"}
Lines == [s \in Session |-> ConsOf(delayqueue[s])]
Windows == [s \in Session |-> NodesOf(s)]
Ended == {m \in Con : outcome[m] \in Final}

Window == INSTANCE ConWindow WITH
  open <- Established, waiting <- Lines, outstanding <- Windows, done <- Ended

\* With a peer that only acknowledges (its ACKs lost, late or duplicated) the
\* send queue and the delay queue together behave as the abstract window:
\* at most NSTART outstanding, strictly first come first served, work
\* conserving, every message concluded exactly once.
ImplementsWindow == Window!WSpec
=============================================================================
