----------------------------- MODULE ConWindow -----------------------------
(***************************************************************************)
(* What the message layer promises about confirmable messages, without     *)
(* timers, transmissions or references: per session a bounded window of    *)
(* outstanding messages and, behind it, a line of waiting ones.  Messages  *)
(* enter the window in the order in which they were submitted, none is     *)
(* lost or concluded twice, at most NSTART are outstanding, and while the  *)
(* session is open nobody waits beside a free place.                       *)
(***************************************************************************)
EXTENDS Naturals, Sequences, FiniteSets

CONSTANTS Session, Con, SessionOf, NSTART

VARIABLES
  open,         \* sessions that may transmit
  waiting,      \* per session, the submitted messages outside the window
  outstanding,  \* per session, the messages in the window
  done          \* messages that have been concluded

wvars == <<open, waiting, outstanding, done>>

Entries(q) == {q[i] : i \in 1..Len(q)}

Fresh(m) == LET s == SessionOf[m] IN
  m \notin done \cup outstanding[s] \cup Entries(waiting[s])

\* Session s, open or not, has line w and window win: the first n of the line
\* enter, and if the session is open then n is as large as the window allows.
Enter(s, isOpen, w, win, n) ==
  LET win2 == win \cup {w[i] : i \in 1..n} IN
  /\ Cardinality(win2) <= NSTART
  /\ isOpen => n = Len(w) \/ Cardinality(win2) = NSTART
  /\ ~isOpen => n = 0
  /\ open' = IF isOpen THEN open \cup {s} ELSE open \ {s}
  /\ outstanding' = [outstanding EXCEPT ![s] = win2]
  /\ waiting' = [waiting EXCEPT ![s] = SubSeq(w, n + 1, Len(w))]

\* Submitting may reopen a session's connection, never complete it.
Submit(m) ==
  LET s == SessionOf[m]
      w == Append(waiting[s], m)
  IN  /\ Fresh(m)
      /\ \E n \in 0..Len(w) : Enter(s, s \in open, w, outstanding[s], n)
      /\ UNCHANGED done

Refuse(m) == /\ Fresh(m)
             /\ done' = done \cup {m}
             /\ UNCHANGED <<open, waiting, outstanding>>

Finish(m) ==
  LET s == SessionOf[m] IN
  /\ m \in outstanding[s]
  /\ done' = done \cup {m}
  /\ \E n \in 0..Len(waiting[s]) :
       Enter(s, s \in open, waiting[s], outstanding[s] \ {m}, n)

Connect(s) ==
  /\ s \notin open
  /\ \E n \in 0..Len(waiting[s]) :
       Enter(s, TRUE, waiting[s], outstanding[s], n)
  /\ UNCHANGED done

\* The session ends or restarts: everything it holds is concluded.
Drop(s) ==
  /\ done' = done \cup outstanding[s] \cup Entries(waiting[s])
  /\ outstanding' = [outstanding EXCEPT ![s] = {}]
  /\ waiting' = [waiting EXCEPT ![s] = << >>]
  /\ open' \in {open, open \ {s}}

WInit == /\ open \subseteq Session
         /\ waiting = [s \in Session |-> << >>]
         /\ outstanding = [s \in Session |-> {}]
         /\ done = {}

WNext == \/ \E m \in Con : Submit(m) \/ Refuse(m) \/ Finish(m)
         \/ \E s \in Session : Connect(s) \/ Drop(s)

WSpec == WInit /\ [][WNext]_wvars
=============================================================================
