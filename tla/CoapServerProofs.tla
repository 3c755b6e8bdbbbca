-------------------------- MODULE CoapServerProofs --------------------------
(***************************************************************************)
(* Machine-checked proofs about a server, for any requests, configurations *)
(* and bounds: what clients are told fits what the server does, a request  *)
(* that was postponed is served, freed or still waiting, and the cache     *)
(* keeps and finds what was stored.                                        *)
(***************************************************************************)
EXTENDS CoapExchange, CoapCache, InductionFacts

-----------------------------------------------------------------------------
(* The state of the server.                                                *)

Tally == [delivered : Nat, acked : Nat, dropped : Nat, early : Nat,
          registered : Nat, served : Nat, freed : Nat, zeroed : Nat, refused : Nat,
          told : BOOLEAN]
Entry == [request : Requests, pdu : RequestShape, due : Nat]
Srv == [asyncs : Seq(Entry), observing : SUBSET Requests,
        mcast : SUBSET (Requests \X Nat), tally : [Requests -> Tally]]

\* A tally, field by field.
TallyIs(v, delivered, acked, dropped, early, registered, served, gone, zeroed, refused, told) ==
  /\ v \in Tally
  /\ v.delivered = delivered /\ v.acked = acked /\ v.dropped = dropped
  /\ v.early = early /\ v.registered = registered /\ v.served = served
  /\ v.freed = gone /\ v.zeroed = zeroed /\ v.refused = refused /\ v.told = told

\* The entries that ended in coap_check_async().
Ended(t) == t.served + t.zeroed + t.refused

LEMMA TallyTypes ==
  ASSUME NEW t \in Tally
  PROVE  /\ t.delivered \in Nat /\ t.acked \in Nat /\ t.dropped \in Nat
         /\ t.early \in Nat /\ t.registered \in Nat /\ t.served \in Nat
         /\ t.freed \in Nat /\ t.zeroed \in Nat /\ t.refused \in Nat /\ t.told \in BOOLEAN
         /\ Ended(t) \in Nat
BY DEF Tally, Ended

LEMMA SetDelivered ==
  ASSUME NEW t \in Tally, NEW n \in Nat
  PROVE  TallyIs([t EXCEPT !.delivered = n], n, t.acked, t.dropped, t.early,
                 t.registered, t.served, t.freed, t.zeroed, t.refused, t.told)
BY DEF Tally, TallyIs

LEMMA SetAcked ==
  ASSUME NEW t \in Tally, NEW n \in Nat
  PROVE  TallyIs([t EXCEPT !.acked = n], t.delivered, n, t.dropped, t.early,
                 t.registered, t.served, t.freed, t.zeroed, t.refused, t.told)
BY DEF Tally, TallyIs

LEMMA SetDropped ==
  ASSUME NEW t \in Tally, NEW n \in Nat
  PROVE  TallyIs([t EXCEPT !.dropped = n], t.delivered, t.acked, n, t.early,
                 t.registered, t.served, t.freed, t.zeroed, t.refused, t.told)
BY DEF Tally, TallyIs

LEMMA SetEarly ==
  ASSUME NEW t \in Tally, NEW n \in Nat
  PROVE  TallyIs([t EXCEPT !.early = n], t.delivered, t.acked, t.dropped, n,
                 t.registered, t.served, t.freed, t.zeroed, t.refused, t.told)
BY DEF Tally, TallyIs

LEMMA SetRegistered ==
  ASSUME NEW t \in Tally, NEW n \in Nat
  PROVE  TallyIs([t EXCEPT !.registered = n], t.delivered, t.acked, t.dropped,
                 t.early, n, t.served, t.freed, t.zeroed, t.refused, t.told)
BY DEF Tally, TallyIs

LEMMA SetServed ==
  ASSUME NEW t \in Tally, NEW n \in Nat
  PROVE  TallyIs([t EXCEPT !.served = n], t.delivered, t.acked, t.dropped,
                 t.early, t.registered, n, t.freed, t.zeroed, t.refused, t.told)
BY DEF Tally, TallyIs

LEMMA SetFreed ==
  ASSUME NEW t \in Tally, NEW n \in Nat
  PROVE  TallyIs([t EXCEPT !.freed = n], t.delivered, t.acked, t.dropped,
                 t.early, t.registered, t.served, n, t.zeroed, t.refused, t.told)
BY DEF Tally, TallyIs

LEMMA SetZeroed ==
  ASSUME NEW t \in Tally, NEW n \in Nat
  PROVE  TallyIs([t EXCEPT !.zeroed = n], t.delivered, t.acked, t.dropped,
                 t.early, t.registered, t.served, t.freed, n, t.refused, t.told)
BY DEF Tally, TallyIs

LEMMA SetRefused ==
  ASSUME NEW t \in Tally, NEW n \in Nat
  PROVE  TallyIs([t EXCEPT !.refused = n], t.delivered, t.acked, t.dropped,
                 t.early, t.registered, t.served, t.freed, t.zeroed, n, t.told)
BY DEF Tally, TallyIs

LEMMA SetTold ==
  ASSUME NEW t \in Tally, NEW b \in BOOLEAN
  PROVE  TallyIs([t EXCEPT !.told = b], t.delivered, t.acked, t.dropped,
                 t.early, t.registered, t.served, t.freed, t.zeroed, t.refused, b)
BY DEF Tally, TallyIs

\* u is s with tally t for request r, or with another list, set of observing
\* requests or set of codes.
Tallied(s, u, r, t) ==
  /\ u \in Srv
  /\ u.asyncs = s.asyncs /\ u.observing = s.observing /\ u.mcast = s.mcast
  /\ u.tally[r] = t /\ \A q \in Requests \ {r} : u.tally[q] = s.tally[q]

LEMMA SrvTypes ==
  ASSUME NEW s \in Srv
  PROVE  /\ s.asyncs \in Seq(Entry) /\ s.observing \in SUBSET Requests
         /\ s.mcast \in SUBSET (Requests \X Nat) /\ s.tally \in [Requests -> Tally]
         /\ \A r \in Requests : s.tally[r] \in Tally
BY DEF Srv

LEMMA SetTally ==
  ASSUME NEW s \in Srv, NEW r \in Requests, NEW t \in Tally
  PROVE  Tallied(s, [s EXCEPT !.tally[r] = t], r, t)
<1> DEFINE f == [s.tally EXCEPT ![r] = t]
           u == [s EXCEPT !.tally = f]
<1>1. s.tally \in [Requests -> Tally]
  BY DEF Srv
<1>2. f \in [Requests -> Tally] /\ f[r] = t /\ \A q \in Requests \ {r} : f[q] = s.tally[q]
  BY <1>1
<1>3. u = [s EXCEPT !.tally[r] = t]
  BY DEF f
<1> HIDE DEF f
<1>4. /\ u \in Srv /\ u.asyncs = s.asyncs /\ u.observing = s.observing
      /\ u.mcast = s.mcast /\ u.tally = f
  BY <1>2 DEF Srv
<1> HIDE DEF u
<1> QED
  BY <1>2, <1>3, <1>4 DEF Tallied

LEMMA SetAsyncs ==
  ASSUME NEW s \in Srv, NEW a \in Seq(Entry)
  PROVE  LET u == [s EXCEPT !.asyncs = a]
         IN /\ u \in Srv /\ u.asyncs = a /\ u.observing = s.observing
            /\ u.mcast = s.mcast /\ u.tally = s.tally
BY DEF Srv

LEMMA SetObserving ==
  ASSUME NEW s \in Srv, NEW o \in SUBSET Requests
  PROVE  LET u == [s EXCEPT !.observing = o]
         IN /\ u \in Srv /\ u.asyncs = s.asyncs /\ u.observing = o
            /\ u.mcast = s.mcast /\ u.tally = s.tally
BY DEF Srv

LEMMA SetMcast ==
  ASSUME NEW s \in Srv, NEW x \in SUBSET (Requests \X Nat)
  PROVE  LET u == [s EXCEPT !.mcast = x]
         IN /\ u \in Srv /\ u.asyncs = s.asyncs /\ u.observing = s.observing
            /\ u.mcast = x /\ u.tally = s.tally
BY DEF Srv

-----------------------------------------------------------------------------
(* What the operations do to it.                                           *)

One(r) == IF Owes(r) THEN 1 ELSE 0

\* The one a CON gets.
ForCon(r) == IF Message[r].type = "CON" THEN 1 ELSE 0

OthersSame(s, u, r) == \A q \in Requests \ {r} : u.tally[q] = s.tally[q]

\* u is s after one more answer to r: `a' acknowledgements, n left out.
Answered(s, u, r, a, n, told) ==
  /\ u \in Srv /\ u.asyncs = s.asyncs /\ u.observing = s.observing
  /\ OthersSame(s, u, r)
  /\ TallyIs(u.tally[r], s.tally[r].delivered, s.tally[r].acked + a, s.tally[r].dropped + n,
             s.tally[r].early, s.tally[r].registered, s.tally[r].served, s.tally[r].freed,
             s.tally[r].zeroed, s.tally[r].refused,
                     told)

LEMMA SentIs ==
  ASSUME NEW s \in Srv, NEW r \in Requests, NEW code \in Nat
  PROVE  /\ Answered(s, Sent(s, r, code), r, ForCon(r), 0, Class(code) > 2)
         /\ Sent(s, r, code).mcast =
              IF Message[r].mcast THEN s.mcast \cup {<<r, code>>} ELSE s.mcast
<1> DEFINE t == s.tally[r]
           n == t.acked + (IF Message[r].type = "CON" THEN 1 ELSE 0)
           t1 == [s.tally[r] EXCEPT !.acked = n]
           s1 == [s EXCEPT !.tally[r] = t1]
           b == Class(code) > 2
           t2 == [s1.tally[r] EXCEPT !.told = b]
           s2 == [s1 EXCEPT !.tally[r] = t2]
           x == IF Message[r].mcast THEN s.mcast \cup {<<r, code>>} ELSE s.mcast
           s3 == [s2 EXCEPT !.mcast = IF Message[r].mcast THEN s2.mcast \cup {<<r, code>>} ELSE s2.mcast]
<1>0. s3 = Sent(s, r, code)
  BY Zenon DEF Sent
<1>1. /\ t \in Tally /\ s.mcast \in SUBSET (Requests \X Nat)
      /\ t.acked \in Nat /\ t.dropped \in Nat
  BY SrvTypes, TallyTypes
<1>2. n \in Nat /\ n = t.acked + ForCon(r) /\ t.dropped = t.dropped + 0
  BY <1>1 DEF ForCon
<1>3. b \in BOOLEAN /\ x \in SUBSET (Requests \X Nat)
  BY <1>1 DEF Class
<1> HIDE DEF n, b
<1>4. TallyIs(t1, t.delivered, n, t.dropped, t.early, t.registered, t.served, t.freed, t.zeroed, t.refused,
        t.told)
  BY <1>1, <1>2, SetAcked
<1>5. t1 \in Tally
  BY <1>4 DEF TallyIs
<1> HIDE DEF t1, t
<1>6. Tallied(s, s1, r, t1)
  BY <1>5, SetTally
<1> HIDE DEF s1
<1>7. s1 \in Srv /\ s1.tally[r] = t1
  BY <1>6 DEF Tallied
<1>8. TallyIs(t2, t1.delivered, t1.acked, t1.dropped, t1.early, t1.registered, t1.served,
              t1.freed, t1.zeroed, t1.refused, b)
  BY <1>3, <1>5, <1>7, SetTold
<1>9. t2 \in Tally
  BY <1>8 DEF TallyIs
<1> HIDE DEF t2
<1>10. Tallied(s1, s2, r, t2)
  BY <1>7, <1>9, SetTally
<1> HIDE DEF s2
<1>11. s2 \in Srv /\ s2.mcast = s.mcast
  BY <1>6, <1>10 DEF Tallied
<1>12. s3 = [s2 EXCEPT !.mcast = x]
  BY <1>11
<1> HIDE DEF x, s3
<1>13. /\ s3 \in Srv /\ s3.asyncs = s2.asyncs /\ s3.observing = s2.observing
       /\ s3.mcast = x /\ s3.tally = s2.tally
  BY <1>3, <1>11, <1>12, SetMcast
<1>14. s3.asyncs = s.asyncs /\ s3.observing = s.observing /\ OthersSame(s, s3, r)
       /\ s3.tally[r] = t2
  BY <1>6, <1>10, <1>13 DEF Tallied, OthersSame
<1>15. TallyIs(t2, t.delivered, t.acked + ForCon(r), t.dropped + 0, t.early, t.registered, t.served,
              t.freed, t.zeroed, t.refused, b)
  BY <1>2, <1>4, <1>8 DEF TallyIs
<1> QED
  BY <1>0, <1>13, <1>14, <1>15 DEF Answered, t, b, x

LEMMA DroppedIs ==
  ASSUME NEW s \in Srv, NEW r \in Requests
  PROVE  /\ Answered(s, Dropped(s, r), r, 0, ForCon(r), FALSE)
         /\ Dropped(s, r).mcast = s.mcast
<1> DEFINE t == s.tally[r]
           n == t.dropped + (IF Message[r].type = "CON" THEN 1 ELSE 0)
           t1 == [s.tally[r] EXCEPT !.dropped = n]
           s1 == [s EXCEPT !.tally[r] = t1]
           t2 == [s1.tally[r] EXCEPT !.told = FALSE]
           s2 == [s1 EXCEPT !.tally[r] = t2]
<1>0. s2 = Dropped(s, r)
  BY Zenon DEF Dropped
<1>1. t \in Tally /\ t.acked \in Nat /\ t.dropped \in Nat
  BY SrvTypes, TallyTypes
<1>2. n \in Nat /\ n = t.dropped + ForCon(r) /\ t.acked = t.acked + 0
  BY <1>1 DEF ForCon
<1> HIDE DEF n
<1>4. TallyIs(t1, t.delivered, t.acked, n, t.early, t.registered, t.served, t.freed, t.zeroed, t.refused,
        t.told)
  BY <1>1, <1>2, SetDropped
<1>5. t1 \in Tally
  BY <1>4 DEF TallyIs
<1> HIDE DEF t1, t
<1>6. Tallied(s, s1, r, t1)
  BY <1>5, SetTally
<1> HIDE DEF s1
<1>7. s1 \in Srv /\ s1.tally[r] = t1
  BY <1>6 DEF Tallied
<1>8. TallyIs(t2, t1.delivered, t1.acked, t1.dropped, t1.early, t1.registered, t1.served,
              t1.freed, t1.zeroed, t1.refused, FALSE)
  BY <1>5, <1>7, SetTold
<1>9. t2 \in Tally
  BY <1>8 DEF TallyIs
<1> HIDE DEF t2
<1>10. Tallied(s1, s2, r, t2)
  BY <1>7, <1>9, SetTally
<1> HIDE DEF s2
<1>11. /\ s2 \in Srv /\ s2.mcast = s.mcast /\ s2.asyncs = s.asyncs
       /\ s2.observing = s.observing /\ OthersSame(s, s2, r) /\ s2.tally[r] = t2
  BY <1>6, <1>10 DEF Tallied, OthersSame
<1>15. TallyIs(t2, t.delivered, t.acked + 0, t.dropped + ForCon(r), t.early, t.registered, t.served,
              t.freed, t.zeroed, t.refused, FALSE)
  BY <1>2, <1>4, <1>8 DEF TallyIs
<1> QED
  BY <1>0, <1>11, <1>15 DEF Answered, t

LEMMA SilentIs ==
  ASSUME NEW s \in Srv, NEW r \in Requests
  PROVE  /\ Answered(s, Silent(s, r), r, 0, 0, FALSE)
         /\ Silent(s, r).mcast = s.mcast
<1> DEFINE t == s.tally[r]
           t1 == [t EXCEPT !.told = FALSE]
           s1 == [s EXCEPT !.tally[r] = t1]
<1>0. s1 = Silent(s, r)
  BY Zenon DEF Silent
<1>1. t \in Tally /\ t.acked \in Nat /\ t.dropped \in Nat
  BY SrvTypes, TallyTypes
<1> HIDE DEF t
<1>2. TallyIs(t1, t.delivered, t.acked, t.dropped, t.early, t.registered, t.served, t.freed,
              t.zeroed, t.refused, FALSE)
  BY <1>1, SetTold
<1>3. t1 \in Tally
  BY <1>2 DEF TallyIs
<1> HIDE DEF t1
<1>4. Tallied(s, s1, r, t1)
  BY <1>3, SetTally
<1> HIDE DEF s1
<1>5. /\ s1 \in Srv /\ s1.mcast = s.mcast /\ s1.asyncs = s.asyncs
      /\ s1.observing = s.observing /\ OthersSame(s, s1, r) /\ s1.tally[r] = t1
  BY <1>4 DEF Tallied, OthersSame
<1>6. TallyIs(t1, t.delivered, t.acked + 0, t.dropped + 0, t.early, t.registered, t.served,
              t.freed, t.zeroed, t.refused, FALSE)
  BY <1>1, <1>2 DEF TallyIs
<1> QED
  BY <1>0, <1>5, <1>6 DEF Answered, t

LEMMA SendAckIs ==
  ASSUME NEW s \in Srv, NEW r \in Requests
  PROVE  /\ Answered(s, SendAck(s, r), r, ForCon(r), 0, s.tally[r].told)
         /\ SendAck(s, r).mcast = s.mcast
<1> DEFINE t == s.tally[r]
           n == t.acked + (IF Message[r].type = "CON" THEN 1 ELSE 0)
           t1 == [s.tally[r] EXCEPT !.acked = n]
           s1 == [s EXCEPT !.tally[r] = t1]
<1>0. s1 = SendAck(s, r)
  BY Zenon DEF SendAck
<1>1. t \in Tally /\ t.acked \in Nat /\ t.dropped \in Nat
  BY SrvTypes, TallyTypes
<1>2. n \in Nat /\ n = t.acked + ForCon(r) /\ t.dropped = t.dropped + 0
  BY <1>1 DEF ForCon
<1> HIDE DEF n
<1>3. TallyIs(t1, t.delivered, n, t.dropped, t.early, t.registered, t.served, t.freed, t.zeroed,
              t.refused, t.told)
  BY <1>1, <1>2, SetAcked
<1>4. t1 \in Tally
  BY <1>3 DEF TallyIs
<1> HIDE DEF t1, t
<1>5. Tallied(s, s1, r, t1)
  BY <1>4, SetTally
<1> HIDE DEF s1
<1>6. /\ s1 \in Srv /\ s1.mcast = s.mcast /\ s1.asyncs = s.asyncs
      /\ s1.observing = s.observing /\ OthersSame(s, s1, r) /\ s1.tally[r] = t1
  BY <1>5 DEF Tallied, OthersSame
<1>7. TallyIs(t1, t.delivered, t.acked + ForCon(r), t.dropped + 0, t.early, t.registered, t.served,
              t.freed, t.zeroed, t.refused, t.told)
  BY <1>2, <1>3 DEF TallyIs
<1> QED
  BY <1>0, <1>6, <1>7 DEF Answered, t

\* One more delivery.
LEMMA DeliveredIs ==
  ASSUME NEW r \in Requests, srv \in Srv
  PROVE  LET u == Delivered(r)
             t == srv.tally[r]
         IN /\ Tallied(srv, u, r, u.tally[r])
            /\ TallyIs(u.tally[r], t.delivered + 1, t.acked, t.dropped, t.early, t.registered,
                       t.served, t.freed, t.zeroed, t.refused, t.told)
<1> DEFINE n == srv.tally[r].delivered + 1
           t1 == [srv.tally[r] EXCEPT !.delivered = n]
           u == [srv EXCEPT !.tally[r] = t1]
<1>1. u = Delivered(r)
  BY Zenon DEF Delivered
<1>2. srv.tally[r] \in Tally /\ n \in Nat
  BY SrvTypes, TallyTypes
<1>3. TallyIs(t1, n, srv.tally[r].acked, srv.tally[r].dropped, srv.tally[r].early,
              srv.tally[r].registered, srv.tally[r].served, srv.tally[r].freed,
              srv.tally[r].zeroed, srv.tally[r].refused,
                      srv.tally[r].told)
  <2> HIDE DEF n
  <2> QED
    BY <1>2, SetDelivered
<1>4. t1 \in Tally
  BY <1>3 DEF TallyIs
<1>5. Tallied(srv, u, r, t1)
  <2> HIDE DEF t1
  <2> QED
    BY <1>4, SetTally
<1> HIDE DEF u, t1
<1>6. u.tally[r] = t1
  BY <1>5 DEF Tallied
<1> QED
  BY <1>1, <1>3, <1>5, <1>6 DEF n

\* One more entry of the list served.
LEMMA ServedIs ==
  ASSUME NEW s \in Srv, NEW r \in Requests
  PROVE  LET u == [s EXCEPT !.tally[r].served = @ + 1]
             t == s.tally[r]
         IN /\ Tallied(s, u, r, u.tally[r])
            /\ TallyIs(u.tally[r], t.delivered, t.acked, t.dropped, t.early, t.registered,
                       t.served + 1, t.freed, t.zeroed, t.refused, t.told)
<1> DEFINE n == s.tally[r].served + 1
           t1 == [s.tally[r] EXCEPT !.served = n]
           u == [s EXCEPT !.tally[r] = t1]
<1>1. u = [s EXCEPT !.tally[r].served = @ + 1]
  BY Zenon
<1>2. s.tally[r] \in Tally /\ n \in Nat
  BY SrvTypes, TallyTypes
<1>3. TallyIs(t1, s.tally[r].delivered, s.tally[r].acked, s.tally[r].dropped, s.tally[r].early,
              s.tally[r].registered, n, s.tally[r].freed,
              s.tally[r].zeroed, s.tally[r].refused,
                      s.tally[r].told)
  <2> HIDE DEF n
  <2> QED
    BY <1>2, SetServed
<1>4. t1 \in Tally
  BY <1>3 DEF TallyIs
<1>5. Tallied(s, u, r, t1)
  <2> HIDE DEF t1
  <2> QED
    BY <1>4, SetTally
<1> HIDE DEF u, t1
<1>6. u.tally[r] = t1
  BY <1>5 DEF Tallied
<1> QED
  BY <1>1, <1>3, <1>5, <1>6 DEF n

\* One more entry freed.
LEMMA FreedIs ==
  ASSUME NEW s \in Srv, NEW r \in Requests
  PROVE  LET u == [s EXCEPT !.tally[r].freed = @ + 1]
             t == s.tally[r]
         IN /\ Tallied(s, u, r, u.tally[r])
            /\ TallyIs(u.tally[r], t.delivered, t.acked, t.dropped, t.early, t.registered,
                       t.served, t.freed + 1, t.zeroed, t.refused, t.told)
<1> DEFINE n == s.tally[r].freed + 1
           t1 == [s.tally[r] EXCEPT !.freed = n]
           u == [s EXCEPT !.tally[r] = t1]
<1>1. u = [s EXCEPT !.tally[r].freed = @ + 1]
  BY Zenon
<1>2. s.tally[r] \in Tally /\ n \in Nat
  BY SrvTypes, TallyTypes
<1>3. TallyIs(t1, s.tally[r].delivered, s.tally[r].acked, s.tally[r].dropped, s.tally[r].early,
              s.tally[r].registered, s.tally[r].served, n, s.tally[r].zeroed, s.tally[r].refused,
                      s.tally[r].told)
  <2> HIDE DEF n
  <2> QED
    BY <1>2, SetFreed
<1>4. t1 \in Tally
  BY <1>3 DEF TallyIs
<1>5. Tallied(s, u, r, t1)
  <2> HIDE DEF t1
  <2> QED
    BY <1>4, SetTally
<1> HIDE DEF u, t1
<1>6. u.tally[r] = t1
  BY <1>5 DEF Tallied
<1> QED
  BY <1>1, <1>3, <1>5, <1>6 DEF n

\* One more entry that ended for its delay of 0.
LEMMA ZeroedIs ==
  ASSUME NEW s \in Srv, NEW r \in Requests
  PROVE  LET u == [s EXCEPT !.tally[r].zeroed = @ + 1]
             t == s.tally[r]
         IN /\ Tallied(s, u, r, u.tally[r])
            /\ TallyIs(u.tally[r], t.delivered, t.acked, t.dropped, t.early, t.registered,
                       t.served, t.freed, t.zeroed + 1, t.refused, t.told)
<1> DEFINE n == s.tally[r].zeroed + 1
           t1 == [s.tally[r] EXCEPT !.zeroed = n]
           u == [s EXCEPT !.tally[r] = t1]
<1>1. u = [s EXCEPT !.tally[r].zeroed = @ + 1]
  BY Zenon
<1>2. s.tally[r] \in Tally /\ n \in Nat
  BY SrvTypes, TallyTypes
<1>3. TallyIs(t1, s.tally[r].delivered, s.tally[r].acked, s.tally[r].dropped, s.tally[r].early,
              s.tally[r].registered, s.tally[r].served, s.tally[r].freed, n, s.tally[r].refused,
                      s.tally[r].told)
  <2> HIDE DEF n
  <2> QED
    BY <1>2, SetZeroed
<1>4. t1 \in Tally
  BY <1>3 DEF TallyIs
<1>5. Tallied(s, u, r, t1)
  <2> HIDE DEF t1
  <2> QED
    BY <1>4, SetTally
<1> HIDE DEF u, t1
<1>6. u.tally[r] = t1
  BY <1>5 DEF Tallied
<1> QED
  BY <1>1, <1>3, <1>5, <1>6 DEF n

\* One more entry that ended with an error.
LEMMA RefusedIs ==
  ASSUME NEW s \in Srv, NEW r \in Requests
  PROVE  LET u == [s EXCEPT !.tally[r].refused = @ + 1]
             t == s.tally[r]
         IN /\ Tallied(s, u, r, u.tally[r])
            /\ TallyIs(u.tally[r], t.delivered, t.acked, t.dropped, t.early, t.registered,
                       t.served, t.freed, t.zeroed, t.refused + 1, t.told)
<1> DEFINE n == s.tally[r].refused + 1
           t1 == [s.tally[r] EXCEPT !.refused = n]
           u == [s EXCEPT !.tally[r] = t1]
<1>1. u = [s EXCEPT !.tally[r].refused = @ + 1]
  BY Zenon
<1>2. s.tally[r] \in Tally /\ n \in Nat
  BY SrvTypes, TallyTypes
<1>3. TallyIs(t1, s.tally[r].delivered, s.tally[r].acked, s.tally[r].dropped, s.tally[r].early,
              s.tally[r].registered, s.tally[r].served, s.tally[r].freed, s.tally[r].zeroed, n,
                      s.tally[r].told)
  <2> HIDE DEF n
  <2> QED
    BY <1>2, SetRefused
<1>4. t1 \in Tally
  BY <1>3 DEF TallyIs
<1>5. Tallied(s, u, r, t1)
  <2> HIDE DEF t1
  <2> QED
    BY <1>4, SetTally
<1> HIDE DEF u, t1
<1>6. u.tally[r] = t1
  BY <1>5 DEF Tallied
<1> QED
  BY <1>1, <1>3, <1>5, <1>6 DEF n

\* A request that is served late changes no count of early ones.
LEMMA NotEarlyIs ==
  ASSUME NEW s \in Srv, NEW r \in Requests
  PROVE  LET u == [s EXCEPT !.tally[r].early = @ + (IF FALSE THEN 1 ELSE 0)]
             t == s.tally[r]
         IN /\ Tallied(s, u, r, u.tally[r])
            /\ TallyIs(u.tally[r], t.delivered, t.acked, t.dropped, t.early, t.registered,
                       t.served, t.freed, t.zeroed, t.refused, t.told)
<1> DEFINE n == s.tally[r].early + (IF FALSE THEN 1 ELSE 0)
           t1 == [s.tally[r] EXCEPT !.early = n]
           u == [s EXCEPT !.tally[r] = t1]
<1>1. u = [s EXCEPT !.tally[r].early = @ + (IF FALSE THEN 1 ELSE 0)]
  BY Zenon
<1>2. s.tally[r] \in Tally /\ n \in Nat /\ n = s.tally[r].early
  BY SrvTypes, TallyTypes
<1>3. TallyIs(t1, s.tally[r].delivered, s.tally[r].acked, s.tally[r].dropped, n,
              s.tally[r].registered, s.tally[r].served, s.tally[r].freed,
              s.tally[r].zeroed, s.tally[r].refused,
                      s.tally[r].told)
  <2> HIDE DEF n
  <2> QED
    BY <1>2, SetEarly
<1>4. t1 \in Tally
  BY <1>3 DEF TallyIs
<1>5. Tallied(s, u, r, t1)
  <2> HIDE DEF t1
  <2> QED
    BY <1>4, SetTally
<1> HIDE DEF u, t1
<1>6. u.tally[r] = t1
  BY <1>5 DEF Tallied
<1> HIDE DEF n
<1> QED
  BY <1>1, <1>2, <1>3, <1>5, <1>6

\* One more entry, in front of the list.
LEMMA RegisterIs ==
  ASSUME NEW s \in Srv, NEW r \in Requests, NEW pdu \in RequestShape, NEW delay \in Nat,
         clock \in Nat
  PROVE  LET u == Register(s, r, pdu, delay)
             e == [request |-> r, pdu |-> pdu, due |-> Due(delay)]
             t == s.tally[r]
         IN /\ u \in Srv /\ e \in Entry /\ u.asyncs = <<e>> \o s.asyncs
            /\ u.observing = s.observing /\ u.mcast = s.mcast
            /\ OthersSame(s, u, r)
            /\ TallyIs(u.tally[r], t.delivered, t.acked, t.dropped, t.early, t.registered + 1,
                       t.served, t.freed, t.zeroed, t.refused, t.told)
<1> DEFINE e == [request |-> r, pdu |-> pdu, due |-> Due(delay)]
           a == <<e>> \o s.asyncs
           s1 == [s EXCEPT !.asyncs = a]
           n == s1.tally[r].registered + 1
           t1 == [s1.tally[r] EXCEPT !.registered = n]
           u == [s1 EXCEPT !.tally[r] = t1]
<1>0. u = Register(s, r, pdu, delay)
  BY Zenon DEF Register
<1>1. s.asyncs \in Seq(Entry) /\ s.tally[r] \in Tally /\ s.tally[r].registered \in Nat
  BY SrvTypes, TallyTypes
<1>2. Due(delay) \in Nat
  BY DEF Due
<1>3. e \in Entry
  BY <1>2 DEF Entry
<1> HIDE DEF e
<1>4. a \in Seq(Entry)
  BY <1>1, <1>3, ConsSeq
<1> HIDE DEF a
<1>5. /\ s1 \in Srv /\ s1.asyncs = a /\ s1.observing = s.observing
      /\ s1.mcast = s.mcast /\ s1.tally = s.tally
  BY <1>4, SetAsyncs
<1> HIDE DEF s1
<1>6. s1.tally[r] \in Tally /\ n \in Nat /\ n = s.tally[r].registered + 1
  BY <1>1, <1>5
<1> HIDE DEF n
<1>7. TallyIs(t1, s1.tally[r].delivered, s1.tally[r].acked, s1.tally[r].dropped,
              s1.tally[r].early, n, s1.tally[r].served, s1.tally[r].freed,
              s1.tally[r].zeroed, s1.tally[r].refused,
                      s1.tally[r].told)
  BY <1>6, SetRegistered
<1>8. t1 \in Tally
  BY <1>7 DEF TallyIs
<1> HIDE DEF t1
<1>9. Tallied(s1, u, r, t1)
  BY <1>5, <1>8, SetTally
<1> HIDE DEF u
<1>10. /\ u \in Srv /\ u.asyncs = a /\ u.observing = s.observing /\ u.mcast = s.mcast
       /\ u.tally[r] = t1 /\ OthersSame(s, u, r)
  BY <1>5, <1>9 DEF Tallied, OthersSame
<1> QED
  BY <1>0, <1>3, <1>5, <1>6, <1>7, <1>10 DEF e, a

\* The subscription is made, cancelled, or left as it is.
LEMMA SubscribedIs ==
  ASSUME NEW s \in Srv, NEW r \in Requests
  PROVE  LET u == Subscribed(s, r)
         IN /\ u \in Srv /\ u.asyncs = s.asyncs /\ u.mcast = s.mcast /\ u.tally = s.tally
            /\ s.observing \ {r} \subseteq u.observing
            /\ u.observing \subseteq s.observing \cup {r}
            /\ ~Observable(r) => u.observing = s.observing
<1>1. s.observing \cup {r} \in SUBSET Requests /\ s.observing \ {r} \in SUBSET Requests
  BY SrvTypes
<1>2. CASE ~Observable(r)
  BY <1>2 DEF Subscribed
<1>3. CASE Observable(r) /\ Message[r].observe = "establish"
  <2> DEFINE o == s.observing \cup {r}
  <2>1. Subscribed(s, r) = [s EXCEPT !.observing = o]
    BY <1>3, Zenon DEF Subscribed
  <2>2. o \in SUBSET Requests /\ s.observing \ {r} \subseteq o /\ o \subseteq s.observing \cup {r}
    BY <1>1
  <2> HIDE DEF o
  <2> QED
    BY <1>3, <2>1, <2>2, SetObserving
<1>4. CASE Observable(r) /\ Message[r].observe # "establish"
  <2> DEFINE o == s.observing \ {r}
  <2>1. Subscribed(s, r) = [s EXCEPT !.observing = o]
    BY <1>4, Zenon DEF Subscribed
  <2>2. o \in SUBSET Requests /\ s.observing \ {r} \subseteq o /\ o \subseteq s.observing \cup {r}
    BY <1>1
  <2> HIDE DEF o
  <2> QED
    BY <1>4, <2>1, <2>2, SetObserving
<1> QED
  BY <1>2, <1>3, <1>4

LEMMA TakeBackIs ==
  ASSUME NEW s \in Srv, NEW r \in Requests, NEW code \in Nat
  PROVE  LET u == TakeBack(s, r, code)
         IN /\ u \in Srv /\ u.asyncs = s.asyncs /\ u.mcast = s.mcast /\ u.tally = s.tally
            /\ s.observing \ {r} \subseteq u.observing
            /\ u.observing \subseteq s.observing
            /\ Observable(r) /\ Class(code) > 2 => r \notin u.observing
<1> DEFINE o == s.observing \ {r}
<1>1. o \in SUBSET Requests /\ o \subseteq s.observing /\ r \notin o
  BY SrvTypes
<1>2. CASE Observable(r) /\ Class(code) > 2
  <2>1. TakeBack(s, r, code) = [s EXCEPT !.observing = o]
    BY <1>2, Zenon DEF TakeBack
  <2>2. s.observing \ {r} \subseteq o
    OBVIOUS
  <2> HIDE DEF o
  <2> QED
    BY <1>1, <1>2, <2>1, <2>2, SetObserving
<1>3. CASE ~(Observable(r) /\ Class(code) > 2)
  BY <1>3 DEF TakeBack
<1> QED
  BY <1>2, <1>3

-----------------------------------------------------------------------------
(* The list of entries: at most one for a request.                         *)

In(q, x) == \E k \in 1..Len(q) : q[k] = x
Waits(q, r) == \E k \in 1..Len(q) : q[k].request = r
Distinct(q) == \A i, j \in 1..Len(q) : q[i].request = q[j].request => i = j

LEMMA Removed ==
  ASSUME NEW q \in Seq(Entry), Distinct(q), NEW i \in 1..Len(q)
  PROVE  LET p == RemoveAt(q, i)
         IN /\ p \in Seq(Entry) /\ Distinct(p)
            /\ \A x : In(p, x) <=> In(q, x) /\ x # q[i]
            /\ \A r : Waits(p, r) <=> Waits(q, r) /\ r # q[i].request
<1> DEFINE p == RemoveAt(q, i)
<1>1. /\ p \in Seq(Entry) /\ Len(p) = Len(q) - 1
      /\ \A j \in 1..(Len(q) - 1) : p[j] = IF j < i THEN q[j] ELSE q[j + 1]
  BY RemoveAtSeq
<1>2. Len(q) \in Nat /\ i \in Nat /\ 1 <= i /\ i <= Len(q)
  OBVIOUS
<1> HIDE DEF p
<1>3. \A j \in 1..Len(p) : \E k \in 1..Len(q) : k # i /\ p[j] = q[k]
                              /\ k = (IF j < i THEN j ELSE j + 1)
  BY <1>1, <1>2
<1>4. \A k \in 1..Len(q) : k # i => \E j \in 1..Len(p) : p[j] = q[k]
  <2> SUFFICES ASSUME NEW k \in 1..Len(q), k # i PROVE \E j \in 1..Len(p) : p[j] = q[k]
    OBVIOUS
  <2>1. CASE k < i
    BY <1>1, <1>2, <2>1
  <2>2. CASE k > i
    <3> DEFINE j == k - 1
    <3>1. j \in 1..Len(p) /\ ~(j < i) /\ j + 1 = k
      BY <1>1, <1>2, <2>2
    <3> HIDE DEF j
    <3> QED
      BY <1>1, <3>1
  <2> QED
    BY <1>2, <2>1, <2>2
<1>5. Distinct(p)
  <2> SUFFICES ASSUME NEW a \in 1..Len(p), NEW b \in 1..Len(p), p[a].request = p[b].request
               PROVE  a = b
    BY DEF Distinct
  <2>1. PICK k \in 1..Len(q) : p[a] = q[k] /\ k = (IF a < i THEN a ELSE a + 1)
    BY <1>3
  <2>2. PICK m \in 1..Len(q) : p[b] = q[m] /\ m = (IF b < i THEN b ELSE b + 1)
    BY <1>3
  <2>3. k = m
    BY <2>1, <2>2 DEF Distinct
  <2> QED
    BY <1>1, <1>2, <2>1, <2>2, <2>3
<1>6. \A k \in 1..Len(q) : k # i => q[k].request # q[i].request /\ q[k] # q[i]
  BY DEF Distinct
<1>9. \A j \in 1..Len(p) : \E k \in 1..Len(q) : k # i /\ p[j] = q[k]
  BY <1>3
<1>7. \A x : In(p, x) <=> In(q, x) /\ x # q[i]
  <2>1. ASSUME NEW x, In(p, x) PROVE In(q, x) /\ x # q[i]
    BY <1>6, <1>9, <2>1 DEF In
  <2>2. ASSUME NEW x, In(q, x), x # q[i] PROVE In(p, x)
    BY <1>4, <2>2 DEF In
  <2> QED
    BY <2>1, <2>2
<1>8. \A r : Waits(p, r) <=> Waits(q, r) /\ r # q[i].request
  <2>1. ASSUME NEW r, Waits(p, r) PROVE Waits(q, r) /\ r # q[i].request
    BY <1>6, <1>9, <2>1 DEF Waits
  <2>2. ASSUME NEW r, Waits(q, r), r # q[i].request PROVE Waits(p, r)
    BY <1>4, <2>2 DEF Waits
  <2> QED
    BY <2>1, <2>2
<1> QED
  BY <1>1, <1>5, <1>7, <1>8 DEF p

LEMMA Prepended ==
  ASSUME NEW q \in Seq(Entry), Distinct(q), NEW e \in Entry, ~Waits(q, e.request)
  PROVE  LET p == <<e>> \o q
         IN /\ p \in Seq(Entry) /\ Distinct(p)
            /\ \A x : In(p, x) <=> In(q, x) \/ x = e
            /\ \A r : Waits(p, r) <=> Waits(q, r) \/ r = e.request
<1> DEFINE p == <<e>> \o q
<1>1. /\ p \in Seq(Entry) /\ Len(p) = Len(q) + 1 /\ p[1] = e
      /\ \A j \in 1..Len(q) : p[j + 1] = q[j]
  BY ConsSeq
<1>2. Len(q) \in Nat
  OBVIOUS
<1> HIDE DEF p
<1>3. ASSUME NEW j \in 1..Len(p) PROVE j = 1 \/ \E k \in 1..Len(q) : j = k + 1 /\ p[j] = q[k]
  <2> DEFINE k == j - 1
  <2>1. j = 1 \/ (k \in 1..Len(q) /\ j = k + 1)
    BY <1>1, <1>2
  <2> HIDE DEF k
  <2> QED
    BY <1>1, <2>1
<1>4. \A k \in 1..Len(q) : k + 1 \in 1..Len(p) /\ p[k + 1] = q[k]
  BY <1>1, <1>2
<1>5. 1 \in 1..Len(p)
  BY <1>1, <1>2
<1>6. Distinct(p)
  <2> SUFFICES ASSUME NEW a \in 1..Len(p), NEW b \in 1..Len(p), p[a].request = p[b].request
               PROVE  a = b
    BY DEF Distinct
  <2>1. a = 1 \/ \E k \in 1..Len(q) : a = k + 1 /\ p[a] = q[k]
    BY <1>3
  <2>2. b = 1 \/ \E k \in 1..Len(q) : b = k + 1 /\ p[b] = q[k]
    BY <1>3
  <2>3. \A k \in 1..Len(q) : q[k].request # e.request
    BY DEF Waits
  <2>4. a = 1 => b = 1
    BY <1>1, <2>2, <2>3
  <2>5. b = 1 => a = 1
    BY <1>1, <2>1, <2>3
  <2>6. ASSUME a # 1, b # 1 PROVE a = b
    <3>1. PICK k \in 1..Len(q) : a = k + 1 /\ p[a] = q[k]
      BY <2>1, <2>6
    <3>2. PICK m \in 1..Len(q) : b = m + 1 /\ p[b] = q[m]
      BY <2>2, <2>6
    <3>3. k = m
      BY <3>1, <3>2 DEF Distinct
    <3> QED
      BY <3>1, <3>2, <3>3
  <2> QED
    BY <2>4, <2>5, <2>6
<1>7. \A j \in 1..Len(p) : p[j] = e \/ \E k \in 1..Len(q) : p[j] = q[k]
  BY <1>1, <1>3
<1>8. \A k \in 1..Len(q) : \E j \in 1..Len(p) : p[j] = q[k]
  BY <1>4
<1>9. \E j \in 1..Len(p) : p[j] = e
  BY <1>1, <1>5
<1>10. \A x : In(p, x) <=> In(q, x) \/ x = e
  <2>1. ASSUME NEW x, In(p, x) PROVE In(q, x) \/ x = e
    BY <1>7, <2>1 DEF In
  <2>2. ASSUME NEW x, In(q, x) \/ x = e PROVE In(p, x)
    BY <1>8, <1>9, <2>2 DEF In
  <2> QED
    BY <2>1, <2>2
<1>11. \A r : Waits(p, r) <=> Waits(q, r) \/ r = e.request
  <2>1. ASSUME NEW r, Waits(p, r) PROVE Waits(q, r) \/ r = e.request
    BY <1>7, <2>1 DEF Waits
  <2>2. ASSUME NEW r, Waits(q, r) \/ r = e.request PROVE Waits(p, r)
    BY <1>8, <1>9, <2>2 DEF Waits
  <2> QED
    BY <2>1, <2>2
<1> QED
  BY <1>1, <1>6, <1>10, <1>11 DEF p

LEMMA EntriesCount ==
  ASSUME NEW s \in Srv, Distinct(s.asyncs), NEW r
  PROVE  /\ Cardinality(Entries(s, r)) = IF Waits(s.asyncs, r) THEN 1 ELSE 0
         /\ Entries(s, r) = {} <=> ~Waits(s.asyncs, r)
<1>1. CASE ~Waits(s.asyncs, r)
  <2>1. Entries(s, r) = {}
    BY <1>1 DEF Waits, Entries
  <2> QED
    BY <1>1, <2>1, FS_EmptySet
<1>2. CASE Waits(s.asyncs, r)
  <2>1. PICK k \in 1..Len(s.asyncs) : s.asyncs[k].request = r
    BY <1>2 DEF Waits
  <2>2. Entries(s, r) = {k}
    BY <2>1 DEF Entries, Distinct
  <2> QED
    BY <1>2, <2>2, FS_Singleton
<1> QED
  BY <1>1, <1>2

LEMMA FreeIs ==
  ASSUME NEW s \in Srv, NEW e
  PROVE  LET u == Free(s, e)
         IN /\ u \in Srv /\ u.observing = s.observing /\ u.mcast = s.mcast /\ u.tally = s.tally
            /\ ~Waits(s.asyncs, e.request) => u.asyncs = s.asyncs
            /\ Waits(s.asyncs, e.request) =>
                 \E i \in 1..Len(s.asyncs) : /\ s.asyncs[i].request = e.request
                                             /\ u.asyncs = RemoveAt(s.asyncs, i)
<1> DEFINE q == s.asyncs
           I == {i \in 1..Len(q) : q[i].request = e.request}
           a == IF \E i \in 1..Len(q) : q[i].request = e.request
                THEN RemoveAt(q, IF I # {} THEN Min(I) ELSE 0) ELSE q
<1>1. Free(s, e) = [s EXCEPT !.asyncs = a]
  BY DEF Free, RemoveFirstMatch, SelectInSeq
<1>2. q \in Seq(Entry)
  BY SrvTypes
<1>3. CASE ~Waits(q, e.request)
  <2>1. a = q
    BY <1>3 DEF Waits
  <2> HIDE DEF a
  <2> QED
    BY <1>1, <1>2, <1>3, <2>1, SetAsyncs
<1>4. CASE Waits(q, e.request)
  <2>1. I # {} /\ I \in SUBSET Nat
    BY <1>4 DEF Waits
  <2>2. \E i \in I : \A j \in I : i <= j
    <3> HIDE DEF I
    <3> QED
      BY <2>1, LeastNat
  <2>3. Min(I) \in I
    BY <2>2 DEF Min
  <2>4. a = RemoveAt(q, Min(I))
    BY <1>4, <2>1 DEF Waits
  <2>5. Min(I) \in 1..Len(q) /\ q[Min(I)].request = e.request
    BY <2>3
  <2>6. a \in Seq(Entry)
    <3> HIDE DEF a, I, q
    <3> QED
      BY <1>2, <2>4, <2>5, RemoveAtSeq
  <2> HIDE DEF a, I
  <2> QED
    BY <1>1, <1>4, <2>4, <2>5, <2>6, SetAsyncs
<1> QED
  BY <1>3, <1>4

-----------------------------------------------------------------------------
(* What a request is told.                                                 *)

\* A request whose token may be subscribed: it reaches a resource that answers.
MayObserve(r) == /\ Observable(r) /\ Verdict(r) = 0
                 /\ FailCode(Message[r]) = 0 /\ ~Message[r].crit

ObservingFits(s) == \A r \in s.observing : MayObserve(r)
McastFits(s) == \A x \in s.mcast : Class(x[2]) > 2 => McastError(x[1], x[2])

\* u is s after r was handled: a answers, left out or not, and g new entries.
Settled(s, u, r, a, g) ==
  /\ u \in Srv /\ OthersSame(s, u, r) /\ u.observing \ {r} = s.observing \ {r}
  /\ u.tally[r].delivered = s.tally[r].delivered /\ u.tally[r].early = s.tally[r].early
  /\ Ended(u.tally[r]) = Ended(s.tally[r]) /\ u.tally[r].refused = s.tally[r].refused
  /\ u.tally[r].freed = s.tally[r].freed
  /\ u.tally[r].acked + u.tally[r].dropped = s.tally[r].acked + s.tally[r].dropped + a
  /\ u.tally[r].registered = s.tally[r].registered + g

LEMMA AnsweredSettles ==
  ASSUME NEW s \in Srv, NEW u, NEW r \in Requests, NEW a \in Nat, NEW n \in Nat, NEW told,
         Answered(s, u, r, a, n, told)
  PROVE  Settled(s, u, r, a + n, 0) /\ u.tally[r].told = told
<1>1. s.tally[r] \in Tally
  BY SrvTypes
<1>2. s.tally[r].acked \in Nat /\ s.tally[r].dropped \in Nat /\ s.tally[r].registered \in Nat
  BY <1>1, TallyTypes
<1>3. Ended(u.tally[r]) = Ended(s.tally[r])
  BY DEF Answered, TallyIs, Ended
<1> QED
  BY <1>2, <1>3 DEF Answered, TallyIs, Settled

\* A request that is acknowledged like any other: a CON is owed it.
Single(r) == Message[r].type = "CON" => Owes(r)

LEMMA OneIsNat ==
  ASSUME NEW r
  PROVE  /\ One(r) \in Nat /\ One(r) + 0 = One(r) /\ 0 + One(r) = One(r)
         /\ ForCon(r) \in Nat /\ (Single(r) => ForCon(r) = One(r))
         /\ (Owes(r) => One(r) = 1) /\ (~Owes(r) => One(r) = 0)
BY DEF One, ForCon, Single, Owes

LEMMA DroppedSettles ==
  ASSUME NEW s \in Srv, NEW r \in Requests, Single(r)
  PROVE  LET u == Dropped(s, r)
         IN /\ Settled(s, u, r, One(r), 0) /\ ~u.tally[r].told
            /\ u.asyncs = s.asyncs /\ u.observing = s.observing /\ u.mcast = s.mcast
<1> DEFINE u == Dropped(s, r)
           a == 0
           n == ForCon(r)
           b == FALSE
<1>1. Answered(s, u, r, a, n, b) /\ u.mcast = s.mcast
  BY DroppedIs
<1>2. a \in Nat /\ n \in Nat /\ a + n = One(r) /\ ~b
  BY OneIsNat
<1> HIDE DEF a, n, b, u
<1>3. Settled(s, u, r, a + n, 0) /\ u.tally[r].told = b
  BY <1>1, <1>2, AnsweredSettles
<1>4. u.asyncs = s.asyncs /\ u.observing = s.observing
  BY <1>1 DEF Answered
<1> QED
  BY <1>1, <1>2, <1>3, <1>4 DEF u

LEMMA SilentSettles ==
  ASSUME NEW s \in Srv, NEW r \in Requests, ~Owes(r)
  PROVE  LET u == Silent(s, r)
         IN /\ Settled(s, u, r, One(r), 0) /\ ~u.tally[r].told
            /\ u.asyncs = s.asyncs /\ u.observing = s.observing /\ u.mcast = s.mcast
<1> DEFINE u == Silent(s, r)
           a == 0
           n == 0
           b == FALSE
<1>1. Answered(s, u, r, a, n, b) /\ u.mcast = s.mcast
  BY SilentIs
<1>2. a \in Nat /\ n \in Nat /\ a + n = One(r) /\ ~b
  BY OneIsNat
<1> HIDE DEF a, n, b, u
<1>3. Settled(s, u, r, a + n, 0) /\ u.tally[r].told = b
  BY <1>1, <1>2, AnsweredSettles
<1>4. u.asyncs = s.asyncs /\ u.observing = s.observing
  BY <1>1 DEF Answered
<1> QED
  BY <1>1, <1>2, <1>3, <1>4 DEF u

LEMMA SendAckSettles ==
  ASSUME NEW s \in Srv, NEW r \in Requests, Single(r)
  PROVE  LET u == SendAck(s, r)
         IN /\ Settled(s, u, r, One(r), 0) /\ u.tally[r].told = s.tally[r].told
            /\ u.asyncs = s.asyncs /\ u.observing = s.observing /\ u.mcast = s.mcast
<1> DEFINE u == SendAck(s, r)
           a == ForCon(r)
           n == 0
           b == s.tally[r].told
<1>1. Answered(s, u, r, a, n, b) /\ u.mcast = s.mcast
  BY SendAckIs
<1>2. a \in Nat /\ n \in Nat /\ a + n = One(r) /\ b = s.tally[r].told
  BY OneIsNat
<1> HIDE DEF a, n, b, u
<1>3. Settled(s, u, r, a + n, 0) /\ u.tally[r].told = b
  BY <1>1, <1>2, AnsweredSettles
<1>4. u.asyncs = s.asyncs /\ u.observing = s.observing
  BY <1>1 DEF Answered
<1> QED
  BY <1>1, <1>2, <1>3, <1>4 DEF u

LEMMA SentSettles ==
  ASSUME NEW s \in Srv, NEW r \in Requests, NEW code \in Nat, Single(r)
  PROVE  LET u == Sent(s, r, code)
         IN /\ Settled(s, u, r, One(r), 0) /\ (u.tally[r].told <=> Class(code) > 2)
            /\ u.asyncs = s.asyncs /\ u.observing = s.observing
<1> DEFINE u == Sent(s, r, code)
           a == ForCon(r)
           n == 0
           b == Class(code) > 2
<1>1. Answered(s, u, r, a, n, b)
  BY SentIs
<1>2. a \in Nat /\ n \in Nat /\ a + n = One(r) /\ (b <=> Class(code) > 2)
  BY OneIsNat
<1> HIDE DEF a, n, b, u
<1>3. Settled(s, u, r, a + n, 0) /\ u.tally[r].told = b
  BY <1>1, <1>2, AnsweredSettles
<1>4. u.asyncs = s.asyncs /\ u.observing = s.observing
  BY <1>1 DEF Answered
<1> QED
  BY <1>2, <1>3, <1>4 DEF u

\* A group request that gets as far as a response is a NON.
GroupNon(r) == Message[r].mcast => Message[r].type = "NON"

\* Only what needs no acknowledgement is dropped.
LEMMA DropOwesNothing ==
  ASSUME NEW r \in Requests, NEW code \in Nat, GroupNon(r)
  PROVE  Single(r) /\ (Respond(r, code) = "drop" => ~Owes(r))
<1>1. Message[r].type \in {"CON", "NON"}
  BY MessageAssumption DEF Requests, RequestShape
<1>2. Single(r)
  BY DEF Single, Owes, GroupNon
<1>3. Respond(r, code) = "drop" => Message[r].type # "CON"
  BY DEF Respond, ResponseType, GroupNon
<1> QED
  BY <1>1, <1>2, <1>3 DEF Owes

\* A response that no_response() lets pass is no error for a group, unless the
\* client asked for it.
LEMMA SentCodeFits ==
  ASSUME NEW r \in Requests, NEW code \in Nat, Respond(r, code) # "drop"
  PROVE  /\ SentCode(r, code) \in Nat
         /\ Message[r].mcast /\ Class(SentCode(r, code)) > 2 => McastError(r, SentCode(r, code))
<1>1. CASE Respond(r, code) = "trim"
  <2>1. SentCode(r, code) = 0
    BY <1>1 DEF SentCode
  <2> QED
    BY <2>1 DEF Class
<1>2. CASE Respond(r, code) # "trim"
  <2>1. SentCode(r, code) = code
    BY <1>2 DEF SentCode
  <2>2. ASSUME Message[r].mcast, Class(code) > 2 PROVE McastError(r, code)
    <3>1. Class(code) > 0 /\ code # 0
      BY <2>2 DEF Class
    <3>2. 0 \in Message[r].nores /\ Class(code) \notin Message[r].nores
      BY <1>2, <2>2, <3>1 DEF Respond
    <3> QED
      BY <3>2 DEF McastError
  <2> QED
    BY <2>1, <2>2
<1> QED
  BY <1>1, <1>2

LEMMA SentFits ==
  ASSUME NEW s \in Srv, NEW r \in Requests, NEW code \in Nat, McastFits(s),
         Message[r].mcast /\ Class(code) > 2 => McastError(r, code)
  PROVE  McastFits(Sent(s, r, code))
<1>1. Sent(s, r, code).mcast = IF Message[r].mcast THEN s.mcast \cup {<<r, code>>} ELSE s.mcast
  BY SentIs
<1> DEFINE m == Sent(s, r, code).mcast
<1>2. CASE Message[r].mcast
  <2>1. ASSUME NEW x \in m, Class(x[2]) > 2 PROVE McastError(x[1], x[2])
    <3>1. x \in s.mcast \/ x = <<r, code>>
      BY <1>1, <1>2
    <3>2. CASE x \in s.mcast
      BY <2>1, <3>2 DEF McastFits
    <3>3. CASE x = <<r, code>>
      <4>1. x[1] = r /\ x[2] = code
        BY <3>3
      <4> QED
        BY <1>2, <2>1, <4>1
    <3> QED
      BY <3>1, <3>2, <3>3
  <2> QED
    BY <2>1 DEF McastFits
<1>3. CASE ~Message[r].mcast
  BY <1>1, <1>3 DEF McastFits
<1> QED
  BY <1>2, <1>3

\* From skip_handler on: one answer, and no subscription with an error.
LEMMA FinishIs ==
  ASSUME NEW s \in Srv, NEW r \in Requests, NEW code \in Nat, NEW drop \in BOOLEAN,
         ObservingFits(s), McastFits(s), GroupNon(r)
  PROVE  LET u == Finish(s, r, code, drop)
         IN /\ Settled(s, u, r, One(r), 0) /\ u.asyncs = s.asyncs
            /\ ObservingFits(u) /\ McastFits(u)
            /\ u.tally[r].told => r \notin u.observing
<1> DEFINE u == Finish(s, r, code, drop)
<1>1. CASE Respond(r, code) = "drop" \/ drop
  <2>1. u = IF Respond(r, code) = "drop" THEN Silent(s, r) ELSE Dropped(s, r)
    BY <1>1 DEF Finish
  <2>2. /\ Settled(s, u, r, One(r), 0) /\ ~u.tally[r].told
        /\ u.asyncs = s.asyncs /\ u.observing = s.observing /\ u.mcast = s.mcast
    <3>1. CASE Respond(r, code) = "drop"
      BY <2>1, <3>1, DropOwesNothing, SilentSettles
    <3>2. CASE Respond(r, code) # "drop"
      BY <2>1, <3>2, DropOwesNothing, DroppedSettles
    <3> QED
      BY <3>1, <3>2
  <2> HIDE DEF u
  <2>3. ObservingFits(u) /\ McastFits(u)
    BY <2>2 DEF ObservingFits, McastFits
  <2> QED
    BY <2>2, <2>3 DEF u
<1>2. CASE ~(Respond(r, code) = "drop" \/ drop)
  <2> DEFINE c == SentCode(r, code)
             t == TakeBack(s, r, c)
  <2>1. u = Sent(t, r, c)
    BY <1>2 DEF Finish
  <2>2. c \in Nat /\ (Message[r].mcast /\ Class(c) > 2 => McastError(r, c))
    BY <1>2, SentCodeFits
  <2>0. Single(r)
    BY DropOwesNothing
  <2> HIDE DEF c, u
  <2>3. /\ t \in Srv /\ t.asyncs = s.asyncs /\ t.mcast = s.mcast /\ t.tally = s.tally
        /\ s.observing \ {r} \subseteq t.observing /\ t.observing \subseteq s.observing
        /\ Observable(r) /\ Class(c) > 2 => r \notin t.observing
    BY <2>2, TakeBackIs
  <2> HIDE DEF t
  <2>4. ObservingFits(t) /\ McastFits(t)
    BY <2>3 DEF ObservingFits, McastFits
  <2>6. /\ Settled(t, u, r, One(r), 0) /\ (u.tally[r].told <=> Class(c) > 2)
        /\ u.asyncs = t.asyncs /\ u.observing = t.observing
    BY <2>0, <2>1, <2>2, <2>3, SentSettles
  <2>7. McastFits(u)
    BY <2>1, <2>2, <2>3, <2>4, SentFits
  <2>8. u.asyncs = s.asyncs /\ u.observing = t.observing /\ ObservingFits(u)
    BY <2>3, <2>4, <2>6 DEF ObservingFits
  <2>9. Settled(s, u, r, One(r), 0)
    <3>1. t.observing \ {r} = s.observing \ {r}
      BY <2>3
    <3> QED
      BY <2>3, <2>6, <3>1 DEF Settled, OthersSame
  <2>10. u.tally[r].told => r \notin u.observing
    <3>1. ~Observable(r) => r \notin t.observing
      BY <2>4 DEF ObservingFits, MayObserve
    <3> QED
      BY <2>3, <2>6, <2>8, <3>1
  <2> QED
    BY <2>7, <2>8, <2>9, <2>10 DEF u
<1> QED
  BY <1>1, <1>2

-----------------------------------------------------------------------------
(* Handling a request.                                                     *)

\* What is stored with an entry, and what is not.
EntryFits(e) ==
  /\ ~Message[e.request].crit
  /\ Message[e.request].mcast =>
       Message[e.request].type = "NON" /\ e.pdu = Message[e.request]
  /\ ~Message[e.request].mcast =>
       FailCode(Message[e.request]) = 0 /\ e.pdu = Decremented(Message[e.request])

\* What handle_request() may be called with: what arrived or what was stored.
PduFits(s, r, pdu) ==
  /\ pdu \in RequestShape /\ ~Message[r].crit
  /\ Message[r].mcast => pdu = Message[r]
  /\ FailCode(pdu) = 0 => FailCode(Message[r]) = 0
  /\ ~Waits(s.asyncs, r) => pdu = Message[r]

\* A new entry for r is in front of the list.
Entered(s, u, r) ==
  \E e \in Entry : e.request = r /\ EntryFits(e) /\ u.asyncs = <<e>> \o s.asyncs

Handled(s, u, r) ==
  /\ ObservingFits(u) /\ McastFits(u)
  /\ \/ Settled(s, u, r, One(r), 0) /\ u.asyncs = s.asyncs
     \/ /\ ~Waits(s.asyncs, r)
        /\ Settled(s, u, r, One(r), 1)
        /\ Entered(s, u, r)

Told(s, r) == s.tally[r].told => r \notin s.observing \/ LastHop(r)

LEMMA ShapeFacts ==
  ASSUME NEW r \in Requests
  PROVE  /\ Message[r] \in RequestShape /\ Message[r].hop \in Int
         /\ Message[r].type \in {"CON", "NON"} /\ Message[r].mcast \in BOOLEAN
BY MessageAssumption DEF Requests, RequestShape

LEMMA FailCodeIs ==
  ASSUME NEW pdu \in RequestShape
  PROVE  /\ FailCode(pdu) \in {0, 400, 505, 508}
         /\ FailCode(pdu) = 505 => ProxyFails(pdu)
         /\ FailCode(pdu) \in {400, 508} => HopChecked(pdu)
<1>1. pdu.hop \in Int
  BY DEF RequestShape
<1>2. HopCode(pdu) \in {0, 400, 508} /\ (HopCode(pdu) # 0 => HopChecked(pdu))
  <2>1. CASE ~HopChecked(pdu)
    BY <2>1 DEF HopCode
  <2>2. CASE HopChecked(pdu)
    BY <1>1, <2>2 DEF HopCode
  <2> QED
    BY <2>1, <2>2
<1>3. CASE ProxyFails(pdu)
  BY <1>3 DEF FailCode
<1>4. CASE ~ProxyFails(pdu)
  BY <1>2, <1>4 DEF FailCode
<1> QED
  BY <1>3, <1>4

LEMMA VerdictIs ==
  ASSUME NEW r \in Requests
  PROVE  Verdict(r) \in {0, 202, 205, 404, 405}
<1>1. CASE Found(r)
  BY <1>1 DEF Verdict
<1>2. CASE ~Found(r)
  <2>1. Fallback(r) \in {0, 202, 205, 404, 405}
    BY DEF Fallback
  <2> QED
    BY <1>2, <2>1 DEF Verdict
<1> QED
  BY <1>1, <1>2

LEMMA DecrementedIs ==
  ASSUME NEW pdu \in RequestShape
  PROVE  /\ Decremented(pdu) \in RequestShape
         /\ Decremented(pdu).proxy = pdu.proxy /\ Decremented(pdu).method = pdu.method
         /\ Decremented(pdu).hop = IF HopChecked(pdu) THEN pdu.hop - 1 ELSE pdu.hop
<1>1. CASE ~HopChecked(pdu)
  BY <1>1 DEF Decremented
<1>2. CASE HopChecked(pdu)
  <2> DEFINE n == pdu.hop - 1
  <2>1. n \in Int
    BY DEF RequestShape
  <2>2. Decremented(pdu) = [pdu EXCEPT !.hop = n]
    BY <1>2 DEF Decremented
  <2>3. n = pdu.hop - 1
    OBVIOUS
  <2> HIDE DEF n
  <2> QED
    BY <1>2, <2>1, <2>2, <2>3 DEF RequestShape
<1> QED
  BY <1>1, <1>2

LEMMA Answer ==
  ASSUME NEW s \in Srv, NEW r \in Requests, NEW code \in Nat, ObservingFits(s), McastFits(s),
         Single(r),
         Message[r].mcast /\ Class(code) > 2 => McastError(r, code),
         Class(code) > 2 => r \notin s.observing
  PROVE  Handled(s, Sent(s, r, code), r) /\ Told(Sent(s, r, code), r)
<1> DEFINE u == Sent(s, r, code)
<1>1. /\ Settled(s, u, r, One(r), 0) /\ (u.tally[r].told <=> Class(code) > 2)
      /\ u.asyncs = s.asyncs /\ u.observing = s.observing
  BY SentSettles
<1>2. McastFits(u)
  BY SentFits
<1> HIDE DEF u
<1>3. ObservingFits(u)
  BY <1>1 DEF ObservingFits
<1> QED
  BY <1>1, <1>2, <1>3 DEF Handled, Told, u

LEMMA NoAnswer ==
  ASSUME NEW s \in Srv, NEW r \in Requests, ObservingFits(s), McastFits(s), ~Owes(r)
  PROVE  Handled(s, Silent(s, r), r) /\ Told(Silent(s, r), r)
<1> DEFINE u == Silent(s, r)
<1>1. /\ Settled(s, u, r, One(r), 0) /\ ~u.tally[r].told
      /\ u.asyncs = s.asyncs /\ u.observing = s.observing /\ u.mcast = s.mcast
  BY SilentSettles
<1> HIDE DEF u
<1>2. ObservingFits(u) /\ McastFits(u)
  BY <1>1 DEF ObservingFits, McastFits
<1> QED
  BY <1>1, <1>2 DEF Handled, Told, u

LEMMA LibraryReplyIs ==
  ASSUME NEW s \in Srv, NEW r \in Requests, NEW code \in Nat, ObservingFits(s), McastFits(s),
         r \notin s.observing, GroupNon(r)
  PROVE  Handled(s, LibraryReply(s, r, code), r) /\ Told(LibraryReply(s, r, code), r)
<1>0. Single(r) /\ (Respond(r, code) = "drop" => ~Owes(r))
  BY DropOwesNothing
<1>1. CASE Respond(r, code) = "drop"
  BY <1>0, <1>1, NoAnswer DEF LibraryReply
<1>2. CASE Respond(r, code) # "drop"
  <2> DEFINE c == SentCode(r, code)
  <2>1. c \in Nat /\ (Message[r].mcast /\ Class(c) > 2 => McastError(r, c))
    BY <1>2, SentCodeFits
  <2>2. LibraryReply(s, r, code) = Sent(s, r, c)
    BY <1>2 DEF LibraryReply
  <2> HIDE DEF c
  <2> QED
    BY <1>0, <2>1, <2>2, Answer
<1> QED
  BY <1>1, <1>2

\* A registered request, in front of the list.
LEMMA RegisterSettles ==
  ASSUME NEW s \in Srv, NEW r \in Requests, NEW pdu \in RequestShape, NEW d \in Nat,
         clock \in Nat,
         ~Message[r].crit, Message[r].mcast => Message[r].type = "NON" /\ pdu = Message[r],
         ~Message[r].mcast => FailCode(Message[r]) = 0 /\ pdu = Decremented(Message[r])
  PROVE  LET u == Register(s, r, pdu, d)
         IN /\ Settled(s, u, r, 0, 1) /\ u.tally[r].told = s.tally[r].told
            /\ u.observing = s.observing /\ u.mcast = s.mcast
            /\ Entered(s, u, r)
<1> DEFINE u == Register(s, r, pdu, d)
           e == [request |-> r, pdu |-> pdu, due |-> Due(d)]
           t == s.tally[r]
<1>1. /\ u \in Srv /\ e \in Entry /\ u.asyncs = <<e>> \o s.asyncs
      /\ u.observing = s.observing /\ u.mcast = s.mcast /\ OthersSame(s, u, r)
      /\ TallyIs(u.tally[r], t.delivered, t.acked, t.dropped, t.early, t.registered + 1,
                 t.served, t.freed, t.zeroed, t.refused, t.told)
  BY RegisterIs
<1>2. t.acked \in Nat /\ t.dropped \in Nat
  BY SrvTypes, TallyTypes
<1>3. e.request = r /\ e.pdu = pdu
  OBVIOUS
<1> HIDE DEF u, e
<1>4. EntryFits(e)
  BY <1>3 DEF EntryFits
<1>5. Ended(u.tally[r]) = Ended(s.tally[r])
  BY <1>1 DEF TallyIs, Ended
<1>6. Settled(s, u, r, 0, 1) /\ u.tally[r].told = s.tally[r].told
  BY <1>1, <1>2, <1>5 DEF Settled, TallyIs
<1>7. Entered(s, u, r)
  BY <1>1, <1>3, <1>4 DEF Entered
<1> QED
  BY <1>1, <1>6, <1>7 DEF u

\* The handler of a resource, or a jump over it.
LEMMA FinishHandles ==
  ASSUME NEW s \in Srv, NEW r \in Requests, NEW code \in Nat, NEW drop \in BOOLEAN,
         ObservingFits(s), McastFits(s), GroupNon(r)
  PROVE  Handled(s, Finish(s, r, code, drop), r) /\ Told(Finish(s, r, code, drop), r)
BY FinishIs DEF Handled, Told

LEMMA SubscribedFits ==
  ASSUME NEW s \in Srv, NEW r \in Requests, ObservingFits(s), McastFits(s),
         ~Message[r].crit, FailCode(Message[r]) = 0, Verdict(r) = 0
  PROVE  LET t == Subscribed(s, r)
         IN /\ t \in Srv /\ ObservingFits(t) /\ McastFits(t)
            /\ t.asyncs = s.asyncs /\ t.tally = s.tally
            /\ t.observing \ {r} = s.observing \ {r}
<1> DEFINE t == Subscribed(s, r)
<1>1. /\ t \in Srv /\ t.asyncs = s.asyncs /\ t.mcast = s.mcast /\ t.tally = s.tally
      /\ s.observing \ {r} \subseteq t.observing
      /\ t.observing \subseteq s.observing \cup {r}
      /\ ~Observable(r) => t.observing = s.observing
  BY SubscribedIs
<1> HIDE DEF t
<1>2. ASSUME NEW q \in t.observing PROVE MayObserve(q)
  <2>1. CASE q \in s.observing
    BY <2>1 DEF ObservingFits
  <2>2. CASE q \notin s.observing
    <3>1. q = r /\ Observable(r)
      BY <1>1, <1>2, <2>2
    <3> QED
      BY <3>1 DEF MayObserve
  <2> QED
    BY <2>1, <2>2
<1>3. t.observing \ {r} = s.observing \ {r}
  BY <1>1
<1> QED
  BY <1>1, <1>2, <1>3 DEF ObservingFits, McastFits, t

\* What holds of the state that is passed on holds of the one before.
LEMMA HandledBefore ==
  ASSUME NEW s \in Srv, NEW t \in Srv, NEW u, NEW r \in Requests, Handled(t, u, r),
         t.asyncs = s.asyncs, OthersSame(s, t, r), t.observing \ {r} = s.observing \ {r},
         t.tally[r].delivered = s.tally[r].delivered, t.tally[r].early = s.tally[r].early,
         Ended(t.tally[r]) = Ended(s.tally[r]), t.tally[r].refused = s.tally[r].refused,
         t.tally[r].freed = s.tally[r].freed,
         t.tally[r].acked = s.tally[r].acked, t.tally[r].dropped = s.tally[r].dropped,
         t.tally[r].registered = s.tally[r].registered
  PROVE  Handled(s, u, r)
<1>1. ASSUME NEW a, NEW g, Settled(t, u, r, a, g) PROVE Settled(s, u, r, a, g)
  BY <1>1 DEF Settled, OthersSame
<1>2. Entered(t, u, r) => Entered(s, u, r)
  BY DEF Entered
<1> QED
  BY <1>1, <1>2, Zenon DEF Handled

LEMMA RegisteredAnswer ==
  ASSUME NEW s \in Srv, NEW r \in Requests, ObservingFits(s), McastFits(s), clock \in Nat,
         ~Message[r].crit, ~Message[r].mcast, FailCode(Message[r]) = 0,
         ~Waits(s.asyncs, r), NEW d \in Delays
  PROVE  LET u == Finish(Register(s, r, Decremented(Message[r]), d), r, 0, FALSE)
         IN Handled(s, u, r) /\ Told(u, r)
<1> DEFINE pdu == Decremented(Message[r])
           t == Register(s, r, pdu, d)
           c == 0
           b == FALSE
           u == Finish(t, r, c, b)
<1>0. GroupNon(r)
  BY DEF GroupNon
<1>1. d \in Nat
  BY DelaysAssumption
<1>2. pdu \in RequestShape
  BY ShapeFacts, DecrementedIs
<1>3. pdu = Decremented(Message[r]) /\ c \in Nat /\ b \in BOOLEAN
  OBVIOUS
<1> HIDE DEF pdu, c, b
<1>4. /\ Settled(s, t, r, 0, 1) /\ t.observing = s.observing /\ t.mcast = s.mcast
      /\ Entered(s, t, r)
  <2>1. Message[r].mcast => Message[r].type = "NON" /\ pdu = Message[r]
    OBVIOUS
  <2>2. ~Message[r].mcast => FailCode(Message[r]) = 0 /\ pdu = Decremented(Message[r])
    BY <1>3
  <2>3. t = Register(s, r, pdu, d)
    OBVIOUS
  <2> HIDE DEF t, u
  <2> QED
    BY <1>1, <1>2, <2>1, <2>2, <2>3, RegisterSettles
<1> HIDE DEF t
<1>5. t \in Srv /\ ObservingFits(t) /\ McastFits(t)
  BY <1>4 DEF Settled, ObservingFits, McastFits
<1>6. /\ Settled(t, u, r, One(r), 0) /\ u.asyncs = t.asyncs
      /\ ObservingFits(u) /\ McastFits(u)
      /\ u.tally[r].told => r \notin u.observing
  BY <1>0, <1>3, <1>5, FinishIs
<1> HIDE DEF u
<1>7. Settled(s, u, r, One(r), 1)
  <2>1. s.tally[r] \in Tally /\ t.tally[r] \in Tally
    BY <1>5, SrvTypes
  <2>2. /\ s.tally[r].acked \in Nat /\ s.tally[r].dropped \in Nat
        /\ t.tally[r].acked \in Nat /\ t.tally[r].dropped \in Nat
        /\ s.tally[r].registered \in Nat /\ t.tally[r].registered \in Nat
    BY <2>1, TallyTypes
  <2>3. /\ t.tally[r].acked + t.tally[r].dropped = s.tally[r].acked + s.tally[r].dropped
        /\ t.tally[r].registered = s.tally[r].registered + 1
    BY <1>4, <2>2 DEF Settled
  <2>4. One(r) \in Nat
    BY OneIsNat
  <2>5. /\ u.tally[r].acked + u.tally[r].dropped
             = s.tally[r].acked + s.tally[r].dropped + One(r)
        /\ u.tally[r].registered = s.tally[r].registered + 1
    BY <1>6, <2>2, <2>3, <2>4 DEF Settled
  <2>6. OthersSame(s, u, r) /\ u.observing \ {r} = s.observing \ {r}
    BY <1>4, <1>6 DEF Settled, OthersSame
  <2> QED
    BY <1>4, <1>6, <2>5, <2>6 DEF Settled
<1>8. Entered(s, u, r)
  BY <1>4, <1>6 DEF Entered
<1> QED
  BY <1>6, <1>7, <1>8 DEF Handled, Told, u, t, pdu, c, b

LEMMA CallHandlerIs ==
  ASSUME NEW s \in Srv, NEW r \in Requests, NEW pdu \in RequestShape, clock \in Nat,
         ObservingFits(s), McastFits(s), PduFits(s, r, pdu), FailCode(pdu) = 0, Verdict(r) = 0,
         Message[r].mcast => Waits(s.asyncs, r), GroupNon(r),
         NEW u \in Skip(s, r) \cup CallHandler(s, r, Decremented(pdu))
  PROVE  Handled(s, u, r) /\ Told(u, r)
<1> DEFINE t == Subscribed(s, r)
<1>1. ~Message[r].crit /\ FailCode(Message[r]) = 0
  BY DEF PduFits
<1>2. /\ t \in Srv /\ ObservingFits(t) /\ McastFits(t) /\ t.asyncs = s.asyncs
      /\ t.tally = s.tally /\ t.observing \ {r} = s.observing \ {r}
  BY <1>1, SubscribedFits
<1>3. ASSUME NEW v, Handled(t, v, r) PROVE Handled(s, v, r)
  <2> HIDE DEF t
  <2>1. OthersSame(s, t, r)
    BY <1>2 DEF OthersSame
  <2> QED
    BY <1>2, <1>3, <2>1, HandledBefore
<1>4. ASSUME NEW garbage \in BOOLEAN, u = Finish(s, r, 400, garbage)
      PROVE  Handled(s, u, r) /\ Told(u, r)
  <2> DEFINE c == 400
  <2>1. c \in Nat /\ u = Finish(s, r, c, garbage)
    BY <1>4
  <2> HIDE DEF c
  <2> QED
    BY <2>1, FinishHandles
<1>5. ASSUME NEW c \in Nat, NEW drop \in BOOLEAN, u = Finish(t, r, c, drop)
      PROVE  Handled(s, u, r) /\ Told(u, r)
  <2> HIDE DEF t
  <2>1. Handled(t, u, r) /\ Told(u, r)
    BY <1>2, <1>5, FinishHandles
  <2> QED
    BY <1>3, <2>1
<1>6. ASSUME NEW d \in Delays, Entries(s, r) = {},
             u = Finish(Register(t, r, Decremented(pdu), d), r, 0, FALSE)
      PROVE  Handled(s, u, r) /\ Told(u, r)
  <2>1. ~Waits(s.asyncs, r)
    BY <1>6 DEF Waits, Entries
  <2>2. pdu = Message[r] /\ ~Message[r].mcast
    BY <2>1 DEF PduFits
  <2>3. ~Waits(t.asyncs, r)
    BY <1>2, <2>1
  <2> HIDE DEF t
  <2>4. u = Finish(Register(t, r, Decremented(Message[r]), d), r, 0, FALSE)
    BY <1>6, <2>2
  <2>5. Handled(t, u, r) /\ Told(u, r)
    BY <1>1, <1>2, <2>2, <2>3, <2>4, RegisteredAnswer
  <2> QED
    BY <1>3, <2>5
<1>7. CASE u \in Skip(s, r)
  <2>1. \/ \E garbage \in BOOLEAN : u = Finish(s, r, 400, garbage)
        \/ \E garbage \in BOOLEAN : u = Finish(t, r, 231, garbage)
    <3> DEFINE A == {Finish(s, r, 400, garbage) :
                       garbage \in IF LaterBlock(r) THEN BOOLEAN ELSE {}}
               B == {Finish(t, r, 231, garbage) :
                       garbage \in IF Message[r].block = "block1" /\ ~LaterBlock(r)
                                   THEN BOOLEAN ELSE {}}
    <3>1. Skip(s, r) = A \cup B
      BY DEF Skip
    <3>4. u \in A \/ u \in B
      <4> HIDE DEF A, B
      <4> QED
        BY <1>7, <3>1
    <3>2. u \in A => \E garbage \in BOOLEAN : u = Finish(s, r, 400, garbage)
      BY Zenon
    <3>3. u \in B => \E garbage \in BOOLEAN : u = Finish(t, r, 231, garbage)
      BY Zenon
    <3> HIDE DEF A, B
    <3> QED
      BY <3>2, <3>3, <3>4
  <2>2. 231 \in Nat
    OBVIOUS
  <2> HIDE DEF t
  <2> QED
    BY <1>4, <1>5, <2>1, <2>2
<1>8. CASE u \in CallHandler(s, r, Decremented(pdu))
  <2>1. \/ \E c \in HandlerCodes, drop \in BOOLEAN : u = Finish(t, r, c, drop)
        \/ /\ Entries(s, r) = {}
           /\ \E d \in Delays : u = Finish(Register(t, r, Decremented(pdu), d), r, 0, FALSE)
    <3> DEFINE A == {Finish(t, r, code, drop) : code \in HandlerCodes, drop \in BOOLEAN}
               B == {Finish(Register(t, r, Decremented(pdu), d), r, 0, FALSE) :
                       d \in IF Entries(s, r) = {} THEN Delays ELSE {}}
    <3>1. CallHandler(s, r, Decremented(pdu)) = IF LaterBlock(r) THEN {} ELSE A \cup B
      BY DEF CallHandler
    <3>2. u \in A \/ u \in B
      <4> HIDE DEF A, B
      <4> QED
        BY <1>8, <3>1
    <3>3. u \in A => \E c \in HandlerCodes, drop \in BOOLEAN : u = Finish(t, r, c, drop)
      OBVIOUS
    <3>4. u \in B =>
            /\ Entries(s, r) = {}
            /\ \E d \in Delays : u = Finish(Register(t, r, Decremented(pdu), d), r, 0, FALSE)
      BY Zenon
    <3> HIDE DEF A, B
    <3> QED
      BY <3>2, <3>3, <3>4
  <2>2. HandlerCodes \subseteq Nat
    BY DelaysAssumption
  <2> HIDE DEF t
  <2> QED
    BY <1>5, <1>6, <2>1, <2>2, Zenon
<1> QED
  BY <1>7, <1>8

\* A request that waits no longer is passed to its resource.
LEMMA ServeIs ==
  ASSUME NEW s \in Srv, NEW r \in Requests, NEW pdu \in RequestShape, clock \in Nat,
         ObservingFits(s), McastFits(s), PduFits(s, r, pdu), FailCode(pdu) = 0, ~Pending(s, r),
         Message[r].mcast => Waits(s.asyncs, r), GroupNon(r),
         NEW u \in Serve(s, r, pdu)
  PROVE  Handled(s, u, r) /\ Told(u, r)
<1> DEFINE t == [s EXCEPT !.tally[r].early = @ + (IF Pending(s, r) THEN 1 ELSE 0)]
           v == [s EXCEPT !.tally[r].early = @ + (IF FALSE THEN 1 ELSE 0)]
           w == s.tally[r]
<1>1. t = v
  BY Zenon
<1>2. /\ Tallied(s, v, r, v.tally[r])
      /\ TallyIs(v.tally[r], w.delivered, w.acked, w.dropped, w.early, w.registered,
                 w.served, w.freed, w.zeroed, w.refused, w.told)
  BY NotEarlyIs
<1>3. u \in IF Verdict(r) # 0 THEN {LibraryReply(t, r, Verdict(r))}
            ELSE Skip(t, r) \cup CallHandler(t, r, Decremented(pdu))
  BY Zenon DEF Serve
<1> HIDE DEF t, v
<1>4. /\ v \in Srv /\ v.asyncs = s.asyncs /\ v.observing = s.observing /\ v.mcast = s.mcast
      /\ OthersSame(s, v, r)
  BY <1>2 DEF Tallied, OthersSame
<1>5. ObservingFits(v) /\ McastFits(v) /\ PduFits(v, r, pdu)
  BY <1>4 DEF ObservingFits, McastFits, PduFits
<1>6. Handled(v, u, r) /\ Told(u, r)
  <2>1. CASE Verdict(r) # 0
    <3>1. u = LibraryReply(v, r, Verdict(r))
      BY <1>1, <1>3, <2>1
    <3>2. Verdict(r) \in Nat
      BY VerdictIs
    <3>3. r \notin v.observing
      BY <1>5, <2>1 DEF ObservingFits, MayObserve
    <3> QED
      BY <1>4, <1>5, <3>1, <3>2, <3>3, LibraryReplyIs
  <2>2. CASE Verdict(r) = 0
    <3>1. u \in Skip(v, r) \cup CallHandler(v, r, Decremented(pdu))
      BY <1>1, <1>3, <2>2
    <3>2. Message[r].mcast => Waits(v.asyncs, r)
      BY <1>4
    <3> QED
      BY <1>4, <1>5, <2>2, <3>1, <3>2, CallHandlerIs
  <2> QED
    BY <2>1, <2>2
<1>7. /\ v.tally[r].delivered = w.delivered /\ v.tally[r].early = w.early
      /\ Ended(v.tally[r]) = Ended(w) /\ v.tally[r].refused = w.refused
      /\ v.tally[r].freed = w.freed /\ v.tally[r].acked = w.acked /\ v.tally[r].dropped = w.dropped
      /\ v.tally[r].registered = w.registered
  BY <1>2 DEF TallyIs, Ended
<1>8. Handled(s, u, r)
  BY <1>4, <1>6, <1>7, HandledBefore
<1> QED
  BY <1>6, <1>8

\* handle_request(), called for what arrived or for what is stored.
LEMMA HandleRequestIs ==
  ASSUME NEW s \in Srv, NEW r \in Requests, NEW pdu \in RequestShape, clock \in Nat,
         ObservingFits(s), McastFits(s), PduFits(s, r, pdu),
         NEW u \in HandleRequest(s, r, pdu)
  PROVE  /\ Handled(s, u, r)
         /\ Told(s, r) /\ (FailCode(pdu) # 0 => FailCode(Message[r]) # 0 \/ LastHop(r))
              => Told(u, r)
<1>0. Message[r].type \in {"CON", "NON"} /\ Message[r].mcast \in BOOLEAN /\ ~Message[r].crit
  BY ShapeFacts DEF PduFits
<1>1. CASE Message[r].mcast /\ Message[r].type # "NON"
  <2>1. u = Silent(s, r) /\ ~Owes(r)
    BY <1>0, <1>1 DEF HandleRequest, Owes
  <2> QED
    BY <2>1, NoAnswer
<1>2. CASE ~(Message[r].mcast /\ Message[r].type # "NON") /\ HeldBack(s, r)
  <2>1. u = SendAck(s, r) /\ Single(r)
    BY <1>0, <1>2 DEF HandleRequest, Single, Owes
  <2>2. /\ Settled(s, u, r, One(r), 0) /\ u.tally[r].told = s.tally[r].told
        /\ u.asyncs = s.asyncs /\ u.observing = s.observing /\ u.mcast = s.mcast
    BY <2>1, SendAckSettles
  <2>3. ObservingFits(u) /\ McastFits(u)
    BY <2>2 DEF ObservingFits, McastFits
  <2> QED
    BY <2>2, <2>3 DEF Handled, Told
<1>3. CASE /\ ~(Message[r].mcast /\ Message[r].type # "NON") /\ ~HeldBack(s, r)
           /\ Message[r].mcast /\ Entries(s, r) = {}
  <2>1. PICK d \in LeisureDelays : u = Register(s, r, pdu, d)
    BY <1>3 DEF HandleRequest
  <2>2. d \in Nat
    BY DelaysAssumption
  <2>3. ~Waits(s.asyncs, r)
    BY <1>3 DEF Waits, Entries
  <2>4. Message[r].type = "NON" /\ pdu = Message[r] /\ ~Message[r].crit
    BY <1>3 DEF PduFits
  <2>5. /\ Settled(s, u, r, 0, 1) /\ u.tally[r].told = s.tally[r].told
        /\ u.observing = s.observing /\ u.mcast = s.mcast /\ Entered(s, u, r)
    BY <1>3, <2>1, <2>2, <2>4, RegisterSettles
  <2>6. One(r) = 0
    BY <2>4 DEF One, Owes
  <2>7. ObservingFits(u) /\ McastFits(u)
    BY <2>5 DEF ObservingFits, McastFits
  <2> QED
    BY <2>3, <2>5, <2>6, <2>7 DEF Handled, Told
<1>4. CASE /\ ~(Message[r].mcast /\ Message[r].type # "NON") /\ ~HeldBack(s, r)
           /\ ~(Message[r].mcast /\ Entries(s, r) = {})
  <2>0. GroupNon(r) /\ Single(r)
    BY <1>0, <1>4 DEF GroupNon, Single, Owes
  <2>1. CASE FailCode(pdu) # 0
    <3> DEFINE c == FailCode(pdu)
    <3>1. u = Sent(s, r, c)
      BY <1>4, <2>1 DEF HandleRequest, FailReply
    <3>2. c \in Nat /\ (Message[r].mcast => McastError(r, c))
      <4>1. Message[r].mcast => pdu = Message[r]
        BY DEF PduFits
      <4> QED
        BY <2>1, <4>1, FailCodeIs DEF McastError
    <3> HIDE DEF c
    <3>3. /\ Settled(s, u, r, One(r), 0) /\ u.asyncs = s.asyncs /\ u.observing = s.observing
      BY <2>0, <3>1, <3>2, SentSettles
    <3>4. McastFits(u)
      BY <3>1, <3>2, SentFits
    <3>5. ObservingFits(u)
      BY <3>3 DEF ObservingFits
    <3>6. Handled(s, u, r)
      BY <3>3, <3>4, <3>5 DEF Handled
    <3>7. FailCode(Message[r]) # 0 => r \notin u.observing
      BY <3>5 DEF ObservingFits, MayObserve
    <3> QED
      BY <2>1, <3>6, <3>7 DEF Told
  <2>2. CASE FailCode(pdu) = 0
    <3>1. u \in Serve(s, r, pdu)
      BY <1>4, <2>2 DEF HandleRequest
    <3>2. ~Pending(s, r)
      BY <1>4 DEF HeldBack
    <3>3. Message[r].mcast => Waits(s.asyncs, r)
      BY <1>4 DEF Waits, Entries
    <3> QED
      BY <2>0, <2>2, <3>1, <3>2, <3>3, ServeIs
  <2> QED
    BY <2>1, <2>2
<1> QED
  BY <1>1, <1>2, <1>3, <1>4

-----------------------------------------------------------------------------
(* The books.                                                              *)

\* The requests whose entries may end with an error.
MayRefuse(r) == LastHop(r) \/ (Message[r].mcast /\ FailCode(Message[r]) # 0)

Structure(s) ==
  /\ s \in Srv /\ Distinct(s.asyncs)
  /\ \A x : In(s.asyncs, x) => EntryFits(x)
  /\ ObservingFits(s) /\ McastFits(s)

Waiting(q, r) == IF Waits(q, r) THEN 1 ELSE 0

\* The counts of r when w entries wait, k answers are owed and j entries are
\* passed on and still in the list.
Accounted(t, r, w, k, j) ==
  /\ Owes(r) => t.acked + t.dropped + k = t.delivered + t.registered - t.freed - w
  /\ ~Owes(r) => t.acked + t.dropped = 0
  /\ t.registered + j = Ended(t) + t.freed + w
  /\ t.early = 0 /\ (t.refused > 0 => MayRefuse(r))

Settling(s, r, k, j) ==
  /\ Accounted(s.tally[r], r, Waiting(s.asyncs, r), k, j)
  /\ \A q \in Requests \ {r} : Accounted(s.tally[q], q, Waiting(s.asyncs, q), 0, 0)

AllTold(s) == \A r \in Requests : Told(s, r)

Books(s) == /\ Structure(s) /\ AllTold(s)
            /\ \A r \in Requests : Accounted(s.tally[r], r, Waiting(s.asyncs, r), 0, 0)

LEMMA BooksSettling ==
  ASSUME NEW s, NEW r \in Requests
  PROVE  Books(s) <=> Structure(s) /\ AllTold(s) /\ Settling(s, r, 0, 0)
BY DEF Books, Settling

LEMMA WaitingIs ==
  ASSUME NEW q, NEW r
  PROVE  Waiting(q, r) \in {0, 1}
BY DEF Waiting

\* An entry that is there.
LEMMA InWaits ==
  ASSUME NEW q, NEW x
  PROVE  In(q, x) => Waits(q, x.request)
BY DEF In, Waits

\* The step from owing k answers to owing one less.
LEMMA AccountedStep ==
  ASSUME NEW t \in Tally, NEW v \in Tally, NEW r \in Requests, NEW w \in Nat, NEW g \in Nat,
         NEW k \in Int, NEW j \in Int, Accounted(t, r, w, k, j),
         v.delivered = t.delivered, v.early = t.early, Ended(v) = Ended(t), v.freed = t.freed,
         v.refused = t.refused,
         v.acked + v.dropped = t.acked + t.dropped + One(r), v.registered = t.registered + g
  PROVE  Accounted(v, r, w + g, k - 1, j)
<1>1. /\ t.acked \in Nat /\ t.dropped \in Nat /\ t.delivered \in Nat /\ t.registered \in Nat
      /\ t.freed \in Nat /\ Ended(t) \in Nat
      /\ v.acked \in Nat /\ v.dropped \in Nat /\ v.registered \in Nat
      /\ v.freed \in Nat /\ Ended(v) \in Nat
  BY TallyTypes
<1>2. (Owes(r) => One(r) = 1) /\ (~Owes(r) => One(r) = 0)
  BY OneIsNat
<1>3. /\ Owes(r) => v.acked + v.dropped + (k - 1) = v.delivered + v.registered - v.freed - (w + g)
      /\ ~Owes(r) => v.acked + v.dropped = 0
  BY <1>1, <1>2 DEF Accounted
<1>4. v.registered + j = Ended(v) + v.freed + (w + g)
  <2> DEFINE a == t.registered
             b == Ended(t)
             c == t.freed
  <2>1. a + j = b + c + w /\ a \in Nat /\ b \in Nat /\ c \in Nat
    BY <1>1 DEF Accounted
  <2>2. v.registered = a + g /\ Ended(v) = b /\ v.freed = c
    OBVIOUS
  <2> HIDE DEF a, b, c
  <2>3. a + g + j = b + c + (w + g)
    BY <2>1
  <2> QED
    BY <2>2, <2>3, Zenon
<1> QED
  BY <1>3, <1>4 DEF Accounted

LEMMA HandledKeeps ==
  ASSUME NEW s, NEW u, NEW r \in Requests, NEW k \in Int, NEW j \in Int,
         Structure(s), Settling(s, r, k, j), Handled(s, u, r)
  PROVE  /\ Structure(u) /\ Settling(u, r, k - 1, j)
         /\ Waits(s.asyncs, r) => u.asyncs = s.asyncs
         /\ \A q \in Requests \ {r} : Told(s, q) => Told(u, q)
<1>1. s \in Srv /\ s.asyncs \in Seq(Entry) /\ s.tally[r] \in Tally /\ Distinct(s.asyncs)
  BY SrvTypes DEF Structure
<1>2. PICK g \in {0, 1} : Settled(s, u, r, One(r), g)
  BY DEF Handled
<1>3. u \in Srv /\ OthersSame(s, u, r) /\ u.observing \ {r} = s.observing \ {r}
  BY <1>2 DEF Settled
<1>4. u.tally[r] \in Tally
  BY <1>3, SrvTypes
<1>5. \A q \in Requests \ {r} : Told(s, q) => Told(u, q)
  BY <1>3 DEF Told, OthersSame
<1>6. CASE Settled(s, u, r, One(r), 0) /\ u.asyncs = s.asyncs
  <2>1. Structure(u)
    BY <1>3, <1>6 DEF Structure, Handled
  <2> DEFINE w == Waiting(s.asyncs, r)
             z == 0
  <2>2. w \in Nat /\ w + z = w /\ z \in Nat
    BY WaitingIs
  <2>3. Accounted(s.tally[r], r, w, k, j)
    BY DEF Settling
  <2>4. /\ u.tally[r].delivered = s.tally[r].delivered /\ u.tally[r].early = s.tally[r].early
        /\ Ended(u.tally[r]) = Ended(s.tally[r]) /\ u.tally[r].freed = s.tally[r].freed
        /\ u.tally[r].refused = s.tally[r].refused
        /\ u.tally[r].acked + u.tally[r].dropped = s.tally[r].acked + s.tally[r].dropped + One(r)
        /\ u.tally[r].registered = s.tally[r].registered + z
    BY <1>6 DEF Settled
  <2>5. w = Waiting(s.asyncs, r)
    OBVIOUS
  <2> HIDE DEF w, z
  <2>6. Accounted(u.tally[r], r, w + z, k - 1, j)
    BY <1>1, <1>4, <2>2, <2>3, <2>4, AccountedStep
  <2>7. Settling(u, r, k - 1, j)
    BY <1>3, <1>6, <2>2, <2>5, <2>6 DEF Settling, OthersSame
  <2> QED
    BY <1>5, <1>6, <2>1, <2>7
<1>7. CASE ~Waits(s.asyncs, r) /\ Settled(s, u, r, One(r), 1) /\ Entered(s, u, r)
  <2>1. PICK e \in Entry : e.request = r /\ EntryFits(e) /\ u.asyncs = <<e>> \o s.asyncs
    BY <1>7 DEF Entered
  <2>2. /\ Distinct(u.asyncs) /\ \A x : In(u.asyncs, x) <=> In(s.asyncs, x) \/ x = e
        /\ \A q : Waits(u.asyncs, q) <=> Waits(s.asyncs, q) \/ q = e.request
    BY <1>1, <1>7, <2>1, Prepended
  <2>3. Structure(u)
    BY <1>3, <2>1, <2>2 DEF Structure, Handled
  <2> DEFINE w == Waiting(s.asyncs, r)
             g1 == 1
  <2>4. w = 0 /\ Waiting(u.asyncs, r) = 1 /\ w + g1 = Waiting(u.asyncs, r) /\ g1 \in Nat
    BY <1>7, <2>1, <2>2 DEF Waiting
  <2>5. \A q \in Requests \ {r} : Waiting(u.asyncs, q) = Waiting(s.asyncs, q)
    BY <2>1, <2>2 DEF Waiting
  <2>6. Accounted(s.tally[r], r, w, k, j)
    BY DEF Settling
  <2>7. /\ u.tally[r].delivered = s.tally[r].delivered /\ u.tally[r].early = s.tally[r].early
        /\ Ended(u.tally[r]) = Ended(s.tally[r]) /\ u.tally[r].freed = s.tally[r].freed
        /\ u.tally[r].refused = s.tally[r].refused
        /\ u.tally[r].acked + u.tally[r].dropped = s.tally[r].acked + s.tally[r].dropped + One(r)
        /\ u.tally[r].registered = s.tally[r].registered + g1
    BY <1>7 DEF Settled
  <2> HIDE DEF w, g1
  <2>8. Accounted(u.tally[r], r, w + g1, k - 1, j)
    BY <1>1, <1>4, <2>4, <2>6, <2>7, AccountedStep
  <2>9. Settling(u, r, k - 1, j)
    BY <1>3, <2>4, <2>5, <2>8 DEF Settling, OthersSame
  <2> QED
    BY <1>5, <1>7, <2>3, <2>9
<1> QED
  BY <1>6, <1>7 DEF Handled

\* The entry of r leaves the list.
LEMMA AccountedLess ==
  ASSUME NEW t \in Tally, NEW r, NEW k \in Int, NEW j \in Int, Accounted(t, r, 1, k, j)
  PROVE  Accounted(t, r, 0, k + 1, j - 1)
<1> DEFINE a == t.acked
           n == t.dropped
           d == t.delivered
           g == t.registered
           f == t.freed
           v == Ended(t)
<1>1. a \in Nat /\ n \in Nat /\ d \in Nat /\ g \in Nat /\ f \in Nat /\ v \in Nat
  BY TallyTypes
<1>2. /\ Owes(r) => a + n + k = d + g - f - 1
      /\ g + j = v + f + 1
  BY DEF Accounted
<1> HIDE DEF a, n, d, g, f, v
<1>3. a + n + k = d + g - f - 1 => a + n + (k + 1) = d + g - f - 0
  BY <1>1
<1>4. g + (j - 1) = v + f + 0
  BY <1>1, <1>2
<1>5. Owes(r) => a + n + (k + 1) = d + g - f - 0
  BY <1>2, <1>3
<1> QED
  BY <1>4, <1>5 DEF Accounted, a, n, d, g, f, v

LEMMA FreeKeeps ==
  ASSUME NEW s, NEW e, NEW k \in Int, NEW j \in Int, e.request \in Requests,
         Structure(s), Settling(s, e.request, k, j), Waits(s.asyncs, e.request)
  PROVE  LET u == Free(s, e)
         IN /\ Structure(u) /\ Settling(u, e.request, k + 1, j - 1)
            /\ \A x : In(u.asyncs, x) <=> In(s.asyncs, x) /\ x.request # e.request
            /\ u.observing = s.observing /\ u.tally = s.tally
<1> DEFINE u == Free(s, e)
           r == e.request
<1>1. s \in Srv /\ s.asyncs \in Seq(Entry) /\ Distinct(s.asyncs)
  BY SrvTypes DEF Structure
<1>2. /\ u \in Srv /\ u.observing = s.observing /\ u.mcast = s.mcast /\ u.tally = s.tally
      /\ \E i \in 1..Len(s.asyncs) : s.asyncs[i].request = r /\ u.asyncs = RemoveAt(s.asyncs, i)
  BY <1>1, FreeIs
<1> HIDE DEF u, r
<1>3. PICK i \in 1..Len(s.asyncs) : s.asyncs[i].request = r /\ u.asyncs = RemoveAt(s.asyncs, i)
  BY <1>2
<1>4. /\ Distinct(u.asyncs) /\ \A x : In(u.asyncs, x) <=> In(s.asyncs, x) /\ x # s.asyncs[i]
      /\ \A q : Waits(u.asyncs, q) <=> Waits(s.asyncs, q) /\ q # r
  BY <1>1, <1>3, Removed
<1>5. Structure(u)
  BY <1>2, <1>4 DEF Structure, ObservingFits, McastFits
<1>6. \A x : In(u.asyncs, x) <=> In(s.asyncs, x) /\ x.request # r
  <2>1. \A x : In(s.asyncs, x) => (x = s.asyncs[i] <=> x.request = r)
    BY <1>1, <1>3 DEF In, Distinct
  <2> QED
    BY <1>4, <2>1
<1>7. Waiting(s.asyncs, r) = 1 /\ Waiting(u.asyncs, r) = 0
  BY <1>4 DEF Waiting, r
<1>8. \A q \in Requests \ {r} : Waiting(u.asyncs, q) = Waiting(s.asyncs, q)
  BY <1>4 DEF Waiting
<1>9. s.tally[r] \in Tally
  BY <1>1, SrvTypes DEF r
<1>10. Accounted(s.tally[r], r, 1, k, j)
  BY <1>7 DEF Settling, r
<1>11. Accounted(s.tally[r], r, 0, k + 1, j - 1)
  BY <1>9, <1>10, AccountedLess
<1>12. Settling(u, r, k + 1, j - 1)
  BY <1>2, <1>7, <1>8, <1>11 DEF Settling, r
<1> QED
  BY <1>2, <1>5, <1>6, <1>12 DEF u, r

\* A request that was postponed has a hop left when it is looked at again,
\* unless it came with two.
LEMMA SecondLook ==
  ASSUME NEW r \in Requests, ~Message[r].mcast, ~LastHop(r), FailCode(Message[r]) = 0
  PROVE  FailCode(Decremented(Message[r])) = 0
<1> DEFINE p == Message[r]
           d == Decremented(p)
<1>1. p \in RequestShape /\ p.hop \in Int
  BY ShapeFacts
<1>2. /\ d.proxy = p.proxy /\ d.method = p.method
      /\ d.hop = IF HopChecked(p) THEN p.hop - 1 ELSE p.hop
  BY <1>1, DecrementedIs
<1>3. HopChecked(p) => p.hop # 2
  BY DEF LastHop
<1>4. FailCode(p) = 0
  OBVIOUS
<1> HIDE DEF p, d
<1>5. ~ProxyFails(p) /\ HopCode(p) = 0
  BY <1>4 DEF FailCode
<1>6. ~ProxyFails(d)
  BY <1>2, <1>5 DEF ProxyFails
<1>7. CASE ~HopChecked(p)
  <2>1. ~HopChecked(d)
    BY <1>2, <1>7 DEF HopChecked
  <2> QED
    BY <1>6, <2>1 DEF FailCode, HopCode, d, p
<1>8. CASE HopChecked(p)
  <2>1. p.hop >= 2 /\ p.hop <= 255
    <3>1. p.hop # 1
      BY <1>5, <1>8 DEF HopCode
    <3>2. ~(p.hop < 1 \/ p.hop > 255)
      BY <1>1, <1>5, <1>8, <3>1 DEF HopCode
    <3> QED
      BY <1>1, <3>1, <3>2
  <2>2. d.hop # 1 /\ ~(d.hop < 1 \/ d.hop > 255)
    BY <1>1, <1>2, <1>3, <1>8, <2>1
  <2>3. HopCode(d) = 0
    BY <2>2 DEF HopCode
  <2> QED
    BY <1>6, <2>3 DEF FailCode, d, p
<1> QED
  BY <1>7, <1>8

LEMMA AccountedEnded ==
  ASSUME NEW t \in Tally, NEW v \in Tally, NEW r, NEW w \in Nat, Accounted(t, r, w, 0, 0),
         v.delivered = t.delivered, v.acked = t.acked, v.dropped = t.dropped,
         v.early = t.early, v.registered = t.registered, Ended(v) = Ended(t) + 1,
         v.freed = t.freed, v.refused > 0 => t.refused > 0 \/ MayRefuse(r)
  PROVE  Accounted(v, r, w, 0, 1)
<1> DEFINE a == Ended(t)
           f == t.freed
           g == t.registered
<1>1. a \in Nat /\ f \in Nat /\ g \in Nat
  BY TallyTypes
<1>2. Ended(v) = a + 1 /\ v.freed = f /\ v.registered = g
  OBVIOUS
<1>3. g + 0 = a + f + w
  BY DEF Accounted
<1> HIDE DEF a, f, g
<1>4. g + 1 = a + 1 + f + w
  BY <1>1, <1>3
<1>5. v.registered + 1 = Ended(v) + v.freed + w
  BY <1>2, <1>4, Zenon
<1>6. /\ Owes(r) => v.acked + v.dropped + 0 = v.delivered + v.registered - v.freed - w
      /\ ~Owes(r) => v.acked + v.dropped = 0
      /\ v.early = 0 /\ (v.refused > 0 => MayRefuse(r))
  BY DEF Accounted
<1> QED
  BY <1>5, <1>6 DEF Accounted

\* What becomes of an entry is counted, in one place.
LEMMA OutcomeIs ==
  ASSUME NEW s \in Srv, NEW e \in Entry, EntryFits(e), HeldBack(s, e.request) => e.due = 0
  PROVE  LET t == Outcome(s, e)
             r == e.request
         IN /\ Tallied(s, t, r, t.tally[r]) /\ t.tally[r] \in Tally
            /\ t.tally[r].delivered = s.tally[r].delivered /\ t.tally[r].acked = s.tally[r].acked
            /\ t.tally[r].dropped = s.tally[r].dropped /\ t.tally[r].early = s.tally[r].early
            /\ t.tally[r].registered = s.tally[r].registered
            /\ t.tally[r].freed = s.tally[r].freed /\ t.tally[r].told = s.tally[r].told
            /\ Ended(t.tally[r]) = Ended(s.tally[r]) + 1
            /\ t.tally[r].refused > 0 => s.tally[r].refused > 0 \/ MayRefuse(r)
<1> DEFINE t == Outcome(s, e)
           r == e.request
           o == s.tally[r]
           held == HeldBack(s, r)
           fails == FailCode(e.pdu) # 0
<1>1. r \in Requests /\ e.pdu \in RequestShape
  BY DEF Entry
<1>2. o \in Tally
  BY <1>1, SrvTypes
<1>3. /\ o.served \in Nat /\ o.zeroed \in Nat /\ o.refused \in Nat
  BY <1>2, TallyTypes
<1>4. CASE held
  <2>1. t = [s EXCEPT !.tally[r].zeroed = @ + 1]
    BY <1>4 DEF Outcome
  <2>2. /\ Tallied(s, t, r, t.tally[r])
        /\ TallyIs(t.tally[r], o.delivered, o.acked, o.dropped, o.early, o.registered,
                   o.served, o.freed, o.zeroed + 1, o.refused, o.told)
    BY <1>1, <2>1, ZeroedIs
  <2> HIDE DEF t, r, o
  <2> QED
    BY <1>3, <2>2 DEF TallyIs, Ended, t, r, o
<1>5. CASE ~held /\ fails
  <2>1. t = [s EXCEPT !.tally[r].refused = @ + 1]
    BY <1>5 DEF Outcome
  <2>2. /\ Tallied(s, t, r, t.tally[r])
        /\ TallyIs(t.tally[r], o.delivered, o.acked, o.dropped, o.early, o.registered,
                   o.served, o.freed, o.zeroed, o.refused + 1, o.told)
    BY <1>1, <2>1, RefusedIs
  <2>3. MayRefuse(r)
    BY <1>1, <1>5, SecondLook DEF EntryFits, MayRefuse
  <2> HIDE DEF t, r, o
  <2> QED
    BY <1>3, <2>2, <2>3 DEF TallyIs, Ended, t, r, o
<1>6. CASE ~held /\ ~fails
  <2>1. t = [s EXCEPT !.tally[r].served = @ + 1]
    BY <1>6 DEF Outcome
  <2>2. /\ Tallied(s, t, r, t.tally[r])
        /\ TallyIs(t.tally[r], o.delivered, o.acked, o.dropped, o.early, o.registered,
                   o.served + 1, o.freed, o.zeroed, o.refused, o.told)
    BY <1>1, <2>1, ServedIs
  <2> HIDE DEF t, r, o
  <2> QED
    BY <1>3, <2>2 DEF TallyIs, Ended, t, r, o
<1> QED
  BY <1>4, <1>5, <1>6

\* One round of coap_check_async() for an entry that is due.
LEMMA FireKeeps ==
  ASSUME NEW s, NEW e, Books(s), In(s.asyncs, e), Fires(e), clock \in Nat, NEW v \in Fire(s, e)
  PROVE  Books(v) /\ \A x : In(v.asyncs, x) <=> In(s.asyncs, x) /\ x.request # e.request
<1> DEFINE r == e.request
           t == Outcome(s, e)
           o == s.tally[r]
<1>1. PICK u \in HandleRequest(t, e.request, e.pdu) : v = Free(u, e)
  BY Zenon DEF Fire
<1>2. s \in Srv /\ s.asyncs \in Seq(Entry) /\ Structure(s) /\ AllTold(s) /\ EntryFits(e)
  BY SrvTypes DEF Books, Structure
<1>3. e \in Entry
  BY <1>2 DEF In
<1>4. r \in Requests /\ e.pdu \in RequestShape /\ Waits(s.asyncs, r)
  BY <1>3, InWaits DEF Entry
<1>5. /\ Tallied(s, t, r, t.tally[r]) /\ t.tally[r] \in Tally
      /\ t.tally[r].delivered = o.delivered /\ t.tally[r].acked = o.acked
      /\ t.tally[r].dropped = o.dropped /\ t.tally[r].early = o.early
      /\ t.tally[r].registered = o.registered
      /\ t.tally[r].freed = o.freed /\ t.tally[r].told = o.told
      /\ Ended(t.tally[r]) = Ended(o) + 1
      /\ t.tally[r].refused > 0 => o.refused > 0 \/ MayRefuse(r)
  <2>1. ASSUME HeldBack(s, r) PROVE e.due = 0
    <3>1. PICK i \in 1..Len(s.asyncs) :
            s.asyncs[i].request = r /\ (s.asyncs[i].due = 0 \/ s.asyncs[i].due > clock)
      BY <2>1 DEF HeldBack, Pending, Entries
    <3>2. PICK j \in 1..Len(s.asyncs) : s.asyncs[j] = e
      BY DEF In
    <3>3. i = j
      BY <1>2, <3>1, <3>2 DEF Structure, Distinct
    <3>4. e.due \in Nat /\ e.due <= clock
      BY <1>3 DEF Entry, Fires
    <3> QED
      BY <3>1, <3>2, <3>3, <3>4
  <2> HIDE DEF t
  <2> QED
    BY <1>2, <1>3, <2>1, OutcomeIs DEF t
<1> HIDE DEF t
<1>6. /\ t \in Srv /\ t.asyncs = s.asyncs /\ t.observing = s.observing /\ t.mcast = s.mcast
      /\ OthersSame(s, t, r)
  BY <1>5 DEF Tallied, OthersSame
<1>7. \A q \in Requests : Accounted(s.tally[q], q, Waiting(s.asyncs, q), 0, 0)
  BY DEF Books
<1>8. Accounted(t.tally[r], r, Waiting(s.asyncs, r), 0, 1)
  <2> DEFINE w == Waiting(s.asyncs, r)
  <2>1. w \in Nat /\ Accounted(o, r, w, 0, 0) /\ o \in Tally
    BY <1>2, <1>4, <1>7, WaitingIs, SrvTypes
  <2> HIDE DEF w, o, r
  <2> QED
    BY <1>5, <2>1, AccountedEnded DEF w
<1> HIDE DEF o
<1>9. Structure(t)
  BY <1>2, <1>6 DEF Structure, ObservingFits, McastFits
<1>10. Settling(t, r, 0, 1)
  BY <1>6, <1>7, <1>8 DEF Settling, OthersSame
<1>11. PduFits(t, r, e.pdu)
  BY <1>2, <1>4, <1>6 DEF PduFits, EntryFits
<1>12. /\ Handled(t, u, r)
       /\ Told(t, r) /\ (FailCode(e.pdu) # 0 => FailCode(Message[r]) # 0 \/ LastHop(r))
            => Told(u, r)
  BY <1>1, <1>4, <1>6, <1>9, <1>11, HandleRequestIs DEF Structure
<1> DEFINE z == 0
           one == 1
<1>13. /\ Structure(u) /\ Settling(u, r, -1, 1)
       /\ u.asyncs = t.asyncs
       /\ \A q \in Requests \ {r} : Told(t, q) => Told(u, q)
  <2>1. z \in Int /\ one \in Int /\ z - 1 = -1 /\ one = 1 /\ Settling(t, r, z, one)
    BY <1>10
  <2>2. Waits(t.asyncs, r)
    BY <1>4, <1>6
  <2> HIDE DEF z, one, r
  <2>3. /\ Structure(u) /\ Settling(u, r, z - 1, one)
        /\ Waits(t.asyncs, r) => u.asyncs = t.asyncs
        /\ \A q \in Requests \ {r} : Told(t, q) => Told(u, q)
    BY <1>4, <1>9, <1>12, <2>1, HandledKeeps
  <2> QED
    BY <2>1, <2>2, <2>3
<1>14. ASSUME NEW q \in Requests PROVE Told(u, q)
  <2>1. Told(t, q)
    BY <1>2, <1>5, <1>6 DEF AllTold, Told, OthersSame, o
  <2>2. CASE q # r
    BY <1>13, <2>1, <2>2
  <2>3. CASE q = r
    <3>1. FailCode(e.pdu) # 0 => FailCode(Message[r]) # 0 \/ LastHop(r)
      <4>1. CASE Message[r].mcast
        BY <1>2, <4>1 DEF EntryFits
      <4>2. CASE ~Message[r].mcast
        BY <1>2, <1>4, <4>2, SecondLook DEF EntryFits
      <4> QED
        BY <4>1, <4>2
    <3> QED
      BY <1>12, <2>1, <2>3, <3>1
  <2> QED
    BY <2>2, <2>3
<1>15. /\ Structure(v) /\ Settling(v, r, 0, 0)
       /\ \A x : In(v.asyncs, x) <=> In(s.asyncs, x) /\ x.request # r
       /\ v.observing = u.observing /\ v.tally = u.tally
  <2> DEFINE m == -1
  <2>1. m \in Int /\ one \in Int /\ m + 1 = 0 /\ one - 1 = 0 /\ Settling(u, r, m, one)
    BY <1>13
  <2>2. Waits(u.asyncs, r)
    BY <1>4, <1>6, <1>13
  <2> HIDE DEF m, one
  <2>3. /\ Structure(v) /\ Settling(v, r, m + 1, one - 1)
        /\ \A x : In(v.asyncs, x) <=> In(u.asyncs, x) /\ x.request # r
        /\ v.observing = u.observing /\ v.tally = u.tally
    BY <1>1, <1>4, <1>13, <2>1, <2>2, FreeKeeps
  <2> QED
    BY <1>6, <1>13, <2>1, <2>3
<1>16. AllTold(v)
  BY <1>14, <1>15 DEF AllTold, Told
<1> QED
  BY <1>4, <1>15, <1>16, BooksSettling

\* coap_check_async(): the books are right after every round, and the entries
\* that were not looked at yet are still in the list.
LEMMA CheckRoundsKeep ==
  ASSUME Books(srv), clock \in Nat, NEW u \in CheckRounds(srv.asyncs)
  PROVE  Books(u)
<1> DEFINE list == srv.asyncs
           n == Len(list)
           Round(k, S) == UNION {IF Fires(list[k]) THEN Fire(s, list[k]) ELSE {s} : s \in S}
           Rounds(f, m) == f = [k \in 0..m |-> IF k = 0 THEN {srv} ELSE Round(k, f[k - 1])]
           c == CHOOSE f : Rounds(f, n)
<1>1. n \in Nat /\ list \in Seq(Entry) /\ Distinct(list)
  BY SrvTypes DEF Books, Structure
<1>2. u \in c[n]
  BY DEF CheckRounds
<1>3. \E f : Rounds(f, n)
  <2> HIDE DEF Round, n
  <2> DEFINE G == {m \in 0..n : \E f : Rounds(f, m)}
  <2>1. 0 \in G
    <3> DEFINE f == [k \in 0..0 |-> {srv}]
    <3>1. \A k \in 0..0 : f[k] = IF k = 0 THEN {srv} ELSE Round(k, f[k - 1])
      OBVIOUS
    <3>2. Rounds(f, 0)
      BY <3>1
    <3> HIDE DEF f, Rounds
    <3> QED
      BY <1>1, <3>2
  <2>2. ASSUME NEW m \in 1..n, m - 1 \in G PROVE m \in G
    <3>1. PICK f : Rounds(f, m - 1)
      BY <2>2
    <3> DEFINE h == [k \in 0..m |-> IF k = m THEN Round(m, f[m - 1]) ELSE f[k]]
    <3>2. /\ m \in Nat /\ 0 \in 0..m /\ 0 # m /\ 0 \in 0..(m - 1)
          /\ \A k \in 0..m : k # m => k \in 0..(m - 1)
          /\ \A k \in 0..m : k # 0 => k - 1 \in 0..m /\ k - 1 # m /\ k - 1 \in 0..(m - 1)
      BY <1>1
    <3>3. \A k \in 0..(m - 1) : f[k] = IF k = 0 THEN {srv} ELSE Round(k, f[k - 1])
      BY <3>1
    <3>4. \A k \in 0..(m - 1) : k \in 0..m /\ k # m /\ h[k] = f[k]
      BY <1>1
    <3>5. ASSUME NEW k \in 0..m PROVE h[k] = IF k = 0 THEN {srv} ELSE Round(k, h[k - 1])
      <4>1. CASE k = 0
        BY <3>2, <3>3, <3>4, <4>1
      <4>2. CASE k # 0
        <5>1. h[k - 1] = f[k - 1]
          BY <3>2, <3>4, <4>2
        <5>2. h[k] = Round(k, f[k - 1])
          BY <3>2, <3>3, <4>2
        <5> QED
          BY <4>2, <5>1, <5>2
      <4> QED
        BY <4>1, <4>2
    <3>6. h = [k \in 0..m |-> h[k]]
      OBVIOUS
    <3> HIDE DEF h
    <3>7. Rounds(h, m)
      BY <3>5, <3>6
    <3> HIDE DEF Rounds
    <3> QED
      BY <1>1, <3>7
  <2> HIDE DEF G
  <2>3. \A m \in 1..n : m - 1 \in G => m \in G
    BY <2>2
  <2>4. n \in G
    <3>1. \A k \in 0..n : k \in G
      BY <1>1, <2>1, <2>3, UpTo
    <3> QED
      BY <1>1, <3>1
  <2> QED
    BY <2>4 DEF G
<1>4. Rounds(c, n)
  <2> HIDE DEF Rounds
  <2> QED
    BY <1>3
<1> HIDE DEF c
<1>5. c[0] = {srv} /\ \A k \in 1..n : c[k] = Round(k, c[k - 1])
  <2> HIDE DEF Round, n
  <2>1. 0 \in 0..n /\ \A k \in 1..n : k \in 0..n /\ k # 0
    BY <1>1
  <2> QED
    BY <1>4, <2>1
<1> HIDE DEF Rounds
<1> DEFINE G == {m \in 0..n : \A s \in c[m] :
                   Books(s) /\ \A k \in (m + 1)..n : In(s.asyncs, list[k])}
<1>6. 0 \in G
  <2>1. \A k \in (0 + 1)..n : In(srv.asyncs, list[k])
    BY DEF In
  <2> HIDE DEF list
  <2> QED
    BY <1>1, <1>5, <2>1
<1>7. ASSUME NEW m \in 1..n, m - 1 \in G PROVE m \in G
  <2>1. m \in 0..n /\ m - 1 + 1 = m /\ m \in Nat
    BY <1>1
  <2>2. ASSUME NEW v \in c[m] PROVE Books(v) /\ \A k \in (m + 1)..n : In(v.asyncs, list[k])
    <3>1. PICK s \in c[m - 1] : v \in IF Fires(list[m]) THEN Fire(s, list[m]) ELSE {s}
      BY <1>5
    <3>2. Books(s) /\ \A k \in m..n : In(s.asyncs, list[k])
      BY <1>7, <2>1
    <3>3. \A k \in (m + 1)..n : k \in m..n /\ k \in 1..n /\ k # m
      BY <1>1
    <3>4. m \in m..n
      BY <1>1
    <3>5. CASE Fires(list[m])
      <4>1. v \in Fire(s, list[m])
        BY <3>1, <3>5
      <4>2. /\ Books(v)
            /\ \A x : In(v.asyncs, x) <=> In(s.asyncs, x) /\ x.request # list[m].request
        BY <3>2, <3>4, <3>5, <4>1, FireKeeps
      <4>3. \A k \in (m + 1)..n : list[k].request # list[m].request
        BY <1>1, <3>3 DEF Distinct
      <4> QED
        BY <3>2, <3>3, <4>2, <4>3
    <3>6. CASE ~Fires(list[m])
      <4>1. v = s
        BY <3>1, <3>6
      <4> QED
        BY <3>2, <3>3, <4>1
    <3> QED
      BY <3>5, <3>6
  <2> QED
    BY <2>1, <2>2
<1> HIDE DEF G
<1>8. \A m \in 1..n : m - 1 \in G => m \in G
  BY <1>7
<1>9. n \in G
  <2> HIDE DEF n
  <2>1. \A k \in 0..n : k \in G
    BY <1>1, <1>6, <1>8, UpTo
  <2> QED
    BY <1>1, <2>1
<1> QED
  BY <1>2, <1>9 DEF G

-----------------------------------------------------------------------------
(* The steps.                                                              *)

\* The books depend on the handlers that are registered, and those stay.
LEMMA ConfigKept ==
  ASSUME config' = config, Books(srv')
  PROVE  Books(srv)'
<1>1. ASSUME NEW p PROVE (ProxyFails(p))' <=> ProxyFails(p)
  BY DEF ProxyFails
<1>2. ASSUME NEW p PROVE (FailCode(p))' = FailCode(p)
  BY <1>1 DEF FailCode, HopCode, HopChecked
<1>3. ASSUME NEW r PROVE (Verdict(r))' = Verdict(r)
  <2>1. (Fallback(r))' = Fallback(r)
    BY DEF Fallback, Proxied
  <2> QED
    BY <2>1 DEF Verdict, Found, Proxied
<1>4. ASSUME NEW r PROVE (MayObserve(r))' <=> MayObserve(r)
  BY <1>2, <1>3 DEF MayObserve, Observable, Found, Proxied
<1>5. ASSUME NEW r, NEW code PROVE (McastError(r, code))' <=> McastError(r, code)
  BY <1>1 DEF McastError, HopChecked, Class
<1>6. ASSUME NEW e PROVE (EntryFits(e))' <=> EntryFits(e)
  BY <1>2 DEF EntryFits, Decremented, HopChecked
<1>7. (Structure(srv))'
  <2>1. Structure(srv')
    BY DEF Books
  <2>2. (ObservingFits(srv))'
    BY <1>4, <2>1 DEF Structure, ObservingFits
  <2>3. (McastFits(srv))'
    BY <1>5, <2>1 DEF Structure, McastFits, Class
  <2>4. \A x : In(srv'.asyncs, x) => EntryFits(x)
    BY <2>1 DEF Structure
  <2>5. (\A x : In(srv.asyncs, x) => EntryFits(x))'
    BY <1>6, <2>4 DEF In
  <2> QED
    BY <2>1, <2>2, <2>3, <2>5
       DEF Structure, Srv, Entry, Tally, Distinct, Requests, RequestShape
<1>8. (AllTold(srv))'
  BY DEF Books, AllTold, Told, LastHop, HopChecked, Requests
<1>9. (\A r \in Requests : Accounted(srv.tally[r], r, Waiting(srv.asyncs, r), 0, 0))'
  <2>1. ASSUME NEW r PROVE (MayRefuse(r))' <=> MayRefuse(r)
    BY <1>2 DEF MayRefuse, LastHop, HopChecked
  <2> QED
    BY <2>1 DEF Books, Accounted, Ended, Owes, Waiting, Waits, Requests
<1> QED
  BY <1>7, <1>8, <1>9 DEF Books

\* A request that is handled is owed no answer any more.
LEMMA HandledBooks ==
  ASSUME NEW s, NEW u, NEW r \in Requests, Structure(s), AllTold(s), Settling(s, r, 1, 0),
         Handled(s, u, r), Told(u, r)
  PROVE  Books(u)
<1> DEFINE k == 1
           j == 0
<1>1. k \in Int /\ j \in Int /\ k - 1 = 0 /\ j = 0 /\ Settling(s, r, k, j)
  OBVIOUS
<1> HIDE DEF k, j
<1>2. /\ Structure(u) /\ Settling(u, r, k - 1, j)
      /\ \A q \in Requests \ {r} : Told(s, q) => Told(u, q)
  BY <1>1, HandledKeeps
<1>3. AllTold(u)
  BY <1>2 DEF AllTold
<1>4. Settling(u, r, 0, 0)
  BY <1>1, <1>2
<1> QED
  BY <1>2, <1>3, <1>4, BooksSettling

LEMMA DeliveredSettling ==
  ASSUME Books(srv), NEW r \in Requests
  PROVE  LET s == Delivered(r)
         IN /\ Structure(s) /\ AllTold(s) /\ Settling(s, r, 1, 0)
            /\ s.observing = srv.observing /\ s.asyncs = srv.asyncs
<1> DEFINE s == Delivered(r)
           t == srv.tally[r]
<1>1. Structure(srv) /\ srv \in Srv /\ AllTold(srv) /\ t \in Tally
  BY SrvTypes DEF Books, Structure
<1>2. /\ Tallied(srv, s, r, s.tally[r])
      /\ TallyIs(s.tally[r], t.delivered + 1, t.acked, t.dropped, t.early, t.registered,
                 t.served, t.freed, t.zeroed, t.refused, t.told)
  BY <1>1, DeliveredIs
<1>3. \A q \in Requests : Accounted(srv.tally[q], q, Waiting(srv.asyncs, q), 0, 0)
  BY DEF Books
<1> HIDE DEF s
<1>4. /\ s \in Srv /\ s.asyncs = srv.asyncs /\ s.observing = srv.observing
      /\ s.mcast = srv.mcast /\ OthersSame(srv, s, r) /\ s.tally[r].told = t.told
  BY <1>2 DEF Tallied, TallyIs, OthersSame
<1>5. Structure(s)
  BY <1>1, <1>4 DEF Structure, ObservingFits, McastFits
<1>6. AllTold(s)
  BY <1>1, <1>4 DEF AllTold, Told, OthersSame
<1>7. Accounted(s.tally[r], r, Waiting(s.asyncs, r), 1, 0)
  <2> DEFINE w == Waiting(srv.asyncs, r)
             v == s.tally[r]
             a == t.acked
             n == t.dropped
             d == t.delivered
             g == t.registered
             f == t.freed
             y == Ended(t)
  <2>1. /\ w \in Nat /\ a \in Nat /\ n \in Nat /\ d \in Nat /\ g \in Nat /\ f \in Nat
        /\ Accounted(t, r, w, 0, 0)
    BY <1>1, <1>3, WaitingIs, TallyTypes
  <2>2. /\ v.acked = a /\ v.dropped = n /\ v.delivered = d + 1 /\ v.registered = g
        /\ v.freed = f /\ Ended(v) = y /\ v.early = t.early /\ v.refused = t.refused
    BY <1>2 DEF TallyIs, Ended
  <2>3. /\ Owes(r) => a + n + 0 = d + g - f - w
        /\ ~Owes(r) => a + n = 0
        /\ g + 0 = y + f + w /\ t.early = 0 /\ (t.refused > 0 => MayRefuse(r))
    BY <2>1 DEF Accounted
  <2>4. Waiting(s.asyncs, r) = w
    BY <1>4
  <2> HIDE DEF w, v, a, n, d, g, f, y
  <2>5. a + n + 0 = d + g - f - w => a + n + 1 = d + 1 + g - f - w
    BY <2>1
  <2>6. Owes(r) => v.acked + v.dropped + 1 = v.delivered + v.registered - v.freed - w
    BY <2>2, <2>3, <2>5
  <2>8. Accounted(v, r, w, 1, 0)
    BY <2>2, <2>3, <2>6 DEF Accounted
  <2> QED
    BY <2>4, <2>8 DEF v
<1>8. Settling(s, r, 1, 0)
  BY <1>3, <1>4, <1>7 DEF Settling, OthersSame
<1> QED
  BY <1>4, <1>5, <1>6, <1>8 DEF s

LEMMA RecvCriticalKeeps ==
  ASSUME Books(srv), NEW r \in Requests, RecvCritical(r)
  PROVE  Books(srv')
<1> DEFINE s == Delivered(r)
           c == 402
<1>1. /\ Structure(s) /\ AllTold(s) /\ Settling(s, r, 1, 0)
      /\ s.observing = srv.observing /\ s.asyncs = srv.asyncs
  BY DeliveredSettling
<1>2. Message[r].crit
  BY DEF RecvCritical, UnknownCritical
<1>3. s \in Srv /\ ObservingFits(s) /\ McastFits(s)
  BY <1>1 DEF Structure
<1>4. c \in Nat /\ McastError(r, c)
  BY <1>2 DEF McastError
<1>5. Message[r].type = "CON" => srv' = Sent(s, r, c)
  BY DEF RecvCritical, FailReply
<1>6. Message[r].type # "CON" => srv' = s
  BY DEF RecvCritical
<1>7. r \notin s.observing
  BY <1>2, <1>3 DEF ObservingFits, MayObserve
<1> HIDE DEF s, c
<1>8. CASE Message[r].type = "CON"
  <2>0. Single(r)
    BY <1>2 DEF Single, Owes
  <2>1. Handled(s, srv', r) /\ Told(srv', r)
    BY <2>0, <1>3, <1>4, <1>5, <1>7, <1>8, Answer
  <2> QED
    BY <1>1, <2>1, HandledBooks
<1>9. CASE Message[r].type # "CON"
  <2>1. Settling(s, r, 0, 0)
    BY <1>1, <1>9 DEF Settling, Accounted, Owes
  <2> QED
    BY <1>1, <1>6, <1>9, <2>1, BooksSettling
<1> QED
  BY <1>8, <1>9

LEMMA RecvRequestKeeps ==
  ASSUME Books(srv), clock \in Nat, NEW r \in Requests, RecvRequest(r)
  PROVE  Books(srv')
<1> DEFINE s == Delivered(r)
<1>1. Structure(s) /\ AllTold(s) /\ Settling(s, r, 1, 0)
  BY DeliveredSettling
<1>2. srv' \in HandleRequest(s, r, Message[r]) /\ ~Message[r].crit
  BY DEF RecvRequest, UnknownCritical
<1> HIDE DEF s
<1>3. s \in Srv /\ ObservingFits(s) /\ McastFits(s)
  BY <1>1 DEF Structure
<1>4. Message[r] \in RequestShape
  BY ShapeFacts
<1>5. PduFits(s, r, Message[r])
  BY <1>2, <1>4 DEF PduFits
<1>6. /\ Handled(s, srv', r)
      /\ Told(s, r) /\ (FailCode(Message[r]) # 0 => FailCode(Message[r]) # 0 \/ LastHop(r))
           => Told(srv', r)
  BY <1>2, <1>3, <1>4, <1>5, HandleRequestIs
<1>7. Told(srv', r)
  BY <1>1, <1>6 DEF AllTold
<1> QED
  BY <1>1, <1>6, <1>7, HandledBooks

LEMMA SetDelayKeeps ==
  ASSUME Books(srv), clock \in Nat, NEW i \in 1..Len(srv.asyncs), NEW d \in Delays, SetDelay(i, d)
  PROVE  Books(srv')
<1> DEFINE q == srv.asyncs
           due == Due(d)
           x == [q[i] EXCEPT !.due = due]
           a == [q EXCEPT ![i] = x]
           u == [srv EXCEPT !.asyncs = a]
<1>1. srv' = u
  BY Zenon DEF SetDelay
<1>2. Structure(srv) /\ srv \in Srv /\ q \in Seq(Entry) /\ Distinct(q) /\ AllTold(srv)
  BY SrvTypes DEF Books, Structure
<1>3. due \in Nat
  BY DelaysAssumption DEF Due
<1>4. q[i] \in Entry /\ EntryFits(q[i])
  <2>1. In(q, q[i])
    BY DEF In
  <2> QED
    BY <1>2, <2>1 DEF Structure
<1> HIDE DEF due
<1>5. x \in Entry /\ x.request = q[i].request /\ x.pdu = q[i].pdu /\ x.due = due
  <2> DEFINE y == q[i]
  <2>1. y \in Entry
    BY <1>4
  <2> HIDE DEF y
  <2>2. LET z == [y EXCEPT !.due = due]
        IN z \in Entry /\ z.request = y.request /\ z.pdu = y.pdu /\ z.due = due
    BY <1>3, <2>1 DEF Entry
  <2> QED
    BY <2>2 DEF y
<1>6. EntryFits(x)
  BY <1>3, <1>4, <1>5 DEF EntryFits
<1> HIDE DEF x
<1>7. /\ a \in Seq(Entry) /\ Len(a) = Len(q)
      /\ \A k \in 1..Len(q) : a[k] = IF k = i THEN x ELSE q[k]
  BY <1>2, <1>5
<1> HIDE DEF a
<1>8. \A k \in 1..Len(q) : a[k].request = q[k].request
  BY <1>5, <1>7
<1>9. /\ u \in Srv /\ u.asyncs = a /\ u.observing = srv.observing
      /\ u.mcast = srv.mcast /\ u.tally = srv.tally
  BY <1>2, <1>7, SetAsyncs
<1> HIDE DEF u, q
<1>10. Distinct(a)
  BY <1>2, <1>7, <1>8 DEF Distinct
<1>11. \A y : In(a, y) => EntryFits(y)
  <2>1. \A y : In(q, y) => EntryFits(y)
    BY <1>2 DEF Structure, q
  <2>2. ASSUME NEW k \in 1..Len(a) PROVE EntryFits(a[k])
    <3>1. a[k] = x \/ (k \in 1..Len(q) /\ a[k] = q[k])
      BY <1>7
    <3> QED
      BY <1>6, <2>1, <3>1 DEF In
  <2> QED
    BY <2>2 DEF In
<1>12. \A r : Waits(a, r) <=> Waits(q, r)
  BY <1>7, <1>8 DEF Waits
<1>13. Structure(u)
  BY <1>2, <1>9, <1>10, <1>11 DEF Structure, ObservingFits, McastFits
<1>14. AllTold(u)
  BY <1>2, <1>9 DEF AllTold, Told
<1>15. \A r \in Requests : Accounted(u.tally[r], r, Waiting(u.asyncs, r), 0, 0)
  <2>1. \A r : Waiting(u.asyncs, r) = Waiting(srv.asyncs, r)
    BY <1>9, <1>12 DEF Waiting, q
  <2> QED
    BY <1>9, <2>1 DEF Books
<1> QED
  BY <1>1, <1>13, <1>14, <1>15 DEF Books

LEMMA AccountedFreed ==
  ASSUME NEW t \in Tally, NEW v \in Tally, NEW r, NEW w \in Nat, NEW n \in Nat,
         Accounted(t, r, w, n, -n),
         v.delivered = t.delivered, v.acked = t.acked, v.dropped = t.dropped,
         v.early = t.early, v.registered = t.registered, Ended(v) = Ended(t),
         v.refused = t.refused, v.freed = t.freed + n
  PROVE  Accounted(v, r, w, 0, 0)
<1> DEFINE a == t.acked
           b == t.dropped
           d == t.delivered
           g == t.registered
           f == t.freed
           e == Ended(t)
<1>1. a \in Nat /\ b \in Nat /\ d \in Nat /\ g \in Nat /\ f \in Nat /\ e \in Nat
  BY TallyTypes
<1>2. /\ v.acked = a /\ v.dropped = b /\ v.delivered = d /\ v.registered = g
      /\ v.freed = f + n /\ Ended(v) = e /\ v.early = t.early
  OBVIOUS
<1>3. /\ Owes(r) => a + b + n = d + g - f - w
      /\ ~Owes(r) => a + b = 0
      /\ g + (-n) = e + f + w
      /\ t.early = 0 /\ (v.refused > 0 => MayRefuse(r))
  BY DEF Accounted
<1> HIDE DEF a, b, d, g, f, e
<1>4. a + b + n = d + g - f - w => a + b + 0 = d + g - (f + n) - w
  BY <1>1
<1>5. g + 0 = e + (f + n) + w
  BY <1>1, <1>3
<1>6. /\ Owes(r) => v.acked + v.dropped + 0 = v.delivered + v.registered - v.freed - w
      /\ ~Owes(r) => v.acked + v.dropped = 0
      /\ v.registered + 0 = Ended(v) + v.freed + w
  BY <1>2, <1>3, <1>4, <1>5, Zenon
<1> QED
  BY <1>2, <1>3, <1>6 DEF Accounted

LEMMA FreeAsyncKeeps ==
  ASSUME Books(srv), NEW i \in 1..Len(srv.asyncs), FreeAsync(i)
  PROVE  Books(srv')
<1> DEFINE e == srv.asyncs[i]
           r == e.request
           s == Free(srv, e)
           u == [s EXCEPT !.tally[r].freed = @ + 1]
           k == 0
<1>1. srv' = u
  BY Zenon DEF FreeAsync
<1>2. /\ Structure(srv) /\ srv \in Srv /\ srv.asyncs \in Seq(Entry) /\ AllTold(srv)
  BY SrvTypes DEF Books, Structure
<1>3. e \in Entry
  BY <1>2
<1>4. e.request \in Requests /\ Waits(srv.asyncs, e.request)
  BY <1>3 DEF Entry, Waits
<1>5. k \in Int /\ k = 0 /\ Settling(srv, e.request, k, k)
  BY <1>4, BooksSettling
<1> HIDE DEF e, k
<1>6. /\ Structure(s) /\ Settling(s, r, k + 1, k - 1)
      /\ s.observing = srv.observing /\ s.tally = srv.tally
  BY <1>2, <1>4, <1>5, FreeKeeps
<1> HIDE DEF s
<1>7. s \in Srv /\ Settling(s, r, 1, -1) /\ r \in Requests
  BY <1>4, <1>5, <1>6 DEF Structure
<1> DEFINE t == s.tally[r]
<1> HIDE DEF r
<1>8. /\ Tallied(s, u, r, u.tally[r])
      /\ TallyIs(u.tally[r], t.delivered, t.acked, t.dropped, t.early, t.registered,
                 t.served, t.freed + 1, t.zeroed, t.refused, t.told)
  BY <1>7, FreedIs
<1> HIDE DEF u
<1>9. /\ u \in Srv /\ u.asyncs = s.asyncs /\ u.observing = s.observing
      /\ u.mcast = s.mcast /\ OthersSame(s, u, r) /\ u.tally[r].told = t.told
  BY <1>8 DEF Tallied, TallyIs, OthersSame
<1>10. Structure(u)
  BY <1>6, <1>9 DEF Structure, ObservingFits, McastFits
<1>11. AllTold(u)
  BY <1>2, <1>6, <1>9 DEF AllTold, Told, OthersSame
<1>12. Accounted(u.tally[r], r, Waiting(u.asyncs, r), 0, 0)
  <2> DEFINE w == Waiting(s.asyncs, r)
             n == 1
  <2>1. /\ w \in Nat /\ n \in Nat /\ Accounted(t, r, w, n, -n) /\ t \in Tally
        /\ Waiting(u.asyncs, r) = w
    BY <1>7, <1>9, WaitingIs, SrvTypes DEF Settling
  <2>2. u.tally[r] \in Tally
    BY <1>8 DEF TallyIs
  <2>3. /\ u.tally[r].delivered = t.delivered /\ u.tally[r].acked = t.acked
        /\ u.tally[r].dropped = t.dropped /\ u.tally[r].early = t.early
        /\ u.tally[r].registered = t.registered /\ Ended(u.tally[r]) = Ended(t)
        /\ u.tally[r].refused = t.refused /\ u.tally[r].freed = t.freed + n
    BY <1>8 DEF TallyIs, Ended
  <2> HIDE DEF w, n, t
  <2> QED
    BY <2>1, <2>2, <2>3, AccountedFreed
<1>13. Settling(u, r, 0, 0)
  BY <1>7, <1>9, <1>12 DEF Settling, OthersSame
<1> QED
  BY <1>1, <1>7, <1>10, <1>11, <1>13, BooksSettling

LEMMA AccountedNone ==
  ASSUME NEW t \in Tally, NEW r, NEW w \in Nat, Accounted(t, r, w, 0, 0)
  PROVE  Accounted(t, r, 0, w, -w)
<1> DEFINE a == t.acked
           b == t.dropped
           d == t.delivered
           g == t.registered
           f == t.freed
           e == Ended(t)
<1>1. a \in Nat /\ b \in Nat /\ d \in Nat /\ g \in Nat /\ f \in Nat /\ e \in Nat
  BY TallyTypes
<1>2. /\ Owes(r) => a + b + 0 = d + g - f - w
      /\ g + 0 = e + f + w
  BY DEF Accounted
<1> HIDE DEF a, b, d, g, f, e
<1>3. a + b + 0 = d + g - f - w => a + b + w = d + g - f - 0
  BY <1>1
<1>4. g + (-w) = e + f + 0
  BY <1>1, <1>2
<1>5. Owes(r) => a + b + w = d + g - f - 0
  BY <1>2, <1>3
<1> QED
  BY <1>4, <1>5 DEF Accounted, a, b, d, g, f, e

LEMMA DeleteAllKeeps ==
  ASSUME Books(srv), DeleteAll
  PROVE  Books(srv')
<1> DEFINE a == << >>
           s == [srv EXCEPT !.asyncs = a]
           Gone(r) == srv.tally[r].freed + Cardinality(Entries(srv, r))
           f == [r \in Requests |-> [srv.tally[r] EXCEPT !.freed = Gone(r)]]
           u == [s EXCEPT !.tally = f]
<1>1. srv' = u
  BY Zenon DEF DeleteAll
<1>2. Structure(srv) /\ srv \in Srv /\ Distinct(srv.asyncs) /\ AllTold(srv)
  BY DEF Books, Structure
<1>3. a \in Seq(Entry) /\ Len(a) = 0
  OBVIOUS
<1> HIDE DEF a
<1>4. /\ s \in Srv /\ s.asyncs = a /\ s.observing = srv.observing
      /\ s.mcast = srv.mcast /\ s.tally = srv.tally
  BY <1>2, <1>3, SetAsyncs
<1> HIDE DEF s
<1>5. ASSUME NEW r \in Requests
      PROVE  /\ Gone(r) \in Nat /\ Gone(r) = srv.tally[r].freed + Waiting(srv.asyncs, r)
             /\ srv.tally[r] \in Tally
  <2>1. Cardinality(Entries(srv, r)) = Waiting(srv.asyncs, r)
    BY <1>2, EntriesCount DEF Waiting
  <2>2. Waiting(srv.asyncs, r) \in Nat
    BY WaitingIs
  <2>3. srv.tally[r] \in Tally /\ srv.tally[r].freed \in Nat
    BY <1>2, SrvTypes, TallyTypes
  <2> QED
    BY <1>4, <2>1, <2>2, <2>3
<1>6. ASSUME NEW r \in Requests
      PROVE  LET t == srv.tally[r]
             IN /\ f[r] = [t EXCEPT !.freed = Gone(r)]
                /\ TallyIs(f[r], t.delivered, t.acked, t.dropped, t.early, t.registered,
                           t.served, Gone(r), t.zeroed, t.refused, t.told)
  <2>1. f[r] = [srv.tally[r] EXCEPT !.freed = Gone(r)]
    BY <1>4
  <2> HIDE DEF Gone, f
  <2> QED
    BY <1>5, <2>1, SetFreed
<1>7. f \in [Requests -> Tally]
  <2>1. \A r \in Requests : f[r] \in Tally
    BY <1>6 DEF TallyIs
  <2>2. f = [r \in Requests |-> f[r]]
    OBVIOUS
  <2> HIDE DEF f
  <2> QED
    BY <2>1, <2>2
<1> HIDE DEF f, Gone
<1>8. /\ u \in Srv /\ u.asyncs = a /\ u.observing = srv.observing
      /\ u.mcast = srv.mcast /\ u.tally = f
  BY <1>4, <1>7 DEF Srv
<1> HIDE DEF u
<1>9. Structure(u)
  <2>1. Distinct(a) /\ \A x : ~In(a, x)
    BY <1>3 DEF Distinct, In
  <2> QED
    BY <1>2, <1>8, <2>1 DEF Structure, ObservingFits, McastFits
<1>10. AllTold(u)
  BY <1>2, <1>6, <1>8 DEF AllTold, Told, TallyIs
<1>11. ASSUME NEW r \in Requests PROVE Accounted(u.tally[r], r, Waiting(u.asyncs, r), 0, 0)
  <2> DEFINE t == srv.tally[r]
             v == f[r]
             w == Waiting(srv.asyncs, r)
             z == 0
  <2>1. w \in Nat /\ t \in Tally /\ Accounted(t, r, w, 0, 0)
    BY <1>5, WaitingIs DEF Books
  <2>2. Accounted(t, r, 0, w, -w)
    BY <2>1, AccountedNone
  <2>3. /\ v \in Tally /\ v.delivered = t.delivered /\ v.acked = t.acked
        /\ v.dropped = t.dropped /\ v.early = t.early /\ v.registered = t.registered
        /\ Ended(v) = Ended(t) /\ v.refused = t.refused /\ v.freed = t.freed + w
    BY <1>5, <1>6 DEF TallyIs, Ended
  <2>4. z \in Nat /\ Accounted(t, r, z, w, -w) /\ Waiting(u.asyncs, r) = z
    BY <1>3, <1>8, <2>2 DEF Waiting, Waits
  <2>5. u.tally[r] = v
    BY <1>8
  <2> HIDE DEF t, v, w, z
  <2> QED
    BY <2>1, <2>3, <2>4, <2>5, AccountedFreed
<1> QED
  BY <1>1, <1>9, <1>10, <1>11 DEF Books

ExchInv == Books(srv) /\ clock \in Nat

LEMMA ExchInitInv ==
  ASSUME ExchInit
  PROVE  ExchInv
<1> DEFINE z == [r \in Requests |-> NoTally]
           a == << >>
<1>1. NoTally \in Tally
  BY DEF NoTally, Tally
<1>2. z \in [Requests -> Tally] /\ \A r \in Requests : z[r] = NoTally
  BY <1>1
<1>3. a \in Seq(Entry) /\ Len(a) = 0
  OBVIOUS
<1>4. srv = [asyncs |-> a, observing |-> {}, mcast |-> {}, tally |-> z] /\ clock = 1
  BY DEF ExchInit
<1> HIDE DEF z, a
<1>5. /\ srv \in Srv /\ srv.asyncs = a /\ srv.observing = {} /\ srv.mcast = {}
      /\ srv.tally = z
  BY <1>2, <1>3, <1>4 DEF Srv
<1>6. Structure(srv)
  <2>1. Distinct(a) /\ \A x : ~In(a, x)
    BY <1>3 DEF Distinct, In
  <2> QED
    BY <1>5, <2>1 DEF Structure, ObservingFits, McastFits
<1>7. AllTold(srv)
  BY <1>5 DEF AllTold, Told
<1>8. ASSUME NEW r \in Requests PROVE Accounted(srv.tally[r], r, Waiting(srv.asyncs, r), 0, 0)
  <2>1. Waiting(srv.asyncs, r) = 0
    BY <1>3, <1>5 DEF Waiting, Waits
  <2>2. srv.tally[r] = NoTally
    BY <1>2, <1>5
  <2>3. Accounted(NoTally, r, 0, 0, 0)
    BY DEF Accounted, NoTally, Ended
  <2> QED
    BY <2>1, <2>2, <2>3
<1> QED
  BY <1>4, <1>6, <1>7, <1>8 DEF Books, ExchInv

LEMMA ExchNextInv ==
  ASSUME ExchInv, [ExchNext]_exchvars
  PROVE  ExchInv'
<1>1. Books(srv) /\ clock \in Nat
  BY DEF ExchInv
<1>2. ASSUME NEW r \in Requests, RecvCritical(r) PROVE ExchInv'
  <2>1. Books(srv') /\ config' = config /\ clock' = clock
    BY <1>1, <1>2, RecvCriticalKeeps DEF RecvCritical
  <2> QED
    BY <1>1, <2>1, ConfigKept DEF ExchInv
<1>3. ASSUME NEW r \in Requests, RecvRequest(r) PROVE ExchInv'
  <2>1. Books(srv') /\ config' = config /\ clock' = clock
    BY <1>1, <1>3, RecvRequestKeeps DEF RecvRequest
  <2> QED
    BY <1>1, <2>1, ConfigKept DEF ExchInv
<1>4. ASSUME NEW r \in Requests, RecvOther(r) PROVE ExchInv'
  <2>1. srv' = srv /\ config' = config /\ clock' = clock
    BY <1>4 DEF RecvOther
  <2>2. Books(srv')
    BY <1>1, <2>1
  <2> QED
    BY <1>1, <2>1, <2>2, ConfigKept DEF ExchInv
<1>5. CASE Tick
  <2>1. srv' = srv /\ config' = config /\ clock' \in Nat
    BY <1>1, <1>5 DEF Tick
  <2>2. Books(srv')
    BY <1>1, <2>1
  <2> QED
    BY <2>1, <2>2, ConfigKept DEF ExchInv
<1>6. CASE CheckAsync
  <2>1. srv' \in CheckRounds(srv.asyncs) /\ config' = config /\ clock' = clock
    BY <1>6 DEF CheckAsync
  <2>2. Books(srv')
    BY <1>1, <2>1, CheckRoundsKeep
  <2> QED
    BY <1>1, <2>1, <2>2, ConfigKept DEF ExchInv
<1>7. CASE DeleteAll
  <2>1. Books(srv') /\ config' = config /\ clock' = clock
    BY <1>1, <1>7, DeleteAllKeeps DEF DeleteAll
  <2> QED
    BY <1>1, <2>1, ConfigKept DEF ExchInv
<1>8. ASSUME NEW i \in 1..Len(srv.asyncs), FreeAsync(i) PROVE ExchInv'
  <2>1. Books(srv') /\ config' = config /\ clock' = clock
    BY <1>1, <1>8, FreeAsyncKeeps DEF FreeAsync
  <2> QED
    BY <1>1, <2>1, ConfigKept DEF ExchInv
<1>9. ASSUME NEW i \in 1..Len(srv.asyncs), NEW d \in Delays, SetDelay(i, d) PROVE ExchInv'
  <2>1. Books(srv') /\ config' = config /\ clock' = clock
    BY <1>1, <1>9, SetDelayKeeps DEF SetDelay
  <2> QED
    BY <1>1, <2>1, ConfigKept DEF ExchInv
<1>10. CASE UNCHANGED exchvars
  <2>1. srv' = srv /\ config' = config /\ clock' = clock
    BY <1>10 DEF exchvars
  <2>2. Books(srv')
    BY <1>1, <2>1
  <2> QED
    BY <1>1, <2>1, <2>2, ConfigKept DEF ExchInv
<1> QED
  BY <1>2, <1>3, <1>4, <1>5, <1>6, <1>7, <1>8, <1>9, <1>10, Zenon DEF ExchNext

LEMMA ExchInvariant == ExchSpec => []ExchInv
<1>1. ExchInit => ExchInv
  BY ExchInitInv
<1>2. ExchInv /\ [ExchNext]_exchvars => ExchInv'
  BY ExchNextInv
<1> QED
  BY <1>1, <1>2, PTL DEF ExchSpec

LEMMA InvGives ==
  ASSUME ExchInv
  PROVE  RepliesFit /\ DelayedIsServed
<1>1. Structure(srv) /\ AllTold(srv) /\ srv \in Srv /\ Distinct(srv.asyncs)
  BY DEF ExchInv, Books, Structure
<1>2. ASSUME NEW r \in Requests
      PROVE  LET t == srv.tally[r]
                 n == Cardinality(Entries(srv, r))
             IN /\ t.acked + t.dropped =
                     IF Owes(r) THEN t.delivered + t.registered - t.freed - n ELSE 0
                /\ t.registered = t.served + t.freed + t.zeroed + t.refused + n
                /\ t.early = 0 /\ (t.refused > 0 => MayRefuse(r))
  <2> DEFINE t == srv.tally[r]
             w == Waiting(srv.asyncs, r)
  <2>1. Cardinality(Entries(srv, r)) = w /\ w \in Nat
    BY <1>1, EntriesCount, WaitingIs DEF Waiting
  <2>2. Accounted(t, r, w, 0, 0)
    BY DEF ExchInv, Books
  <2>3. /\ t.acked \in Nat /\ t.dropped \in Nat /\ t.registered \in Nat /\ t.freed \in Nat
        /\ t.served \in Nat /\ t.zeroed \in Nat /\ t.refused \in Nat
    BY <1>1, SrvTypes, TallyTypes
  <2> HIDE DEF t, w
  <2>4. /\ t.acked + t.dropped + 0 = t.acked + t.dropped
        /\ t.registered + 0 = t.registered
    BY <2>3
  <2>5. t.registered = Ended(t) + t.freed + w
    BY <2>2, <2>4 DEF Accounted
  <2>6. t.registered = t.served + t.freed + t.zeroed + t.refused + w
    BY <2>1, <2>3, <2>5 DEF Ended
  <2>7. /\ t.acked + t.dropped = IF Owes(r) THEN t.delivered + t.registered - t.freed - w ELSE 0
        /\ t.early = 0 /\ (t.refused > 0 => MayRefuse(r))
    BY <2>2, <2>4, Zenon DEF Accounted
  <2> QED
    BY <2>1, <2>6, <2>7 DEF t
<1>3. AckAccounted
  BY <1>2, Zenon DEF AckAccounted
<1>4. McastErrorsAreFails
  BY <1>1 DEF Structure, McastFits, McastErrorsAreFails
<1>5. ToldNotObserving
  BY <1>1 DEF AllTold, Told, ToldNotObserving
<1>6. DelayedIsServed
  BY <1>2, Zenon DEF DelayedIsServed, MayRefuse
<1> QED
  BY <1>3, <1>4, <1>5, <1>6 DEF RepliesFit

\* What clients are told fits what the server does (coap_dispatch,
\* handle_request, no_response), whatever the requests, the handlers, the delays
\* and the bounds: each time a CON that is owed an acknowledgement is handled,
\* at once or from the asynchronous list, exactly one is sent unless
\* dropResponse says otherwise, a client that is told of an error is not
\* subscribed, and no error of a resource goes to a group, with the exceptions
\* AckAccounted, ToldNotObserving and McastError name.
THEOREM RepliesAlwaysFit == ExchSpec => []RepliesFit
<1>1. ExchInv => RepliesFit
  BY InvGives
<1> QED
  BY <1>1, ExchInvariant, PTL

\* A request that was postponed still waits, was freed, or was passed to its
\* resource, and never before its delay was over (coap_check_async), for any
\* delays: but for the entries found with a delay of 0 and those stored with
\* their last hop, which end unserved and are counted apart.
THEOREM DelayedAlwaysServed == ExchSpec => []DelayedIsServed
<1>1. ExchInv => DelayedIsServed
  BY InvGives
<1> QED
  BY <1>1, ExchInvariant, PTL

-----------------------------------------------------------------------------
(* The request cache: what is fed to the hash.                             *)

Fed == [delta : Int, val : STRING]

LEMMA OptionFacts ==
  ASSUME NEW q \in Options
  PROVE  /\ Len(q) \in Nat /\ q \in [1..Len(q) -> [num : Nat, val : STRING]]
         /\ \A i \in 1..Len(q) : /\ q[i].num \in Nat /\ q[i].val \in STRING
                                 /\ Delta(q, i) \in Int
<1>1. Len(q) \in Nat /\ q \in [1..Len(q) -> [num : Nat, val : STRING]]
  <2> DEFINE S == [num : Nat, val : STRING]
  <2>1. q \in Seq(S)
    BY DEF Options
  <2> HIDE DEF S
  <2>2. Len(q) \in Nat /\ q \in [1..Len(q) -> S]
    BY <2>1
  <2> QED
    BY <2>2 DEF S
<1>2. \A i \in 1..Len(q) : q[i].num \in Nat /\ q[i].val \in STRING
  BY <1>1
<1>3. ASSUME NEW i \in 1..Len(q) PROVE Delta(q, i) \in Int
  <2>1. CASE i = 1
    BY <1>2, <2>1 DEF Delta
  <2>2. CASE i # 1
    <3> DEFINE k == i - 1
    <3>1. k \in 1..Len(q) /\ k = i - 1
      BY <1>1, <2>2
    <3> HIDE DEF k
    <3>2. q[i].num \in Nat /\ q[k].num \in Nat
      BY <1>2, <3>1
    <3> QED
      BY <2>2, <3>1, <3>2 DEF Delta
  <2> QED
    BY <2>1, <2>2
<1> QED
  BY <1>1, <1>2, <1>3

\* Without an option that is left out, every option is fed, in order.
LEMMA KeyPartsIs ==
  ASSUME NEW q \in Options, AllKeys(q)
  PROVE  /\ Len(KeyParts(q)) = Len(q)
         /\ \A i \in 1..Len(q) : /\ KeyParts(q)[i].delta = Delta(q, i)
                                 /\ KeyParts(q)[i].val = q[i].val
<1> DEFINE n == Len(q)
           Part(k) == [delta |-> Delta(q, k), val |-> q[k].val]
           Rule(k, old) == IF IsCacheKey(q[k].num) THEN Append(old, Part(k)) ELSE old
           r == [x \in (1..n) \X Seq(Fed) |-> Rule(x[1], x[2])]
           Kept(f) == f = [k \in 0..n |-> IF k = 0 THEN << >> ELSE Rule(k, f[k - 1])]
           c == CHOOSE f : Kept(f)
<1>1. /\ n \in Nat
      /\ \A k \in 1..n : Delta(q, k) \in Int /\ q[k].val \in STRING
  BY OptionFacts
<1>2. \A k \in 1..n : /\ Part(k) \in Fed /\ Part(k).delta = Delta(q, k)
                      /\ Part(k).val = q[k].val /\ IsCacheKey(q[k].num)
  BY <1>1 DEF Fed, AllKeys
<1> HIDE DEF Part
<1>3. \A k \in 1..n, old \in Seq(Fed) : Rule(k, old) \in Seq(Fed)
  BY <1>2, AppendProperties
<1>4. KeyParts(q) = c[n]
  BY Zenon DEF KeyParts, Part
<1>5. \E f : Kept(f)
  <2>1. r \in [(1..n) \X Seq(Fed) -> Seq(Fed)]
    <3> HIDE DEF Rule, n
    <3> QED
      BY <1>3
  <2>2. \A k \in 1..n, old \in Seq(Fed) : r[<<k, old>>] = Rule(k, old)
    <3> HIDE DEF Rule, n
    <3> QED
      OBVIOUS
  <2>3. << >> \in Seq(Fed)
    OBVIOUS
  <2> HIDE DEF r, n, Rule
  <2>4. PICK f : Follows(f, Seq(Fed), n, << >>, r)
    BY <1>1, <2>1, <2>3, FollowsExists
  <2>5. /\ f \in [0..n -> Seq(Fed)] /\ f[0] = << >>
        /\ \A k \in 1..n : f[k] = r[<<k, f[k - 1]>>]
    BY <2>4 DEF Follows
  <2>6. ASSUME NEW k \in 1..n PROVE f[k] = Rule(k, f[k - 1])
    <3>1. k - 1 \in 0..n
      BY <1>1
    <3>2. f[k - 1] \in Seq(Fed)
      BY <2>5, <3>1
    <3> QED
      BY <2>2, <2>5, <3>2
  <2> DEFINE h == [k \in 0..n |-> IF k = 0 THEN << >> ELSE Rule(k, f[k - 1])]
  <2>7. \A k \in 0..n : f[k] = h[k]
    <3> SUFFICES ASSUME NEW k \in 0..n PROVE f[k] = h[k]
      OBVIOUS
    <3>1. k # 0 => k \in 1..n
      BY <1>1
    <3> QED
      BY <2>5, <2>6, <3>1
  <2>8. f = [k \in 0..n |-> f[k]] /\ h = [k \in 0..n |-> h[k]]
    BY <2>5
  <2>9. f = h
    BY <2>7, <2>8
  <2> QED
    BY <2>9
<1>6. Kept(c)
  <2> HIDE DEF Kept
  <2> QED
    BY <1>5
<1> HIDE DEF c
<1>7. c[0] = << >> /\ \A k \in 1..n : c[k] = Rule(k, c[k - 1])
  <2> HIDE DEF Rule, n
  <2>1. 0 \in 0..n /\ \A k \in 1..n : k \in 0..n /\ k # 0
    BY <1>1
  <2> QED
    BY <1>6, <2>1
<1> HIDE DEF Kept
<1> DEFINE G == {k \in 0..n : c[k] \in Seq(Fed) /\ Len(c[k]) = k
                               /\ \A i \in 1..k : c[k][i] = Part(i)}
<1>8. 0 \in G
  <2>1. c[0] \in Seq(Fed) /\ Len(c[0]) = 0
    BY <1>7
  <2> QED
    BY <1>1, <2>1
<1>9. ASSUME NEW k \in 1..n, k - 1 \in G PROVE k \in G
  <2> DEFINE old == c[k - 1]
             m == k - 1
  <2>1. /\ old \in Seq(Fed) /\ Len(old) = m /\ \A i \in 1..m : old[i] = Part(i)
        /\ m \in Nat /\ k = m + 1 /\ k \in 0..n
    BY <1>1, <1>9
  <2>2. c[k] = Append(old, Part(k)) /\ Part(k) \in Fed
    BY <1>2, <1>7
  <2> HIDE DEF old, m, n
  <2>3. /\ c[k] \in Seq(Fed) /\ Len(c[k]) = k /\ c[k][k] = Part(k)
        /\ \A i \in 1..m : c[k][i] = old[i]
    BY <2>1, <2>2, AppendProperties
  <2>4. \A i \in 1..k : i = k \/ i \in 1..m
    BY <2>1
  <2> QED
    BY <2>1, <2>3, <2>4
<1> HIDE DEF G
<1>10. \A k \in 1..n : k - 1 \in G => k \in G
  BY <1>9
<1>11. n \in G
  <2> HIDE DEF n
  <2>1. \A k \in 0..n : k \in G
    BY <1>1, <1>8, <1>10, UpTo
  <2> QED
    BY <1>1, <2>1
<1>12. Len(c[n]) = n /\ \A i \in 1..n : c[n][i] = Part(i)
  BY <1>11 DEF G
<1> QED
  BY <1>2, <1>4, <1>12

\* Equal bytes are equal options, since the numbers are sums of the differences.
LEMMA EqualKeys ==
  ASSUME NEW p \in Options, NEW q \in Options, AllKeys(p), AllKeys(q), KeyParts(p) = KeyParts(q)
  PROVE  p = q
<1> DEFINE n == Len(q)
<1>1. /\ Len(p) = n /\ n \in Nat
      /\ \A i \in 1..n : Delta(p, i) = Delta(q, i) /\ p[i].val = q[i].val
  <2>1. Len(KeyParts(p)) = Len(p) /\ Len(KeyParts(q)) = Len(q)
    BY KeyPartsIs
  <2>2. Len(p) = n /\ n \in Nat
    BY <2>1, OptionFacts
  <2> QED
    BY <2>2, KeyPartsIs
<1>2. /\ \A i \in 1..n : p[i].num \in Nat /\ q[i].num \in Nat
      /\ p \in [1..n -> [num : Nat, val : STRING]] /\ q \in [1..n -> [num : Nat, val : STRING]]
  BY <1>1, OptionFacts
<1> HIDE DEF n
<1> DEFINE G == {k \in 0..n : k # 0 => p[k].num = q[k].num}
<1>3. 0 \in G
  BY <1>1
<1>4. ASSUME NEW k \in 1..n, k - 1 \in G PROVE k \in G
  <2>1. Delta(p, k) = Delta(q, k) /\ p[k].num \in Nat /\ q[k].num \in Nat /\ k \in 0..n
    BY <1>1, <1>2
  <2>2. CASE k = 1
    BY <2>1, <2>2 DEF Delta
  <2>3. CASE k # 1
    <3> DEFINE m == k - 1
    <3>1. m \in 1..n /\ m \in G /\ m # 0
      BY <1>1, <1>4, <2>3
    <3>2. /\ Delta(p, k) = p[k].num - p[m].num
          /\ Delta(q, k) = q[k].num - q[m].num
      BY <2>3 DEF Delta
    <3> HIDE DEF m
    <3>3. p[m].num = q[m].num /\ q[m].num \in Nat
      BY <1>2, <3>1
    <3> DEFINE a == p[k].num
               b == q[k].num
               d == q[m].num
    <3>4. a \in Nat /\ b \in Nat /\ d \in Nat /\ a - d = b - d
      BY <2>1, <3>2, <3>3
    <3>5. a = b
      <4> HIDE DEF a, b, d
      <4> QED
        BY <3>4
    <3> QED
      BY <2>1, <3>5
  <2> QED
    BY <2>2, <2>3
<1> HIDE DEF G
<1>5. \A k \in 0..n : k \in G
  <2>1. \A k \in 1..n : k - 1 \in G => k \in G
    BY <1>4
  <2> QED
    BY <1>1, <1>3, <2>1, UpTo
<1>6. ASSUME NEW i \in 1..n PROVE p[i] = q[i]
  <2>1. i \in 0..n /\ i # 0
    BY <1>1
  <2>2. p[i].num = q[i].num /\ p[i].val = q[i].val
    BY <1>1, <1>5, <2>1 DEF G
  <2>3. p[i] \in [num : Nat, val : STRING] /\ q[i] \in [num : Nat, val : STRING]
    BY <1>2
  <2> QED
    BY <2>2, <2>3
<1> DEFINE S == [num : Nat, val : STRING]
<1>7. p \in [1..n -> S] /\ q \in [1..n -> S]
  BY <1>2
<1> HIDE DEF S
<1>8. p = [i \in 1..n |-> p[i]] /\ q = [i \in 1..n |-> q[i]]
  BY <1>7
<1>9. \A i \in 1..n : p[i] = q[i]
  BY <1>6
<1> QED
  BY <1>8, <1>9

-----------------------------------------------------------------------------
(* The entries of the cache.                                               *)

Keys == {DeriveKey(s, q, based) : s \in CacheSessions, q \in CacheRequests, based \in BOOLEAN}
CacheEntry == [id : Nat, key : Keys, session : CacheSessions, made : CacheRequests,
               based : BOOLEAN, idle : Nat, expire : Nat, last : Nat, data : BOOLEAN]

\* An entry: its key was derived from the request it was made for, and it
\* expires its idle time after it was used last.
EntryKept(e) ==
  /\ e.id \in 1..made /\ e.session \in open /\ released[e.id] = 0
  /\ e.key = DeriveKey(e.session, e.made, e.based)
  /\ e.idle > 0 => e.expire = e.last + e.idle

SameId == \A e, f \in entries : e.id = f.id => e = f

LookedUp ==
  \A hit \in lookup :
    /\ hit.asked \in CacheRequests /\ hit.entry.made \in CacheRequests
    /\ hit.based \in BOOLEAN /\ hit.entry.based \in BOOLEAN
    /\ DeriveKey(hit.by, hit.asked, hit.based)
         = DeriveKey(hit.entry.session, hit.entry.made, hit.entry.based)

CacheInv ==
  /\ cacheClock \in Nat /\ made \in 0..MaxEntries /\ open \subseteq CacheSessions
  /\ released \in [1..MaxEntries -> 0..1] /\ entries \subseteq CacheEntry
  /\ \A e \in entries : EntryKept(e)
  /\ SameId /\ LookedUp
  /\ \A i \in 1..MaxEntries : i > made => released[i] = 0

LEMMA EntryTypes ==
  ASSUME NEW e \in CacheEntry
  PROVE  /\ e.id \in Nat /\ e.key \in Keys /\ e.session \in CacheSessions
         /\ e.made \in CacheRequests /\ e.based \in BOOLEAN /\ e.idle \in Nat /\ e.expire \in Nat
         /\ e.last \in Nat /\ e.data \in BOOLEAN
BY DEF CacheEntry

LEMMA KeyIs ==
  ASSUME NEW s \in CacheSessions, NEW q \in CacheRequests, NEW based \in BOOLEAN
  PROVE  DeriveKey(s, q, based) \in Keys
BY DEF Keys

\* Equal keys are keys of one request, asked for in one way.
LEMMA KeysTell ==
  ASSUME NEW s, NEW q, NEW based \in BOOLEAN, NEW t, NEW m, NEW ebased \in BOOLEAN,
         DeriveKey(s, q, based) = DeriveKey(t, m, ebased)
  PROVE  /\ based = ebased /\ q.body = m.body /\ KeyParts(q.opts) = KeyParts(m.opts)
         /\ based => Transport[s] = Transport[t]
<1>1. /\ SessionBytes(s, based) = SessionBytes(t, ebased)
      /\ q.body = m.body /\ KeyParts(q.opts) = KeyParts(m.opts)
  BY DEF DeriveKey
<1> QED
  BY <1>1 DEF SessionBytes

LEMMA NoLookupIs ==
  ASSUME lookup' = NoLookup
  PROVE  LookedUp'
BY DEF NoLookup, LookedUp

\* The entry as it stands after it was found.
LEMMA TouchedIs ==
  ASSUME NEW e \in CacheEntry, cacheClock \in Nat
  PROVE  LET u == [Touched(e) EXCEPT !.last = cacheClock]
         IN /\ u \in CacheEntry /\ u.id = e.id /\ u.session = e.session /\ u.key = e.key
            /\ u.made = e.made /\ u.based = e.based /\ u.idle = e.idle /\ u.last = cacheClock
            /\ e.idle > 0 => u.expire = cacheClock + e.idle
<1> DEFINE t == Touched(e)
           x == cacheClock + e.idle
           u == [t EXCEPT !.last = cacheClock]
<1>1. e.idle \in Nat /\ x \in Nat /\ x = cacheClock + e.idle
  BY EntryTypes
<1>2. /\ t \in CacheEntry /\ t.id = e.id /\ t.session = e.session /\ t.key = e.key
      /\ t.made = e.made /\ t.based = e.based /\ t.idle = e.idle
      /\ e.idle > 0 => t.expire = x
  <2>1. CASE e.idle > 0
    <3>1. t = [e EXCEPT !.expire = x]
      BY <2>1, Zenon DEF Touched
    <3> HIDE DEF x, t
    <3> QED
      BY <1>1, <3>1 DEF CacheEntry
  <2>2. CASE ~(e.idle > 0)
    <3>1. t = e
      BY <2>2 DEF Touched
    <3> HIDE DEF t
    <3> QED
      BY <2>2, <3>1
  <2> QED
    BY <2>1, <2>2
<1> HIDE DEF t, x
<1>3. /\ u \in CacheEntry /\ u.id = t.id /\ u.session = t.session /\ u.key = t.key
      /\ u.made = t.made /\ u.based = t.based /\ u.idle = t.idle /\ u.last = cacheClock /\ u.expire = t.expire
  BY <1>2 DEF CacheEntry
<1> HIDE DEF u
<1> QED
  BY <1>1, <1>2, <1>3 DEF u, t

LEMMA CacheInitInv ==
  ASSUME CacheInit
  PROVE  CacheInv
<1>1. LookedUp
  BY DEF CacheInit, NoLookup, LookedUp
<1>2. released \in [1..MaxEntries -> 0..1] /\ \A i \in 1..MaxEntries : released[i] = 0
  BY DEF CacheInit
<1>3. made \in 0..MaxEntries
  BY EntriesAssumption DEF CacheInit
<1> QED
  BY <1>1, <1>2, <1>3 DEF CacheInit, CacheInv, SameId

LEMMA NewEntryKeeps ==
  ASSUME CacheInv, NEW s \in open, NEW q \in CacheRequests, NEW based \in BOOLEAN,
         NEW idle \in IdleTimes, NewEntry(s, q, based, idle)
  PROVE  CacheInv'
<1> DEFINE n == made + 1
           key == DeriveKey(s, q, based)
           x == IF idle > 0 THEN cacheClock + idle ELSE 0
           e == [id |-> n, key |-> key, session |-> s, made |-> q, based |-> based,
                 idle |-> idle, expire |-> x, last |-> cacheClock, data |-> FALSE]
<1>1. /\ made' = n /\ entries' = entries \cup {e} /\ lookup' = NoLookup /\ made < MaxEntries
      /\ open' = open /\ released' = released /\ cacheClock' = cacheClock
  BY DEF NewEntry
<1>2. /\ idle \in Nat /\ cacheClock \in Nat /\ made \in Nat /\ MaxEntries \in Nat
      /\ s \in CacheSessions /\ released \in [1..MaxEntries -> 0..1]
  BY IdleAssumption, EntriesAssumption DEF CacheInv
<1>3. key \in Keys /\ key = DeriveKey(s, q, based)
  BY <1>2, KeyIs
<1>4. x \in Nat /\ (idle > 0 => x = cacheClock + idle)
  BY <1>2
<1>5. n \in 1..MaxEntries /\ n \in Nat /\ n > made
  BY <1>1, <1>2
<1> HIDE DEF n, key, x
<1>6. e \in CacheEntry
  BY <1>2, <1>3, <1>4, <1>5 DEF CacheEntry
<1>7. /\ e.id = n /\ e.key = key /\ e.session = s /\ e.made = q /\ e.idle = idle
      /\ e.based = based /\ e.expire = x /\ e.last = cacheClock
  OBVIOUS
<1> HIDE DEF e
<1>8. \A f \in entries : f.id \in 1..made /\ f.id # n
  BY <1>2 DEF CacheInv, EntryKept, n
<1>9. ASSUME NEW f \in entries' PROVE EntryKept(f)'
  <2>1. CASE f \in entries
    <3>1. EntryKept(f)
      BY <2>1 DEF CacheInv
    <3>2. f.id \in 1..n
      BY <1>2, <1>8, <2>1 DEF n
    <3> QED
      BY <1>1, <3>1, <3>2 DEF EntryKept
  <2>2. CASE f = e
    <3>1. released[n] = 0
      BY <1>5 DEF CacheInv
    <3>2. e.id \in 1..n
      BY <1>5, <1>7
    <3> QED
      BY <1>1, <1>3, <1>4, <1>7, <2>2, <3>1, <3>2 DEF EntryKept
  <2> QED
    BY <1>1, <2>1, <2>2
<1>10. SameId'
  BY <1>1, <1>7, <1>8 DEF CacheInv, SameId
<1>11. LookedUp'
  BY <1>1, NoLookupIs
<1>12. made' \in 0..MaxEntries /\ \A i \in 1..MaxEntries : i > made' => released'[i] = 0
  BY <1>1, <1>2, <1>5 DEF CacheInv, n
<1>13. entries' \subseteq CacheEntry
  BY <1>1, <1>6 DEF CacheInv
<1> QED
  BY <1>1, <1>2, <1>9, <1>10, <1>11, <1>12, <1>13 DEF CacheInv

LEMMA GetByPduKeeps ==
  ASSUME CacheInv, NEW s \in open, NEW q \in CacheRequests, NEW based \in BOOLEAN,
         GetByPdu(s, q, based)
  PROVE  CacheInv'
<1>1. PICK e \in entries :
        /\ e.key = DeriveKey(s, q, based)
        /\ entries' = (entries \ {e}) \cup {[Touched(e) EXCEPT !.last = cacheClock]}
        /\ lookup' = {[by |-> s, asked |-> q, based |-> based, entry |-> e]}
        /\ open' = open /\ made' = made /\ released' = released /\ cacheClock' = cacheClock
  BY DEF GetByPdu
<1> DEFINE u == [Touched(e) EXCEPT !.last = cacheClock]
<1>2. e \in CacheEntry /\ cacheClock \in Nat /\ EntryKept(e) /\ s \in CacheSessions
  BY DEF CacheInv
<1>3. /\ u \in CacheEntry /\ u.id = e.id /\ u.session = e.session /\ u.key = e.key
      /\ u.made = e.made /\ u.based = e.based /\ u.idle = e.idle /\ u.last = cacheClock
      /\ e.idle > 0 => u.expire = cacheClock + e.idle
  BY <1>2, TouchedIs
<1>4. entries' = (entries \ {e}) \cup {u}
  BY <1>1
<1> HIDE DEF u
<1>5. ASSUME NEW f \in entries' PROVE EntryKept(f)'
  <2>1. CASE f \in entries
    <3>1. EntryKept(f)
      BY <2>1 DEF CacheInv
    <3> QED
      BY <1>1, <3>1 DEF EntryKept
  <2>2. CASE f = u
    BY <1>1, <1>2, <1>3, <2>2 DEF EntryKept
  <2> QED
    BY <1>4, <2>1, <2>2
<1>6. SameId'
  BY <1>3, <1>4 DEF CacheInv, SameId
<1>7. LookedUp'
  <2> DEFINE hit == [by |-> s, asked |-> q, based |-> based, entry |-> e]
  <2>1. /\ lookup' = {hit} /\ hit.by = s /\ hit.asked = q /\ hit.based = based
        /\ hit.entry = e
    BY <1>1
  <2>2. e.made \in CacheRequests /\ e.based \in BOOLEAN
    BY <1>2, EntryTypes
  <2>3. DeriveKey(s, q, based) = DeriveKey(e.session, e.made, e.based)
    BY <1>1, <1>2 DEF EntryKept
  <2> HIDE DEF hit
  <2> QED
    BY <2>1, <2>2, <2>3 DEF LookedUp
<1>8. entries' \subseteq CacheEntry
  BY <1>3, <1>4 DEF CacheInv
<1> QED
  BY <1>1, <1>5, <1>6, <1>7, <1>8 DEF CacheInv

LEMMA SetAppDataKeeps ==
  ASSUME CacheInv, NEW e \in entries, SetAppData(e)
  PROVE  CacheInv'
<1> DEFINE u == [e EXCEPT !.data = TRUE]
<1>1. /\ entries' = (entries \ {e}) \cup {u} /\ lookup' = NoLookup
      /\ open' = open /\ made' = made /\ released' = released /\ cacheClock' = cacheClock
  BY DEF SetAppData
<1>2. e \in CacheEntry /\ EntryKept(e)
  BY DEF CacheInv
<1>3. /\ u \in CacheEntry /\ u.id = e.id /\ u.session = e.session /\ u.key = e.key
      /\ u.made = e.made /\ u.based = e.based /\ u.idle = e.idle /\ u.last = e.last /\ u.expire = e.expire
  BY <1>2 DEF CacheEntry
<1> HIDE DEF u
<1>4. ASSUME NEW f \in entries' PROVE EntryKept(f)'
  <2>1. CASE f \in entries
    <3>1. EntryKept(f)
      BY <2>1 DEF CacheInv
    <3> QED
      BY <1>1, <3>1 DEF EntryKept
  <2>2. CASE f = u
    BY <1>1, <1>2, <1>3, <2>2 DEF EntryKept
  <2> QED
    BY <1>1, <2>1, <2>2
<1>5. SameId'
  BY <1>1, <1>3 DEF CacheInv, SameId
<1>6. LookedUp'
  BY <1>1, NoLookupIs
<1>7. entries' \subseteq CacheEntry
  BY <1>1, <1>3 DEF CacheInv
<1> QED
  BY <1>1, <1>4, <1>5, <1>6, <1>7 DEF CacheInv

\* Deleting entries runs the callback of their data, once.
LEMMA DeleteKeeps ==
  ASSUME CacheInv, NEW D \in SUBSET entries, DeleteEntries(D), lookup' = NoLookup,
         made' = made, cacheClock' = cacheClock, open' \subseteq open,
         \A e \in entries \ D : e.session \in open'
  PROVE  CacheInv'
<1> DEFINE More(i) == IF \E e \in D : e.id = i /\ e.data THEN 1 ELSE 0
<1>1. /\ entries' = entries \ D
      /\ released' = [i \in 1..MaxEntries |-> released[i] + More(i)]
  BY DEF DeleteEntries
<1>2. released \in [1..MaxEntries -> 0..1] /\ made \in 0..MaxEntries /\ MaxEntries \in Nat
  BY EntriesAssumption DEF CacheInv
<1>3. ASSUME NEW i \in 1..MaxEntries
      PROVE  /\ released[i] \in 0..1 /\ More(i) \in 0..1 /\ (More(i) = 1 => released[i] = 0)
             /\ released'[i] = released[i] + More(i)
  <2>1. released[i] \in 0..1 /\ More(i) \in 0..1 /\ released'[i] = released[i] + More(i)
    BY <1>1, <1>2
  <2>2. ASSUME More(i) = 1 PROVE released[i] = 0
    <3>1. PICK e \in D : e.id = i
      BY <2>2
    <3>2. EntryKept(e)
      BY DEF CacheInv
    <3> QED
      BY <3>1, <3>2 DEF EntryKept
  <2> QED
    BY <2>1, <2>2
<1>4. ASSUME NEW i \in 1..MaxEntries, \A e \in D : e.id # i PROVE More(i) = 0
  BY <1>4
<1> HIDE DEF More
<1>5. released' \in [1..MaxEntries -> 0..1]
  <2>1. \A i \in 1..MaxEntries : released[i] + More(i) \in 0..1
    BY <1>3
  <2> QED
    BY <1>1, <2>1
<1>6. ASSUME NEW e \in entries' PROVE EntryKept(e)'
  <2>1. e \in entries /\ e \notin D /\ EntryKept(e)
    BY <1>1, <1>6 DEF CacheInv
  <2>2. \A d \in D : d.id # e.id
    BY <2>1 DEF CacheInv, SameId
  <2>3. e.id \in 1..MaxEntries
    BY <1>2, <2>1 DEF EntryKept
  <2>4. released'[e.id] = 0
    BY <1>3, <1>4, <2>1, <2>2, <2>3 DEF EntryKept
  <2>5. e.session \in open'
    BY <2>1
  <2> QED
    BY <2>1, <2>4, <2>5 DEF EntryKept
<1>7. ASSUME NEW i \in 1..MaxEntries, i > made PROVE released'[i] = 0
  <2>1. released[i] = 0
    BY <1>7 DEF CacheInv
  <2>2. \A e \in D : e.id # i
    <3>1. ASSUME NEW e \in D PROVE e.id # i
      <4>1. e.id \in 1..made
        BY DEF CacheInv, EntryKept
      <4> QED
        BY <1>2, <1>7, <4>1
    <3> QED
      BY <3>1
  <2> QED
    BY <1>3, <1>4, <2>1, <2>2
<1>8. SameId'
  BY <1>1 DEF CacheInv, SameId
<1>9. LookedUp'
  BY NoLookupIs
<1>10. entries' \subseteq CacheEntry /\ open' \subseteq CacheSessions
  BY <1>1 DEF CacheInv
<1> QED
  BY <1>5, <1>6, <1>7, <1>8, <1>9, <1>10 DEF CacheInv

LEMMA CacheNextInv ==
  ASSUME CacheInv, [CacheNext]_cachevars
  PROVE  CacheInv'
<1>1. ASSUME NEW s \in open, CloseSession(s) PROVE CacheInv'
  <2>1. EntriesOf(s) \in SUBSET entries
    BY DEF EntriesOf
  <2>2. \A e \in entries \ EntriesOf(s) : e.session \in open'
    BY <1>1 DEF CloseSession, EntriesOf, CacheInv, EntryKept
  <2> QED
    BY <1>1, <2>1, <2>2, DeleteKeeps DEF CloseSession
<1>2. ASSUME NEW s \in open, NEW q \in CacheRequests, NEW based \in BOOLEAN,
             GetByPdu(s, q, based)
      PROVE  CacheInv'
  BY <1>2, GetByPduKeeps
<1>3. ASSUME NEW s \in open, NEW q \in CacheRequests, NEW based \in BOOLEAN,
             NEW idle \in IdleTimes, NewEntry(s, q, based, idle)
      PROVE  CacheInv'
  BY <1>3, NewEntryKeeps
<1>4. ASSUME NEW e \in entries, SetAppData(e) PROVE CacheInv'
  BY <1>4, SetAppDataKeeps
<1>5. CASE ExpireEntries
  <2> DEFINE D == {e \in entries : Expired(e)}
  <2>1. /\ D \in SUBSET entries /\ DeleteEntries(D) /\ lookup' = NoLookup
        /\ made' = made /\ cacheClock' = cacheClock /\ open' = open
    BY <1>5 DEF ExpireEntries
  <2> HIDE DEF D
  <2>2. \A e \in entries \ D : e.session \in open'
    BY <2>1 DEF CacheInv, EntryKept
  <2> QED
    BY <2>1, <2>2, DeleteKeeps
<1>6. CASE CacheTick
  <2>1. /\ cacheClock' \in Nat /\ lookup' = NoLookup /\ entries' = entries
        /\ open' = open /\ made' = made /\ released' = released
    BY <1>6 DEF CacheTick, CacheInv
  <2>2. LookedUp'
    BY <2>1, NoLookupIs
  <2> QED
    BY <2>1, <2>2 DEF CacheInv, EntryKept, SameId
<1>7. CASE UNCHANGED cachevars
  BY <1>7 DEF cachevars, CacheInv, EntryKept, SameId, LookedUp
<1> QED
  BY <1>1, <1>2, <1>3, <1>4, <1>5, <1>6, <1>7, Zenon DEF CacheNext

LEMMA CacheInvGives ==
  ASSUME CacheInv
  PROVE  CacheExact
<1>1. HitMeansSame
  <2> SUFFICES ASSUME NEW hit \in lookup
      PROVE  /\ hit.based = hit.entry.based /\ hit.asked.body = hit.entry.made.body
             /\ AllKeys(hit.asked.opts) /\ AllKeys(hit.entry.made.opts)
                  => hit.asked.opts = hit.entry.made.opts
             /\ hit.based => Transport[hit.by] = Transport[hit.entry.session]
    BY DEF HitMeansSame
  <2>1. /\ hit.asked \in CacheRequests /\ hit.entry.made \in CacheRequests
        /\ hit.based \in BOOLEAN /\ hit.entry.based \in BOOLEAN
        /\ DeriveKey(hit.by, hit.asked, hit.based)
             = DeriveKey(hit.entry.session, hit.entry.made, hit.entry.based)
    BY DEF CacheInv, LookedUp
  <2>2. /\ hit.based = hit.entry.based /\ hit.asked.body = hit.entry.made.body
        /\ KeyParts(hit.asked.opts) = KeyParts(hit.entry.made.opts)
        /\ hit.based => Transport[hit.by] = Transport[hit.entry.session]
    BY <2>1, KeysTell
  <2>3. hit.asked.opts \in Options /\ hit.entry.made.opts \in Options
    BY <2>1, CacheRequestsAssumption
  <2> QED
    BY <2>2, <2>3, EqualKeys
<1>2. ASSUME NEW e \in entries
      PROVE  /\ e.session \in open /\ released[e.id] = 0
             /\ Expired(e) => e.last + e.idle <= cacheClock
  BY DEF CacheInv, EntryKept, Expired
<1>3. \A i \in DOMAIN released : released[i] <= 1
  BY DEF CacheInv
<1> QED
  BY <1>1, <1>2, <1>3 DEF CacheExact, EntriesKept

\* A hit answers with what was stored for the same body and, when the requests
\* have none that is left out of the key, the same options, asked for with a key
\* of the same kind and, if that is session-based, over the same transport, though
\* not always from the same session; an entry lives exactly as long as its
\* session and its idle time allow, and its data are released once
\* (coap_cache.c): for any requests, sessions and options to ignore.
THEOREM CacheAlwaysExact == CacheSpec => []CacheExact
<1>1. CacheInit => CacheInv
  BY CacheInitInv
<1>2. CacheInv /\ [CacheNext]_cachevars => CacheInv'
  BY CacheNextInv
<1>3. CacheInv => CacheExact
  BY CacheInvGives
<1> QED
  BY <1>1, <1>2, <1>3, PTL DEF CacheSpec

=============================================================================
