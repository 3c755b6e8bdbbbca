----------------------------- MODULE CoapCache -----------------------------
(* The request cache of src/coap_cache.c: deriving a key from a request,    *)
(* entries with an idle time, and the application data that hangs off them. *)
(* A request is the sequence of its options, ascending by number, and the    *)
(* body of a FETCH. The key is what is fed to the hash, which is taken to be *)
(* free of collisions: session, options and body are told apart in it.      *)
EXTENDS Integers, Sequences, FiniteSets, SequencesExt

CONSTANTS
  CacheSessions,  \* sessions; Transport gives the first bytes of their struct
  Transport,
  CacheRequests,  \* [opts, body]; the body is "" but for a FETCH that has one
  IgnoreOptions,  \* coap_cache_ignore_options()
  IdleTimes,      \* idle_timeout values an application uses, 0 for none
  MaxEntries,     \* bound on the entries ever made
  MaxCacheClock   \* bound on the clock

ASSUME IdleAssumption == IdleTimes \subseteq Nat
ASSUME EntriesAssumption == MaxEntries \in Nat

\* The options of a request.
Options == Seq([num : Nat, val : STRING])

ASSUME CacheRequestsAssumption ==
  \A q \in CacheRequests : q.opts \in Options /\ q.body \in STRING

VARIABLES
  entries,    \* context->cache
  open,       \* the sessions that exist
  made,       \* number of entries ever made
  released,   \* [entry id -> number of times its data's callback ran]
  cacheClock, \* coap_ticks()
  lookup      \* the hit of the last call, if it had one: who asked for what, how,
              \* and the entry that was found

cachevars == <<entries, open, made, released, cacheClock, lookup>>

NoLookup == {}

CacheInit ==
  /\ entries = {}
  /\ open = CacheSessions
  /\ made = 0
  /\ released = [i \in 1..MaxEntries |-> 0]
  /\ cacheClock = 0
  /\ lookup = NoLookup

-----------------------------------------------------------------------------
(* Keys.                                                                    *)

Observe == 6

\* NoCacheKey by its number, the Observe option, or one the user ignores.
IsCacheKey(n) == /\ (n % 32) \notin {28, 29}
                 /\ n # Observe
                 /\ n \notin IgnoreOptions

\* An option as it stands in the PDU: its number is a difference.
Delta(q, i) == q[i].num - (IF i = 1 THEN 0 ELSE q[i - 1].num)

\* What is fed to the hash of the first n options, and of all of them.
KeyParts(q) ==
  LET fed[n \in 0..Len(q)] ==
        IF n = 0 THEN <<>>
        ELSE IF IsCacheKey(q[n].num)
        THEN Append(fed[n - 1], [delta |-> Delta(q, n), val |-> q[n].val])
        ELSE fed[n - 1]
  IN fed[Len(q)]

\* The bytes at the session pointer, as many as a pointer has: proto and type.
SessionBytes(s, based) == IF based THEN {Transport[s]} ELSE {}

\* As it would be if an option replaced the ones before it.
DeriveKeyLast(s, q, based) ==
  [session |-> SessionBytes(s, based),
   parts |-> IF q.opts = <<>> THEN <<>> ELSE <<Last(q.opts).val>>, body |-> q.body]

DeriveKey(s, q, based) ==
  [session |-> SessionBytes(s, based), parts |-> KeyParts(q.opts), body |-> q.body]

-----------------------------------------------------------------------------
(* Entries.                                                                 *)

Touched(e) == IF e.idle > 0 THEN [e EXCEPT !.expire = cacheClock + e.idle] ELSE e

NewEntry(s, q, based, idle) ==
  /\ made < MaxEntries
  /\ made' = made + 1
  /\ entries' = entries \cup
       {[id |-> made + 1, key |-> DeriveKey(s, q, based), session |-> s, made |-> q,
         based |-> based, idle |-> idle, expire |-> IF idle > 0 THEN cacheClock + idle ELSE 0,
         last |-> cacheClock, data |-> FALSE]}
  /\ lookup' = NoLookup
  /\ UNCHANGED <<open, released, cacheClock>>

\* coap_cache_get_by_pdu(): finding an entry starts its idle time again.
GetByPdu(s, q, based) ==
  \E e \in entries :
    /\ e.key = DeriveKey(s, q, based)
    /\ entries' = (entries \ {e}) \cup {[Touched(e) EXCEPT !.last = cacheClock]}
    /\ lookup' = {[by |-> s, asked |-> q, based |-> based, entry |-> e]}
    /\ UNCHANGED <<open, made, released, cacheClock>>

SetAppData(e) ==
  /\ ~e.data /\ released[e.id] = 0
  /\ entries' = (entries \ {e}) \cup {[e EXCEPT !.data = TRUE]}
  /\ lookup' = NoLookup
  /\ UNCHANGED <<open, made, released, cacheClock>>

\* coap_delete_cache_entry() for every entry of D.
DeleteEntries(D) ==
  /\ entries' = entries \ D
  /\ released' = [i \in 1..MaxEntries |->
       released[i] + (IF \E e \in D : e.id = i /\ e.data THEN 1 ELSE 0)]

Expired(e) == e.idle > 0 /\ e.expire <= cacheClock

ExpireEntries ==
  /\ \E e \in entries : Expired(e)
  /\ DeleteEntries({e \in entries : Expired(e)})
  /\ lookup' = NoLookup
  /\ UNCHANGED <<open, made, cacheClock>>

\* coap_session_mfree(): the entries that name the session.
EntriesOf(s) == {e \in entries : e.session = s}

CloseSession(s) ==
  /\ open' = open \ {s}
  /\ DeleteEntries(EntriesOf(s))
  /\ lookup' = NoLookup
  /\ UNCHANGED <<made, cacheClock>>

CacheTick == /\ cacheClock < MaxCacheClock
             /\ cacheClock' = cacheClock + 1
             /\ lookup' = NoLookup
             /\ UNCHANGED <<entries, open, made, released>>

CacheNext ==
  \/ \E s \in open :
       \/ CloseSession(s)
       \/ \E q \in CacheRequests, based \in BOOLEAN :
            \/ GetByPdu(s, q, based)
            \/ \E idle \in IdleTimes : NewEntry(s, q, based, idle)
  \/ \E e \in entries : SetAppData(e)
  \/ ExpireEntries
  \/ CacheTick

CacheSpec == CacheInit /\ [][CacheNext]_cachevars

-----------------------------------------------------------------------------
(* Properties.                                                              *)

AllKeys(q) == \A i \in 1..Len(q) : IsCacheKey(q[i].num)

\* A hit means the same request, asked for in the same way: the same body, the
\* same options, as long as neither request carries one that is left out of the
\* key, and, when the key is based on the session, a session of the same
\* transport and type: which session it is does not go into the key, since the
\* bytes hashed are the struct's first, not the pointer's (coap_cache.c:83).
HitMeansSame ==
  \A hit \in lookup :
    LET q == hit.asked
        m == hit.entry.made
    IN /\ hit.based = hit.entry.based /\ q.body = m.body
       /\ AllKeys(q.opts) /\ AllKeys(m.opts) => q.opts = m.opts
       /\ hit.based => Transport[hit.by] = Transport[hit.entry.session]

\* No entry names a session that is gone, be it based on its session or not
\* (coap_new_cache_entry() sets the session of every entry, coap_cache.c:136);
\* its data are released once, when it goes; an entry that is in use does not
\* expire within its idle time.
EntriesKept ==
  /\ \A e \in entries : /\ e.session \in open /\ released[e.id] = 0
                        /\ Expired(e) => e.last + e.idle <= cacheClock
  /\ \A i \in DOMAIN released : released[i] <= 1

\* The cache answers with what was stored for the request, and keeps entries
\* exactly as long as their session and idle time allow (coap_cache.c).
CacheExact == HitMeansSame /\ EntriesKept
=============================================================================
