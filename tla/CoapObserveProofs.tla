------------------------ MODULE CoapObserveProofs ------------------------
(***************************************************************************)
(* Machine-checked proofs, for any sets of observers, sessions, resources  *)
(* and queries: the server never forgets a change, and the references of a *)
(* session are exact, with every fault of CoapObserve; subscriptions and   *)
(* their counters are exact but for the two faults that break them.        *)
(***************************************************************************)
EXTENDS CoapObserve, FiniteSetTheorems, TLAPS

-----------------------------------------------------------------------------
(* The inductive invariant.                                                *)

\* The part of the type invariant that the argument needs.
MarkTypes ==
  /\ resources \subseteq Resource
  /\ subscribers \in [Resource -> SUBSET Observer]
  /\ query \in [Observer -> Query]
  /\ obs_dirty \in [Observer -> BOOLEAN]
  /\ dirty \in [Resource -> BOOLEAN]
  /\ partiallydirty \in [Resource -> BOOLEAN]
  /\ observe_pending \in BOOLEAN
  /\ turn \subseteq Resource
  /\ visiting \in Resource \cup {Nothing}
  /\ todo \subseteq Observer
  /\ version \in [Resource -> [Query -> Nat]]
  /\ sent \in [Observer -> Nat]

\* An observer observes one resource, and the loop works on its own
\* resource's observers.
OneResource ==
  /\ \A r1, r2 \in Resource : \A o \in subscribers[r1] \cap subscribers[r2] :
       r1 = r2
  /\ \A r \in Resource : r # visiting => todo \cap subscribers[r] = {}
  /\ visiting = Nothing => todo = {}

\* A resource the loop is not working on.
Resting(r) ==
  /\ \A o \in subscribers[r] : /\ ~UpToDate(r, o) => dirty[r] \/ obs_dirty[o]
                               /\ obs_dirty[o] => partiallydirty[r]
  /\ dirty[r] \/ partiallydirty[r] => observe_pending \/ r \in turn

\* The resource the loop is working on: the observers it has passed are up to
\* date or marked themselves, because the resource's own mark will go.
Working(r) ==
  /\ \A o \in subscribers[r] \cap todo :
       ~UpToDate(r, o) => dirty[r] \/ obs_dirty[o]
  /\ \A o \in subscribers[r] \ todo :
       /\ ~UpToDate(r, o) => obs_dirty[o]
       /\ obs_dirty[o] => partiallydirty[r]
  /\ partiallydirty[r] => observe_pending

MarkInv ==
  /\ MarkTypes
  /\ OneResource
  /\ \A r \in resources : IF r = visiting THEN Working(r) ELSE Resting(r)

-----------------------------------------------------------------------------
(* Steps.                                                                  *)

\* Fewer observers, and nothing else that matters: the invariant stays.
LEMMA FewerObservers ==
  ASSUME MarkInv,
         subscribers' \in [Resource -> SUBSET Observer],
         \A r \in Resource : subscribers'[r] \subseteq subscribers[r],
         UNCHANGED <<resources, query, obs_dirty, flagvars, loopvars,
                     version, sent>>
  PROVE  MarkInv'
<1>1. MarkTypes'
  BY DEF MarkInv, MarkTypes, flagvars, loopvars
<1>2. OneResource'
  BY DEF MarkInv, MarkTypes, OneResource, loopvars
<1>3. ASSUME NEW r \in resources'
      PROVE  IF r = visiting' THEN Working(r)' ELSE Resting(r)'
  <2>1. r \in resources /\ r \in Resource
    BY <1>3 DEF MarkInv, MarkTypes
  <2>2. \A o \in subscribers'[r] : o \in subscribers[r]
    BY <2>1
  <2>3. \A o : UpToDate(r, o)' = UpToDate(r, o)
    BY DEF UpToDate
  <2>4. CASE r = visiting
    BY <2>1, <2>2, <2>3, <2>4 DEF MarkInv, Working, flagvars, loopvars
  <2>5. CASE r # visiting
    BY <2>1, <2>2, <2>3, <2>5 DEF MarkInv, Resting, flagvars, loopvars
  <2> QED BY <2>4, <2>5 DEF loopvars
<1> QED BY <1>1, <1>2, <1>3 DEF MarkInv

\* Drop() leaves fewer observers.
LEMMA DropFewer ==
  ASSUME MarkTypes, NEW gone, NEW ns, Drop(gone, ns)
  PROVE  /\ subscribers' \in [Resource -> SUBSET Observer]
         /\ \A r \in Resource : subscribers'[r] \subseteq subscribers[r]
BY DEF MarkTypes, Drop

\* Steps that only drop observers.
LEMMA DropStep ==
  ASSUME MarkInv,
         \/ \E o \in Observer : Deregister(o)
         \/ \E n \in tx : RecvAck(n) \/ GiveUp(n) \/ RecvRst(n)
         \/ \E s \in Session : Closed(s)
  PROVE  MarkInv'
<1>1. \E gone, ns : Drop(gone, ns)
  BY DEF Deregister, RecvAck, GiveUp, RecvRst, Closed
<1>2. UNCHANGED <<resources, query, obs_dirty, flagvars, loopvars, version,
                  sent>>
  BY DEF Deregister, RecvAck, GiveUp, RecvRst, Closed, histvars
<1> QED BY <1>1, <1>2, DropFewer, FewerObservers DEF MarkInv

\* A registration: the new observer is up to date.
LEMMA RegisterStep ==
  ASSUME MarkInv, NEW r0 \in Resource, NEW o0 \in Observer, NEW q \in Query,
         Register(r0, o0, q)
  PROVE  MarkInv'
<1>1. /\ Idle /\ todo = {}
      /\ o0 \in subscribers[r0] \/ o0 \notin Subscribed
  BY DEF Register, Idle, MarkInv, OneResource
<1>2. UNCHANGED <<resources, flagvars, loopvars, version>>
  BY DEF Register
<1>3. /\ query' = [query EXCEPT ![o0] = q]
      /\ sent' = [sent EXCEPT ![o0] = version[r0][q]]
      /\ \/ UNCHANGED <<subscribers, obs_dirty>>
         \/ /\ obs_dirty' = [obs_dirty EXCEPT ![o0] = FALSE]
            /\ \E old : subscribers' = [subscribers EXCEPT
                                          ![r0] = (@ \ old) \cup {o0}]
  BY DEF Register
<1>4. MarkTypes'
  <2>1. version[r0][q] \in Nat
    BY DEF MarkInv, MarkTypes
  <2>2. query' \in [Observer -> Query] /\ sent' \in [Observer -> Nat]
    BY <1>3, <2>1 DEF MarkInv, MarkTypes
  <2>3. obs_dirty' \in [Observer -> BOOLEAN]
    BY <1>3 DEF MarkInv, MarkTypes
  <2>4. subscribers' \in [Resource -> SUBSET Observer]
    <3>1. CASE UNCHANGED subscribers
      BY <3>1 DEF MarkInv, MarkTypes
    <3>2. ASSUME NEW old,
                 subscribers' = [subscribers EXCEPT
                                   ![r0] = (@ \ old) \cup {o0}]
          PROVE  subscribers' \in [Resource -> SUBSET Observer]
      <4>1. (subscribers[r0] \ old) \cup {o0} \in SUBSET Observer
        BY DEF MarkInv, MarkTypes
      <4> QED BY <3>2, <4>1 DEF MarkInv, MarkTypes
    <3> QED BY <1>3, <3>1, <3>2
  <2> QED BY <1>2, <2>2, <2>3, <2>4 DEF MarkInv, MarkTypes, flagvars, loopvars
<1>5. \A r \in Resource : \A o \in subscribers'[r] :
        \/ o \in subscribers[r] /\ o # o0
        \/ o = o0 /\ r = r0
  BY <1>1, <1>3 DEF MarkInv, MarkTypes, Subscribed, OneResource
<1>6. OneResource'
  BY <1>1, <1>2, <1>5 DEF MarkInv, OneResource, loopvars
<1>7. ASSUME NEW r \in resources'
      PROVE  IF r = visiting' THEN Working(r)' ELSE Resting(r)'
  <2>1. r \in resources /\ r \in Resource /\ Resting(r) /\ r # visiting'
    BY <1>1, <1>2, <1>7, ObserverAssumption
       DEF MarkInv, MarkTypes, Idle, flagvars, loopvars
  <2>2. ASSUME NEW o \in subscribers'[r], o # o0
        PROVE  /\ o \in subscribers[r]
               /\ UpToDate(r, o)' = UpToDate(r, o)
               /\ obs_dirty'[o] = obs_dirty[o]
    <3>1. o \in Observer /\ o \in subscribers[r]
      BY <1>5, <2>1, <2>2 DEF MarkInv, MarkTypes
    <3>2. query'[o] = query[o] /\ sent'[o] = sent[o]
      BY <1>3, <2>2, <3>1 DEF MarkInv, MarkTypes
    <3> QED BY <1>2, <1>3, <2>2, <3>1, <3>2
            DEF UpToDate, MarkInv, MarkTypes
  <2>3. ASSUME o0 \in subscribers'[r]
        PROVE  /\ UpToDate(r, o0)'
               /\ obs_dirty'[o0] => partiallydirty'[r]
    <3>1. r = r0
      BY <1>5, <2>1, <2>3
    <3>2. query'[o0] = q /\ sent'[o0] = version[r0][q]
      BY <1>3 DEF MarkInv, MarkTypes
    <3>3. UpToDate(r, o0)'
      BY <1>2, <3>1, <3>2 DEF UpToDate
    <3>4. obs_dirty'[o0] => obs_dirty[o0] /\ o0 \in subscribers[r0]
      BY <1>3, <2>3, <3>1 DEF MarkInv, MarkTypes
    <3> QED BY <1>2, <2>1, <3>1, <3>3, <3>4 DEF Resting, flagvars
  <2>4. ASSUME NEW o \in subscribers'[r]
        PROVE  /\ ~UpToDate(r, o)' => dirty'[r] \/ obs_dirty'[o]
               /\ obs_dirty'[o] => partiallydirty'[r]
    BY <1>2, <2>1, <2>2, <2>3, <2>4 DEF Resting, flagvars
  <2> QED BY <1>2, <2>1, <2>4 DEF Resting, flagvars, loopvars
<1> QED BY <1>4, <1>6, <1>7 DEF MarkInv

\* A change of all of a resource: it is marked if somebody observes it.
LEMMA ChangeAllStep ==
  ASSUME MarkInv, NEW r0 \in Resource, ChangeAll(r0)
  PROVE  MarkInv'
<1>1. /\ Idle
      /\ UNCHANGED <<resources, subscribers, query, obs_dirty,
                     partiallydirty, turn, visiting, todo, sent>>
      /\ version' = [version EXCEPT ![r0] = [q \in Query |-> @[q] + 1]]
  BY DEF ChangeAll, subvars, loopvars, histvars, flagvars
<1>2. \/ subscribers[r0] = {} /\ UNCHANGED <<dirty, observe_pending>>
      \/ dirty' = [dirty EXCEPT ![r0] = TRUE] /\ observe_pending' = TRUE
  BY DEF ChangeAll, flagvars
<1>3. MarkTypes'
  <2>1. [q \in Query |-> version[r0][q] + 1] \in [Query -> Nat]
    BY DEF MarkInv, MarkTypes
  <2>2. version' \in [Resource -> [Query -> Nat]]
    BY <1>1, <2>1 DEF MarkInv, MarkTypes
  <2>3. dirty' \in [Resource -> BOOLEAN] /\ observe_pending' \in BOOLEAN
    BY <1>2 DEF MarkInv, MarkTypes
  <2> QED BY <1>1, <2>2, <2>3 DEF MarkInv, MarkTypes
<1>4. OneResource'
  BY <1>1 DEF MarkInv, OneResource
<1>5. ASSUME NEW r \in resources'
      PROVE  IF r = visiting' THEN Working(r)' ELSE Resting(r)'
  <2>1. r \in Resource /\ Resting(r) /\ r # visiting'
    BY <1>1, <1>5, ObserverAssumption DEF MarkInv, MarkTypes, Idle
  <2>2. CASE r = r0
    BY <1>1, <1>2, <2>1, <2>2 DEF Resting, MarkInv, MarkTypes
  <2>3. CASE r # r0
    <3>1. \A o : UpToDate(r, o)' = UpToDate(r, o)
      BY <1>1, <2>1, <2>3 DEF UpToDate, MarkInv, MarkTypes
    <3>2. dirty'[r] = dirty[r] /\ (observe_pending => observe_pending')
      BY <1>2, <2>1, <2>3 DEF MarkInv, MarkTypes
    <3> QED BY <1>1, <2>1, <3>1, <3>2 DEF Resting
  <2> QED BY <2>1, <2>2, <2>3
<1> QED BY <1>3, <1>4, <1>5 DEF MarkInv

\* A change that one query sees: its observers are marked, unless they, or
\* the whole resource, are marked already.
LEMMA ChangeQueryStep ==
  ASSUME MarkInv, NEW r0 \in Resource, NEW q \in Query, ChangeQuery(r0, q)
  PROVE  MarkInv'
<1> DEFINE found == {o \in subscribers[r0] : query[o] = q}
           mark  == {o \in found : ~dirty[r0] /\ ~obs_dirty[o]}
<1>1. /\ Idle
      /\ UNCHANGED <<resources, subscribers, query, dirty, turn, visiting,
                     todo, sent>>
      /\ version' = [version EXCEPT ![r0][q] = @ + 1]
      /\ obs_dirty' = [o \in Observer |-> obs_dirty[o] \/ o \in mark]
      /\ partiallydirty' = [partiallydirty EXCEPT ![r0] = @ \/ mark # {}]
      /\ observe_pending' = (observe_pending \/ found # {})
  BY DEF ChangeQuery, loopvars, histvars
<1>2. MarkTypes'
  <2>1. version[r0][q] + 1 \in Nat
    BY DEF MarkInv, MarkTypes
  <2>2. version' \in [Resource -> [Query -> Nat]]
    BY <1>1, <2>1 DEF MarkInv, MarkTypes
  <2>3. \A o \in Observer : (obs_dirty[o] \/ o \in mark) \in BOOLEAN
    BY DEF MarkInv, MarkTypes
  <2>4. /\ obs_dirty' \in [Observer -> BOOLEAN]
        /\ partiallydirty' \in [Resource -> BOOLEAN]
        /\ observe_pending' \in BOOLEAN
    BY <1>1, <2>3 DEF MarkInv, MarkTypes
  <2> QED BY <1>1, <2>2, <2>4 DEF MarkInv, MarkTypes
<1>3. OneResource'
  BY <1>1 DEF MarkInv, OneResource
<1>4. ASSUME NEW r \in resources'
      PROVE  IF r = visiting' THEN Working(r)' ELSE Resting(r)'
  <2>1. r \in Resource /\ Resting(r) /\ r # visiting'
    BY <1>1, <1>4, ObserverAssumption DEF MarkInv, MarkTypes, Idle
  <2>2. ASSUME NEW o \in subscribers[r]
        PROVE  /\ ~UpToDate(r, o)' => dirty'[r] \/ obs_dirty'[o]
               /\ obs_dirty'[o] => partiallydirty'[r]
    <3>1. /\ o \in Observer /\ query[o] \in Query
          /\ obs_dirty'[o] = (obs_dirty[o] \/ o \in mark)
          /\ partiallydirty[r] => partiallydirty'[r]
      BY <1>1, <2>1 DEF MarkInv, MarkTypes
    <3>2. CASE r = r0 /\ query[o] = q
      <4>1. o \in mark \/ dirty[r] \/ obs_dirty[o]
        BY <3>2
      <4>2. o \in mark => partiallydirty'[r]
        BY <1>1, <2>1, <3>2 DEF MarkInv, MarkTypes
      <4> QED BY <1>1, <2>1, <3>1, <4>1, <4>2 DEF Resting
    <3>3. CASE ~(r = r0 /\ query[o] = q)
      <4>1. o \notin mark
        <5>1. CASE r # r0
          BY <2>1, <5>1 DEF MarkInv, OneResource
        <5> QED BY <3>3, <5>1
      <4>2. version'[r][query[o]] = version[r][query[o]]
        BY <1>1, <2>1, <3>1, <3>3 DEF MarkInv, MarkTypes
      <4>3. UpToDate(r, o)' = UpToDate(r, o)
        BY <1>1, <4>2 DEF UpToDate
      <4> QED BY <1>1, <2>1, <3>1, <4>1, <4>3 DEF Resting
    <3> QED BY <3>2, <3>3
  <2>3. dirty'[r] \/ partiallydirty'[r] => observe_pending' \/ r \in turn'
    <3>1. CASE r = r0 /\ mark # {}
      BY <1>1, <3>1
    <3>2. CASE ~(r = r0 /\ mark # {})
      <4>1. partiallydirty'[r] = partiallydirty[r]
        BY <1>1, <2>1, <3>2 DEF MarkInv, MarkTypes
      <4> QED BY <1>1, <2>1, <4>1 DEF Resting
    <3> QED BY <3>1, <3>2
  <2> QED BY <1>1, <2>1, <2>2, <2>3 DEF Resting
<1> QED BY <1>2, <1>3, <1>4 DEF MarkInv

\* The loop starts: what was pending is now a resource's turn.
LEMMA CheckNotifyStep ==
  ASSUME MarkInv, CheckNotify
  PROVE  MarkInv'
<1>1. /\ Idle /\ turn' = resources /\ observe_pending' = FALSE
      /\ UNCHANGED <<resources, subscribers, query, obs_dirty, dirty,
                     partiallydirty, visiting, todo, version, sent>>
  BY DEF CheckNotify, subvars, histvars
<1>2. MarkTypes' /\ OneResource'
  BY <1>1 DEF MarkInv, MarkTypes, OneResource
<1>3. ASSUME NEW r \in resources'
      PROVE  IF r = visiting' THEN Working(r)' ELSE Resting(r)'
  <2>1. Resting(r) /\ r # visiting'
    BY <1>1, <1>3, ObserverAssumption DEF MarkInv, MarkTypes, Idle
  <2>2. \A o : UpToDate(r, o)' = UpToDate(r, o)
    BY <1>1 DEF UpToDate
  <2> QED BY <1>1, <1>3, <2>1, <2>2 DEF Resting
<1> QED BY <1>2, <1>3 DEF MarkInv

\* The loop comes to a resource.
LEMMA VisitStep ==
  ASSUME MarkInv, NEW r0 \in Resource, Visit(r0)
  PROVE  MarkInv'
<1>1. /\ visiting = Nothing /\ todo = {} /\ visiting' = r0
      /\ turn' = turn \ {r0}
      /\ UNCHANGED <<resources, subscribers, query, obs_dirty, dirty,
                     observe_pending, version, sent>>
  BY DEF Visit, subvars, histvars, MarkInv, OneResource
<1>2. \/ /\ partiallydirty' = [partiallydirty EXCEPT ![r0] = FALSE]
         /\ todo' = subscribers[r0]
      \/ /\ ~dirty[r0] /\ ~partiallydirty[r0]
         /\ UNCHANGED <<partiallydirty, todo>>
  BY DEF Visit
<1>3. MarkTypes'
  <2>1. todo' \subseteq Observer
    BY <1>2 DEF MarkInv, MarkTypes
  <2>2. partiallydirty' \in [Resource -> BOOLEAN]
    BY <1>2 DEF MarkInv, MarkTypes
  <2> QED BY <1>1, <2>1, <2>2 DEF MarkInv, MarkTypes
<1>4. OneResource'
  <2>1. r0 # Nothing
    BY ObserverAssumption
  <2>2. \A r \in Resource : r # r0 => todo' \cap subscribers[r] = {}
    BY <1>1, <1>2 DEF MarkInv, OneResource
  <2> QED BY <1>1, <2>1, <2>2 DEF MarkInv, OneResource
<1>5. ASSUME NEW r \in resources'
      PROVE  IF r = visiting' THEN Working(r)' ELSE Resting(r)'
  <2>1. r \in Resource /\ Resting(r)
    BY <1>1, <1>5, ObserverAssumption DEF MarkInv, MarkTypes
  <2>2. \A o : UpToDate(r, o)' = UpToDate(r, o)
    BY <1>1 DEF UpToDate
  <2>3. CASE r = r0
    BY <1>1, <1>2, <2>1, <2>2, <2>3 DEF Resting, Working, MarkInv, MarkTypes
  <2>4. CASE r # r0
    <3>1. partiallydirty'[r] = partiallydirty[r]
      BY <1>2, <2>1, <2>4 DEF MarkInv, MarkTypes
    <3> QED BY <1>1, <2>1, <2>2, <2>4, <3>1 DEF Resting
  <2> QED BY <1>1, <2>3, <2>4
<1> QED BY <1>3, <1>4, <1>5 DEF MarkInv

\* The loop passes an observer o0 that is up to date afterwards, or marked
\* together with its resource; the others are left alone.
LEMMA PassStep ==
  ASSUME MarkInv, NEW o0 \in todo,
         MarkTypes',
         todo' = todo \ {o0},
         UNCHANGED <<resources, query, dirty, turn, visiting, version>>,
         \A r \in Resource : subscribers'[r] \subseteq subscribers[r],
         \A o \in Observer : o # o0 => /\ obs_dirty'[o] = obs_dirty[o]
                                       /\ sent'[o] = sent[o],
         \A r \in Resource : r # visiting =>
                               partiallydirty'[r] = partiallydirty[r],
         visiting \in resources =>
           /\ partiallydirty[visiting] => partiallydirty'[visiting]
           /\ o0 \in subscribers'[visiting] =>
                /\ ~UpToDate(visiting, o0)' => obs_dirty'[o0]
                /\ obs_dirty'[o0] => partiallydirty'[visiting]
           /\ partiallydirty'[visiting] =>
                partiallydirty[visiting] \/ observe_pending',
         observe_pending => observe_pending'
  PROVE  MarkInv'
<1>1. OneResource'
  BY DEF MarkInv, OneResource
<1>2. ASSUME NEW r \in resources'
      PROVE  IF r = visiting' THEN Working(r)' ELSE Resting(r)'
  <2>1. r \in resources /\ r \in Resource
    BY <1>2 DEF MarkInv, MarkTypes
  <2>2. ASSUME NEW o \in subscribers'[r], o # o0
        PROVE  /\ o \in subscribers[r]
               /\ UpToDate(r, o)' = UpToDate(r, o)
               /\ obs_dirty'[o] = obs_dirty[o]
    <3>1. o \in subscribers[r] /\ o \in Observer
      BY <2>1 DEF MarkInv, MarkTypes
    <3> QED BY <2>2, <3>1 DEF UpToDate
  <2>3. CASE r = visiting
    <3>1. Working(r)
      BY <2>1, <2>3 DEF MarkInv
    <3>2. ASSUME NEW o \in subscribers'[r] \cap todo'
          PROVE  ~UpToDate(r, o)' => dirty'[r] \/ obs_dirty'[o]
      BY <2>2, <3>1, <3>2 DEF Working
    <3>3. ASSUME NEW o \in subscribers'[r] \ todo'
          PROVE  /\ ~UpToDate(r, o)' => obs_dirty'[o]
                 /\ obs_dirty'[o] => partiallydirty'[r]
      <4>1. CASE o = o0
        BY <2>1, <2>3, <3>3, <4>1
      <4>2. CASE o # o0
        BY <2>1, <2>2, <2>3, <3>1, <3>3, <4>2 DEF Working
      <4> QED BY <4>1, <4>2
    <3>4. partiallydirty'[r] => observe_pending'
      BY <2>1, <2>3, <3>1 DEF Working
    <3> QED BY <2>3, <3>2, <3>3, <3>4 DEF Working
  <2>4. CASE r # visiting
    <3>1. Resting(r)
      BY <2>1, <2>4 DEF MarkInv
    <3>2. o0 \notin subscribers'[r]
      BY <2>1, <2>4 DEF MarkInv, OneResource
    <3>3. \A o \in subscribers'[r] : o # o0
      BY <3>2
    <3>4. \A o \in subscribers'[r] :
            /\ ~UpToDate(r, o)' => dirty'[r] \/ obs_dirty'[o]
            /\ obs_dirty'[o] => partiallydirty'[r]
      BY <2>1, <2>2, <2>4, <3>1, <3>3 DEF Resting
    <3> QED BY <2>1, <2>4, <3>1, <3>4 DEF Resting
  <2> QED BY <2>3, <2>4
<1> QED BY <1>1, <1>2 DEF MarkInv

\* An observer that has its notification already.
LEMMA SkipStep ==
  ASSUME MarkInv, NEW o0 \in Observer, Skip(o0)
  PROVE  MarkInv'
<1>1. /\ o0 \in todo /\ ~dirty[visiting] /\ ~obs_dirty[o0]
      /\ todo' = todo \ {o0} /\ observe_pending' = TRUE
      /\ UNCHANGED <<resources, subscribers, query, obs_dirty, dirty,
                     partiallydirty, turn, visiting, version, sent>>
  BY DEF Skip, subvars, histvars
<1>2. MarkTypes'
  BY <1>1 DEF MarkInv, MarkTypes
<1>3. visiting \in resources /\ o0 \in subscribers[visiting]
        => UpToDate(visiting, o0)
  BY <1>1 DEF MarkInv, Working
<1> QED BY <1>1, <1>2, <1>3, PassStep DEF UpToDate

\* An observer that has to wait keeps its mark.
LEMMA PostponeStep ==
  ASSUME MarkInv, NEW o0 \in Observer, Postpone(o0)
  PROVE  MarkInv'
<1>1. /\ o0 \in todo /\ todo' = todo \ {o0}
      /\ obs_dirty' = [obs_dirty EXCEPT ![o0] = TRUE]
      /\ partiallydirty' = [partiallydirty EXCEPT ![visiting] = TRUE]
      /\ observe_pending' = TRUE
      /\ UNCHANGED <<resources, subscribers, query, dirty, turn, visiting,
                     version, sent>>
  BY DEF Postpone, histvars
<1>2. MarkTypes'
  BY <1>1 DEF MarkInv, MarkTypes
<1>3. obs_dirty'[o0] /\ (visiting \in Resource => partiallydirty'[visiting])
  BY <1>1 DEF MarkInv, MarkTypes
<1>4. visiting \in resources => visiting \in Resource
  BY DEF MarkInv, MarkTypes
<1>5. /\ \A o \in Observer : o # o0 => obs_dirty'[o] = obs_dirty[o]
      /\ \A r \in Resource : r # visiting =>
                               partiallydirty'[r] = partiallydirty[r]
  BY <1>1 DEF MarkInv, MarkTypes
<1> QED BY <1>1, <1>2, <1>3, <1>4, <1>5, PassStep

\* An observer that is sent its notification, or whose mark is set again.
LEMMA NotifyStep ==
  ASSUME MarkInv, NEW o0 \in Observer, NEW ok \in BOOLEAN,
         NEW error \in BOOLEAN, Notify(o0, ok, error)
  PROVE  MarkInv'
<1> DEFINE v == version[visiting][query[o0]]
<1>1. /\ o0 \in todo /\ todo' = todo \ {o0}
      /\ obs_dirty' = [obs_dirty EXCEPT ![o0] = ~ok]
      /\ partiallydirty' = [partiallydirty EXCEPT ![visiting] = @ \/ ~ok]
      /\ observe_pending' = (observe_pending \/ ~ok)
      /\ sent' = [sent EXCEPT ![o0] = IF ok THEN v ELSE @]
      /\ UNCHANGED <<resources, query, dirty, turn, visiting, version>>
  BY DEF Notify
<1>2. \E out : subscribers' = [subscribers EXCEPT ![visiting] = @ \ out]
  BY DEF Notify
<1>3. visiting \in Resource /\ v \in Nat
  BY <1>1 DEF MarkInv, MarkTypes, OneResource
<1>4. MarkTypes'
  <2>1. subscribers' \in [Resource -> SUBSET Observer]
    BY <1>2, ZenonT(60) DEF MarkInv, MarkTypes
  <2>2. sent' \in [Observer -> Nat]
    BY <1>1, <1>3 DEF MarkInv, MarkTypes
  <2>3. (partiallydirty[visiting] \/ ~ok) \in BOOLEAN
    OBVIOUS
  <2>4. /\ obs_dirty' \in [Observer -> BOOLEAN]
        /\ partiallydirty' \in [Resource -> BOOLEAN]
        /\ observe_pending' \in BOOLEAN
    BY <1>1, <2>3 DEF MarkInv, MarkTypes
  <2> QED BY <1>1, <2>1, <2>2, <2>4 DEF MarkInv, MarkTypes
<1>5. \A r \in Resource : subscribers'[r] \subseteq subscribers[r]
  BY <1>2 DEF MarkInv, MarkTypes
<1>6. /\ \A o \in Observer : o # o0 => /\ obs_dirty'[o] = obs_dirty[o]
                                       /\ sent'[o] = sent[o]
      /\ \A r \in Resource : r # visiting =>
                               partiallydirty'[r] = partiallydirty[r]
      /\ partiallydirty'[visiting] = (partiallydirty[visiting] \/ ~ok)
      /\ obs_dirty'[o0] = ~ok
  BY <1>1, <1>3 DEF MarkInv, MarkTypes
<1>7. ok => UpToDate(visiting, o0)'
  <2>1. ok => sent'[o0] = v
    BY <1>1 DEF MarkInv, MarkTypes
  <2> QED BY <1>1, <2>1 DEF UpToDate
<1> QED BY <1>1, <1>4, <1>5, <1>6, <1>7, PassStep

\* The loop leaves a resource, whose mark goes.
LEMMA LeaveStep ==
  ASSUME MarkInv, Leave
  PROVE  MarkInv'
<1>1. /\ visiting \in Resource /\ todo = {}
      /\ dirty' = [dirty EXCEPT ![visiting] = FALSE]
      /\ visiting' = Nothing
      /\ UNCHANGED <<resources, subscribers, query, obs_dirty,
                     partiallydirty, observe_pending, turn, todo, version,
                     sent>>
  BY DEF Leave, subvars, histvars, MarkInv, MarkTypes
<1>2. MarkTypes' /\ OneResource'
  BY <1>1 DEF MarkInv, MarkTypes, OneResource
<1>3. ASSUME NEW r \in resources'
      PROVE  IF r = visiting' THEN Working(r)' ELSE Resting(r)'
  <2>1. r \in resources /\ r \in Resource /\ r # Nothing
    BY <1>1, <1>3, ObserverAssumption DEF MarkInv, MarkTypes
  <2>2. \A o : UpToDate(r, o)' = UpToDate(r, o)
    BY <1>1 DEF UpToDate
  <2>3. CASE r = visiting
    <3>1. Working(r) /\ ~dirty'[r]
      BY <1>1, <2>1, <2>3 DEF MarkInv, MarkTypes
    <3> QED BY <1>1, <2>1, <2>2, <3>1 DEF Working, Resting
  <2>4. CASE r # visiting
    <3>1. Resting(r) /\ dirty'[r] = dirty[r]
      BY <1>1, <2>1, <2>4 DEF MarkInv, MarkTypes
    <3> QED BY <1>1, <2>1, <2>2, <3>1 DEF Resting
  <2> QED BY <2>3, <2>4
<1> QED BY <1>2, <1>3 DEF MarkInv

\* A resource is deleted: nothing is claimed of it any more.
LEMMA DeleteStep ==
  ASSUME MarkInv, NEW r0 \in Resource, DeleteResource(r0)
  PROVE  MarkInv'
<1>1. /\ Idle /\ resources' = resources \ {r0}
      /\ dirty' = [dirty EXCEPT ![r0] = FALSE]
      /\ partiallydirty' = [partiallydirty EXCEPT ![r0] = FALSE]
      /\ observe_pending' \in BOOLEAN /\ (observe_pending => observe_pending')
      /\ UNCHANGED <<query, obs_dirty, turn, visiting, todo, version, sent>>
  BY DEF DeleteResource, loopvars, histvars
<1>2. /\ subscribers' \in [Resource -> SUBSET Observer]
      /\ \A r \in Resource : subscribers'[r] \subseteq subscribers[r]
  BY DropFewer DEF DeleteResource, MarkInv
<1>3. MarkTypes' /\ OneResource'
  <2>1. MarkTypes'
    BY <1>1, <1>2 DEF MarkInv, MarkTypes
  <2>2. OneResource'
    BY <1>1, <1>2 DEF MarkInv, OneResource
  <2> QED BY <2>1, <2>2
<1>4. ASSUME NEW r \in resources'
      PROVE  IF r = visiting' THEN Working(r)' ELSE Resting(r)'
  <2>1. r \in Resource /\ r # r0 /\ Resting(r) /\ r # visiting'
    BY <1>1, <1>4, ObserverAssumption DEF MarkInv, MarkTypes, Idle
  <2>2. \A o : UpToDate(r, o)' = UpToDate(r, o)
    BY <1>1 DEF UpToDate
  <2>3. dirty'[r] = dirty[r] /\ partiallydirty'[r] = partiallydirty[r]
    BY <1>1, <2>1 DEF MarkInv, MarkTypes
  <2> QED BY <1>1, <1>2, <2>1, <2>2, <2>3 DEF Resting
<1> QED BY <1>3, <1>4 DEF MarkInv

-----------------------------------------------------------------------------
(* The theorem.                                                            *)

\* Every step keeps the invariant.
LEMMA MarkStep ==
  ASSUME MarkInv, [ONext]_ovars
  PROVE  MarkInv'
<1>1. CASE Loop
  BY <1>1, CheckNotifyStep, VisitStep, SkipStep, PostponeStep, NotifyStep,
     LeaveStep DEF Loop
<1>2. CASE \E r \in Resource, o \in Observer, q \in Query : Register(r, o, q)
  BY <1>2, RegisterStep
<1>3. CASE \/ \E o \in Observer : Deregister(o)
           \/ \E n \in tx : Answer(n) \/ RecvRst(n)
           \/ \E s \in Session : Closed(s)
  BY <1>3, DropStep DEF Answer
<1>4. CASE \E r \in Resource : ChangeAll(r) \/ DeleteResource(r)
  BY <1>4, ChangeAllStep, DeleteStep
<1>5. CASE \E r \in Resource, q \in Query : ChangeQuery(r, q)
  BY <1>5, ChangeQueryStep
<1>6. CASE UNCHANGED ovars
  BY <1>6, FewerObservers
     DEF ovars, subvars, histvars, MarkInv, MarkTypes
<1> QED BY <1>1, <1>2, <1>3, <1>4, <1>5, <1>6 DEF ONext

\* No change of a resource is forgotten by coap_resource_notify_observers(),
\* coap_check_notify() and coap_notify_observers(), whatever is registered,
\* dropped, reset, lost or deleted in between.
THEOREM StaleIsMarkedHolds == OSpec => []StaleIsMarked
<1>1. OInit => MarkInv
  <2> SUFFICES ASSUME OInit PROVE MarkInv
    OBVIOUS
  <2>1. (CHOOSE q \in Query : TRUE) \in Query
    BY ObserverAssumption
  <2>2. MarkTypes
    BY <2>1 DEF OInit, MarkTypes
  <2>3. OneResource
    BY DEF OInit, OneResource
  <2>4. \A r \in resources : r # visiting /\ Resting(r)
    BY ObserverAssumption DEF OInit, Resting
  <2> QED BY <2>2, <2>3, <2>4 DEF MarkInv
<1>2. MarkInv /\ [ONext]_ovars => MarkInv'
  BY MarkStep
<1>3. MarkInv => StaleIsMarked
  BY ObserverAssumption DEF MarkInv, MarkTypes, StaleIsMarked, Idle, Resting
<1> QED BY <1>1, <1>2, <1>3, PTL DEF OSpec

-----------------------------------------------------------------------------
(* Subscriptions: the references of a session, duplicates, and runs of     *)
(* non-confirmable notifications.                                          *)

\* Besides the types and the references themselves: the send queue is finite,
\* and the loop only has observers before it that are still subscribed, so
\* that a handler's error releases a reference that was held.
SubInv == /\ ObserveTypeOK
          /\ IsFiniteSet(sendqueue)
          /\ visiting # Nothing => todo \subseteq subscribers[visiting]
          /\ ObserveRefExact

\* A non-confirmable notification that was sent has been counted.  Where
\* every notification is confirmable there is none.
RunCounted ==
  \A o \in Subscribed : /\ non_run[o] <= non_cnt[o]
                        /\ ConNotify = Resource => non_run[o] = 0

\* Cardinality of a set and of a part of it.
LEMMA CardPart ==
  ASSUME NEW X, IsFiniteSet(X), NEW Y \in SUBSET X
  PROVE  /\ Cardinality(X) = Cardinality(X \ Y) + Cardinality(Y)
         /\ Cardinality(X) \in Nat
         /\ Cardinality(Y) \in Nat
         /\ Cardinality(X \ Y) \in Nat
<1>1. /\ IsFiniteSet(Y) /\ IsFiniteSet(X \ Y)
      /\ Cardinality(Y) \in Nat /\ Cardinality(X \ Y) \in Nat
      /\ Cardinality(X) \in Nat
  BY FS_Subset, FS_CardinalityType
<1>2. (X \ Y) \cup Y = X /\ (X \ Y) \cap Y = {}
  OBVIOUS
<1>3. Cardinality((X \ Y) \cup Y)
        = Cardinality(X \ Y) + Cardinality(Y) - Cardinality((X \ Y) \cap Y)
  BY <1>1, FS_Union
<1>4. Cardinality((X \ Y) \cap Y) = 0
  BY <1>2, FS_EmptySet
<1>5. Cardinality(X) = Cardinality((X \ Y) \cup Y)
  BY <1>2
<1> QED BY <1>1, <1>3, <1>4, <1>5

\* The references of a session, split in two.
LEMMA HeldSplit ==
  ASSUME NEW s, NEW A \in SUBSET Observer, NEW C \in SUBSET A,
         NEW B, IsFiniteSet(B), NEW D \in SUBSET B
  PROVE  /\ Held(s, A, B) = Held(s, A \ C, B \ D) + Held(s, C, D)
         /\ Held(s, A, B) \in Nat
         /\ Held(s, A \ C, B \ D) \in Nat
         /\ Held(s, C, D) \in Nat
<1> DEFINE a == {o \in A : SessionOf[o] = s}
           c == {o \in C : SessionOf[o] = s}
           b == {n \in B : SessionOf[n[1]] = s}
           d == {n \in D : SessionOf[n[1]] = s}
<1>1. IsFiniteSet(a) /\ IsFiniteSet(b)
  BY ObserverAssumption, FS_Subset
<1>2. /\ c \in SUBSET a /\ d \in SUBSET b
      /\ {o \in A \ C : SessionOf[o] = s} = a \ c
      /\ {n \in B \ D : SessionOf[n[1]] = s} = b \ d
  OBVIOUS
<1>3. /\ Held(s, A, B) = Cardinality(a) + Cardinality(b)
      /\ Held(s, C, D) = Cardinality(c) + Cardinality(d)
      /\ Held(s, A \ C, B \ D) = Cardinality(a \ c) + Cardinality(b \ d)
  BY <1>2 DEF Held
<1> HIDE DEF a, b, c, d
<1>4. /\ Cardinality(a) = Cardinality(a \ c) + Cardinality(c)
      /\ Cardinality(a) \in Nat /\ Cardinality(c) \in Nat
      /\ Cardinality(a \ c) \in Nat
  BY <1>1, <1>2, CardPart
<1>5. /\ Cardinality(b) = Cardinality(b \ d) + Cardinality(d)
      /\ Cardinality(b) \in Nat /\ Cardinality(d) \in Nat
      /\ Cardinality(b \ d) \in Nat
  BY <1>1, <1>2, CardPart
<1> QED BY <1>3, <1>4, <1>5

\* The references when subscriptions and nodes go.
LEMMA HeldDrop ==
  ASSUME NEW s, NEW A \in SUBSET Observer, NEW C \in SUBSET A,
         NEW B, IsFiniteSet(B), NEW D \in SUBSET B
  PROVE  /\ Held(s, A \ C, B \ D) = Held(s, A, B) - Held(s, C, D)
         /\ Held(s, A \ C, B \ D) \in Nat
<1>1. /\ Held(s, A, B) = Held(s, A \ C, B \ D) + Held(s, C, D)
      /\ Held(s, A, B) \in Nat
      /\ Held(s, A \ C, B \ D) \in Nat
      /\ Held(s, C, D) \in Nat
  BY HeldSplit
<1> QED BY <1>1

\* References are counted by natural numbers.
LEMMA HeldNat ==
  ASSUME NEW s, NEW A \in SUBSET Observer, NEW B, IsFiniteSet(B)
  PROVE  Held(s, A, B) \in Nat
<1>1. A \in SUBSET A /\ B \in SUBSET B
  OBVIOUS
<1> QED BY <1>1, HeldSplit

\* One observer, or one node, holds a reference of its own session only.
LEMMA HeldOne ==
  ASSUME NEW s, NEW o, NEW n
  PROVE  /\ Held(s, {o}, {}) = IF SessionOf[o] = s THEN 1 ELSE 0
         /\ Held(s, {}, {n}) = IF SessionOf[n[1]] = s THEN 1 ELSE 0
         /\ Held(s, {}, {}) = 0
         /\ Held(s, {o}, {n}) = Held(s, {o}, {}) + Held(s, {}, {n})
<1>1. /\ {p \in {o} : SessionOf[p] = s} = IF SessionOf[o] = s THEN {o} ELSE {}
      /\ {p \in {n} : SessionOf[p[1]] = s}
           = IF SessionOf[n[1]] = s THEN {n} ELSE {}
      /\ {p \in {} : SessionOf[p] = s} = {}
      /\ {p \in {} : SessionOf[p[1]] = s} = {}
  OBVIOUS
<1>2. Cardinality({}) = 0 /\ Cardinality({o}) = 1 /\ Cardinality({n}) = 1
  BY FS_EmptySet, FS_Singleton
<1>3. /\ Cardinality({p \in {o} : SessionOf[p] = s})
           = IF SessionOf[o] = s THEN 1 ELSE 0
      /\ Cardinality({p \in {n} : SessionOf[p[1]] = s})
           = IF SessionOf[n[1]] = s THEN 1 ELSE 0
      /\ Cardinality({p \in {} : SessionOf[p] = s}) = 0
      /\ Cardinality({p \in {} : SessionOf[p[1]] = s}) = 0
  BY <1>1, <1>2
<1> QED BY <1>3 DEF Held

\* What the types say of the subscriptions.
LEMMA SubscribedFacts ==
  ASSUME ObserveTypeOK
  PROVE  /\ Subscribed \in SUBSET Observer
         /\ \A r \in Resource : subscribers[r] \in SUBSET Subscribed
         /\ \A o \in Subscribed : \E r \in Resource : o \in subscribers[r]
BY DEF ObserveTypeOK, Subscribed

\* Drop() releases what it removes.
LEMMA DropRefs ==
  ASSUME SubInv, NEW gone, NEW ns \in SUBSET sendqueue, Drop(gone, ns)
  PROVE  /\ subscribers' \in [Resource -> SUBSET Observer]
         /\ sendqueue' \subseteq Observer \X Nat
         /\ ref' \in [Session -> Int]
         /\ IsFiniteSet(sendqueue')
         /\ ObserveRefExact'
         /\ Subscribed' = Subscribed \ gone
<1> DEFINE C == gone \cap Subscribed
<1>0. ObserveTypeOK /\ IsFiniteSet(sendqueue) /\ Subscribed \in SUBSET Observer
  BY SubscribedFacts DEF SubInv
<1>1. /\ subscribers' \in [Resource -> SUBSET Observer]
      /\ sendqueue' \subseteq Observer \X Nat
      /\ sendqueue' = sendqueue \ ns
      /\ \A s \in Session : ref'[s] = ref[s] - Held(s, C, ns)
      /\ DOMAIN ref' = Session
  BY <1>0 DEF Drop, ObserveTypeOK
<1>2. IsFiniteSet(sendqueue')
  BY <1>0, <1>1, FS_Subset
<1>3. Subscribed' = Subscribed \ gone
  BY <1>0 DEF Drop, Subscribed, ObserveTypeOK
<1>4. C \in SUBSET Subscribed /\ Subscribed \ C = Subscribed \ gone
  OBVIOUS
<1> HIDE DEF C
<1>5. ASSUME NEW s \in Session
      PROVE  /\ ref'[s] = Held(s, Subscribed', sendqueue')
             /\ ref'[s] \in Int
  <2>1. ref[s] = Held(s, Subscribed, sendqueue)
    BY DEF SubInv, ObserveRefExact
  <2>2. /\ Held(s, Subscribed \ C, sendqueue \ ns)
             = Held(s, Subscribed, sendqueue) - Held(s, C, ns)
        /\ Held(s, Subscribed \ C, sendqueue \ ns) \in Nat
    BY <1>0, <1>4, HeldDrop
  <2>3. /\ Held(s, Subscribed', sendqueue')
             = Held(s, Subscribed \ C, sendqueue \ ns)
        /\ ref'[s] = ref[s] - Held(s, C, ns)
    BY <1>1, <1>3, <1>4
  <2> QED BY <2>1, <2>2, <2>3
<1>6. ref' \in [Session -> Int]
  <2>1. ref' = [s \in Session |-> ref'[s]]
    BY DEF Drop
  <2> QED BY <2>1, <1>5
<1>7. ObserveRefExact'
  BY <1>5 DEF ObserveRefExact, Held
<1> QED BY <1>1, <1>2, <1>3, <1>6, <1>7

\* The types that MarkTypes leaves out.
LEMMA RestTypes ==
  ASSUME MarkInv',
         non_cnt' \in [Observer -> 0..MaxNon],
         fail_cnt' \in [Observer -> 0..MaxFail],
         mid' \in [Observer -> Nat],
         con_active' \in [Session -> Nat],
         sendqueue' \subseteq Observer \X Nat,
         ref' \in [Session -> Int],
         tx' \subseteq Observer \X Nat,
         non_run' \in [Observer -> Nat],
         stale_use' \in BOOLEAN
  PROVE  ObserveTypeOK'
BY DEF MarkInv, MarkTypes, ObserveTypeOK

\* Steps between two loops that drop observers and nodes.
LEMMA DropSub ==
  ASSUME SubInv, MarkInv', Idle, NEW gone, NEW ns \in SUBSET sendqueue,
         Drop(gone, ns),
         con_active' \in [Session -> Nat],
         fail_cnt' \in [Observer -> 0..MaxFail],
         UNCHANGED <<non_cnt, mid, tx, loopvars, histvars>>
  PROVE  SubInv'
<1>1. /\ sendqueue' \subseteq Observer \X Nat
      /\ ref' \in [Session -> Int]
      /\ IsFiniteSet(sendqueue')
      /\ ObserveRefExact'
  BY DropRefs
<1>2. /\ non_cnt' \in [Observer -> 0..MaxNon]
      /\ mid' \in [Observer -> Nat]
      /\ tx' \subseteq Observer \X Nat
      /\ non_run' \in [Observer -> Nat]
      /\ stale_use' \in BOOLEAN
  BY DEF SubInv, ObserveTypeOK, histvars
<1>3. ObserveTypeOK'
  BY <1>1, <1>2, RestTypes
<1>4. visiting' = Nothing
  BY DEF Idle, loopvars
<1> QED BY <1>1, <1>3, <1>4 DEF SubInv

\* The slot count after a decrement.
LEMMA DecrementedNat ==
  ASSUME ObserveTypeOK, NEW s \in Session
  PROVE  Decremented(s) \in Nat
BY DEF ObserveTypeOK, Decremented

\* Requests, answers and deletions that drop observers.
LEMMA DropSteps ==
  ASSUME SubInv, MarkInv',
         \/ \E o \in Observer : Deregister(o)
         \/ \E n \in tx : RecvAck(n) \/ GiveUp(n) \/ RecvRst(n)
         \/ \E s \in Session : Closed(s)
         \/ \E r \in Resource : DeleteResource(r)
  PROVE  SubInv'
<1> USE ObserverAssumption, LimitAssumption
<1>a. /\ ObserveTypeOK
      /\ con_active \in [Session -> Nat]
      /\ fail_cnt \in [Observer -> 0..MaxFail]
      /\ \A n \in tx : n[1] \in Observer /\ SessionOf[n[1]] \in Session
  BY DEF SubInv, ObserveTypeOK
<1>b. \A s \in Session : [con_active EXCEPT ![s] = Decremented(s)]
                           \in [Session -> Nat]
  BY <1>a, DecrementedNat
<1>c. {} \in SUBSET sendqueue /\ \A ms : NodesOf(ms) \in SUBSET sendqueue
  BY DEF NodesOf
<1>1. ASSUME NEW o \in Observer, Deregister(o) PROVE SubInv'
  <2>1. /\ Idle /\ Drop({o}, {})
        /\ UNCHANGED <<non_cnt, mid, tx, loopvars, histvars>>
        /\ UNCHANGED <<con_active, fail_cnt>>
    BY <1>1 DEF Deregister
  <2> QED BY <2>1, <1>a, <1>c, DropSub
<1>2. ASSUME NEW n \in tx, RecvAck(n) PROVE SubInv'
  <2>1. /\ Idle /\ Drop({}, {n}) /\ n \in sendqueue
        /\ UNCHANGED <<non_cnt, mid, tx, loopvars, histvars>>
        /\ con_active' = [con_active EXCEPT ![SessionOf[n[1]]] =
                            Decremented(SessionOf[n[1]])]
        /\ fail_cnt' = [fail_cnt EXCEPT ![n[1]] = 0]
    BY <1>2 DEF RecvAck
  <2>2. con_active' \in [Session -> Nat]
    BY <2>1, <1>a, <1>b
  <2>3. fail_cnt' \in [Observer -> 0..MaxFail]
    BY <2>1, <1>a
  <2>4. {n} \in SUBSET sendqueue
    BY <2>1
  <2> QED BY <2>1, <2>2, <2>3, <2>4, DropSub
<1>3. ASSUME NEW n \in tx, RecvRst(n) PROVE SubInv'
  <2>1. /\ Idle
        /\ UNCHANGED <<non_cnt, mid, tx, loopvars, histvars>>
        /\ UNCHANGED fail_cnt
        /\ con_active' = [con_active EXCEPT ![SessionOf[n[1]]] =
                            Decremented(SessionOf[n[1]])]
    BY <1>3 DEF RecvRst
  <2>2. con_active' \in [Session -> Nat]
    BY <2>1, <1>a, <1>b
  <2>3. \/ Drop({n[1]}, NodesOf({n[1]}))
        \/ n \in sendqueue /\ Drop({}, {n})
        \/ Drop({n[1]}, {})
        \/ Drop({}, {})
    BY <1>3 DEF RecvRst
  <2>4. \E gone, ns : ns \in SUBSET sendqueue /\ Drop(gone, ns)
    <3>1. n \in sendqueue => {n} \in SUBSET sendqueue
      OBVIOUS
    <3> QED BY <2>3, <1>c, <3>1
  <2> QED BY <2>1, <2>2, <2>4, <1>a, DropSub
<1>4. ASSUME NEW n \in tx, GiveUp(n) PROVE SubInv'
  <2> DEFINE o == n[1]
             fails == o \in Subscribed /\ fail_cnt[o] < MaxFail
  <2>1. /\ Idle /\ n \in sendqueue
        /\ UNCHANGED <<non_cnt, mid, tx, loopvars, histvars>>
        /\ fail_cnt' = [fail_cnt EXCEPT ![o] = IF fails THEN @ + 1 ELSE 0]
        /\ con_active' = [con_active EXCEPT ![SessionOf[o]] =
                            Decremented(SessionOf[o])]
        /\ Drop({o}, NodesOf({o})) \/ Drop({}, {n})
    BY <1>4 DEF GiveUp
  <2>2. con_active' \in [Session -> Nat]
    BY <2>1, <1>a, <1>b
  <2>3. fail_cnt' \in [Observer -> 0..MaxFail]
    <3>1. (IF fails THEN fail_cnt[o] + 1 ELSE 0) \in 0..MaxFail
      BY <1>a
    <3> HIDE DEF fails
    <3> QED BY <2>1, <3>1, <1>a
  <2>4. \E gone, ns : ns \in SUBSET sendqueue /\ Drop(gone, ns)
    <3>1. {n} \in SUBSET sendqueue
      BY <2>1
    <3> QED BY <2>1, <1>c, <3>1
  <2> QED BY <2>1, <2>2, <2>3, <2>4, DropSub
<1>5. ASSUME NEW s \in Session, Closed(s) PROVE SubInv'
  <2>1. /\ Idle
        /\ UNCHANGED <<non_cnt, mid, tx, loopvars, histvars>>
        /\ UNCHANGED fail_cnt
        /\ con_active' = [con_active EXCEPT ![s] = 0]
        /\ \E own : Drop(own, NodesOf(own))
    BY <1>5 DEF Closed
  <2>2. con_active' \in [Session -> Nat]
    BY <2>1, <1>a
  <2> QED BY <2>1, <2>2, <1>a, <1>c, DropSub
<1>6. ASSUME NEW r \in Resource, DeleteResource(r) PROVE SubInv'
  <2>1. /\ Idle /\ Drop(subscribers[r], {})
        /\ UNCHANGED <<non_cnt, mid, tx, loopvars, histvars>>
        /\ UNCHANGED <<con_active, fail_cnt>>
    BY <1>6 DEF DeleteResource
  <2> QED BY <2>1, <1>a, <1>c, DropSub
<1> QED BY <1>1, <1>2, <1>3, <1>4, <1>5, <1>6

\* A step that leaves subscriptions, nodes, references and counters alone.
LEMMA SameSub ==
  ASSUME SubInv, MarkInv',
         UNCHANGED <<subscribers, non_cnt, fail_cnt, mid, con_active,
                     sendqueue, ref, tx, non_run, stale_use>>,
         visiting' # Nothing => todo' \subseteq subscribers[visiting']
  PROVE  SubInv'
<1>1. ObserveTypeOK'
  BY RestTypes DEF SubInv, ObserveTypeOK
<1>2. ObserveRefExact'
  BY DEF SubInv, ObserveRefExact, Held, Subscribed
<1> QED BY <1>1, <1>2 DEF SubInv

\* Changes, and the loop up to the notifications.
LEMMA SameSteps ==
  ASSUME SubInv, MarkInv, MarkInv',
         \/ \E r \in Resource : ChangeAll(r) \/ Visit(r)
         \/ \E r \in Resource, q \in Query : ChangeQuery(r, q)
         \/ \E o \in Observer : Skip(o) \/ Postpone(o)
         \/ CheckNotify \/ Leave
         \/ UNCHANGED ovars
  PROVE  SubInv'
<1>a. /\ visiting # Nothing => todo \subseteq subscribers[visiting]
      /\ visiting = Nothing => todo = {}
  BY DEF SubInv, MarkInv, OneResource
<1>1. CASE \/ \E r \in Resource : ChangeAll(r)
           \/ \E r \in Resource, q \in Query : ChangeQuery(r, q)
           \/ CheckNotify
           \/ UNCHANGED ovars
  <2>1. /\ UNCHANGED <<subscribers, non_cnt, fail_cnt, mid, con_active,
                       sendqueue, ref, tx, non_run, stale_use>>
        /\ UNCHANGED <<visiting, todo>>
    BY <1>1 DEF ChangeAll, ChangeQuery, CheckNotify, ovars, subvars,
       msgvars, loopvars, histvars
  <2> QED BY <2>1, <1>a, SameSub
<1>2. ASSUME NEW r \in Resource, Visit(r) PROVE SubInv'
  <2>1. /\ UNCHANGED <<subscribers, non_cnt, fail_cnt, mid, con_active,
                       sendqueue, ref, tx, non_run, stale_use>>
        /\ visiting = Nothing /\ visiting' = r
        /\ todo' = subscribers[r] \/ todo' = todo
    BY <1>2 DEF Visit, subvars, msgvars, histvars
  <2> QED BY <2>1, <1>a, SameSub
<1>3. ASSUME NEW o \in Observer, Skip(o) \/ Postpone(o) PROVE SubInv'
  <2>1. /\ UNCHANGED <<subscribers, non_cnt, fail_cnt, mid, con_active,
                       sendqueue, ref, tx, non_run, stale_use>>
        /\ visiting' = visiting /\ todo' = todo \ {o}
    BY <1>3 DEF Skip, Postpone, subvars, msgvars, histvars
  <2> QED BY <2>1, <1>a, SameSub
<1>4. CASE Leave
  <2>1. /\ UNCHANGED <<subscribers, non_cnt, fail_cnt, mid, con_active,
                       sendqueue, ref, tx, non_run, stale_use>>
        /\ visiting' = Nothing
    BY <1>4 DEF Leave, subvars, msgvars, histvars
  <2> QED BY <2>1, SameSub
<1> QED BY <1>1, <1>2, <1>3, <1>4

\* A registration takes a reference for the new subscription and releases the
\* one of the subscription it replaces.
LEMMA RegisterSub ==
  ASSUME SubInv, MarkInv, MarkInv', NEW r \in Resource, NEW o \in Observer,
         NEW q \in Query, Register(r, o, q)
  PROVE  SubInv'
<1> USE ObserverAssumption, LimitAssumption
<1> DEFINE old == Twins(r, o, q)
<1>a. /\ ObserveTypeOK /\ IsFiniteSet(sendqueue)
      /\ ObserveRefExact /\ Subscribed \in SUBSET Observer
      /\ \A z \in Resource : subscribers[z] \in SUBSET Subscribed
  BY SubscribedFacts DEF SubInv
<1>b. /\ Idle
      /\ o \in subscribers[r] \/ o \notin Subscribed
      /\ fail_cnt' = [fail_cnt EXCEPT ![o] = 0]
      /\ non_run' = [non_run EXCEPT ![o] = 0]
      /\ UNCHANGED <<con_active, sendqueue, tx, visiting, todo, stale_use>>
  BY DEF Register, msgvars, loopvars
<1>c. /\ fail_cnt' \in [Observer -> 0..MaxFail]
      /\ non_run' \in [Observer -> Nat]
      /\ con_active' \in [Session -> Nat]
      /\ sendqueue' \subseteq Observer \X Nat
      /\ tx' \subseteq Observer \X Nat
      /\ stale_use' \in BOOLEAN
      /\ IsFiniteSet(sendqueue')
      /\ visiting' = Nothing
  BY <1>a, <1>b DEF ObserveTypeOK, Idle
<1>1. CASE o \in subscribers[r]
  <2>1. UNCHANGED <<subscribers, non_cnt, mid, ref>>
    BY <1>1 DEF Register
  <2>2. ObserveTypeOK'
    BY <2>1, <1>a, <1>c, RestTypes DEF ObserveTypeOK
  <2>3. ObserveRefExact'
    BY <2>1, <1>a, <1>b DEF ObserveRefExact, Held, Subscribed
  <2> QED BY <2>2, <2>3, <1>c DEF SubInv
<1>2. CASE o \notin subscribers[r]
  <2>1. /\ subscribers' = [subscribers EXCEPT ![r] = (@ \ old) \cup {o}]
        /\ non_cnt' = [non_cnt EXCEPT ![o] = 0]
        /\ mid' = [mid EXCEPT ![o] = 0]
        /\ ref' = [s \in Session |->
                     ref[s] + Held(s, {o}, {}) - Held(s, old, {})]
    BY <1>2 DEF Register
  <2>2. /\ non_cnt' \in [Observer -> 0..MaxNon]
        /\ mid' \in [Observer -> Nat]
    BY <2>1, <1>a DEF ObserveTypeOK
  <2>3. /\ old \in SUBSET subscribers[r]
        /\ o \notin Subscribed
    BY <1>2, <1>b DEF Twins
  <2>4. Subscribed' = (Subscribed \ old) \cup {o}
    <3>1. \A z \in Resource : z # r => subscribers'[z] = subscribers[z]
                                       /\ subscribers[z] \cap old = {}
      BY <2>1, <2>3, <1>a DEF ObserveTypeOK, MarkInv, OneResource
    <3>2. subscribers'[r] = (subscribers[r] \ old) \cup {o}
      BY <2>1, <1>a DEF ObserveTypeOK
    <3>3. Subscribed' \subseteq (Subscribed \ old) \cup {o}
      BY <3>1, <3>2 DEF Subscribed
    <3>4. (Subscribed \ old) \cup {o} \subseteq Subscribed'
      BY <3>1, <3>2 DEF Subscribed
    <3> QED BY <3>3, <3>4
  <2> HIDE DEF old
  <2>5. ASSUME NEW s \in Session
        PROVE  /\ ref'[s] = Held(s, Subscribed', sendqueue')
               /\ ref'[s] \in Int
    <3> DEFINE A == (Subscribed \ old) \cup {o}
               none == {}
               one == {o}
    <3>1. /\ old \in SUBSET Subscribed /\ none \in SUBSET sendqueue
          /\ one \in SUBSET A /\ A \in SUBSET Observer
      BY <2>3, <1>a
    <3>a. /\ A \ one = Subscribed \ old
          /\ sendqueue \ none = sendqueue
      BY <2>3, <1>a
    <3> HIDE DEF A, none, one
    <3>2. Held(s, Subscribed \ old, sendqueue \ none)
            = Held(s, Subscribed, sendqueue) - Held(s, old, none)
      BY <3>1, <1>a, HeldDrop
    <3>3. /\ Held(s, A \ one, sendqueue \ none)
               = Held(s, A, sendqueue) - Held(s, one, none)
          /\ Held(s, A, sendqueue) \in Nat
          /\ Held(s, one, none) \in Nat
      <4>1. one \in SUBSET Observer /\ IsFiniteSet(none)
        BY FS_EmptySet DEF one, none
      <4> QED BY <3>1, <4>1, <1>a, HeldDrop, HeldNat
    <3>4. /\ Held(s, Subscribed, sendqueue) \in Nat
          /\ Held(s, old, none) \in Nat
      BY <3>1, <1>a, HeldSplit
    <3>5. ref[s] = Held(s, Subscribed, sendqueue)
      BY <1>a DEF ObserveRefExact
    <3>6. ref'[s] = ref[s] + Held(s, one, none) - Held(s, old, none)
      BY <2>1 DEF one, none
    <3>7. Held(s, A \ one, sendqueue \ none)
            = Held(s, Subscribed \ old, sendqueue \ none)
      BY <3>a
    <3>8. ref'[s] = Held(s, A, sendqueue)
      BY <3>2, <3>3, <3>4, <3>5, <3>6, <3>7
    <3>9. Held(s, Subscribed', sendqueue') = Held(s, A, sendqueue)
      BY <2>4, <1>b DEF A
    <3> QED BY <3>3, <3>8, <3>9
  <2>6. ref' \in [Session -> Int]
    <3>1. ref' = [s \in Session |-> ref'[s]]
      BY <2>1
    <3> QED BY <3>1, <2>5
  <2>7. ObserveTypeOK'
    BY <2>2, <2>6, <1>c, RestTypes
  <2>8. ObserveRefExact'
    BY <2>5 DEF ObserveRefExact, Held
  <2> QED BY <2>7, <2>8, <1>c DEF SubInv
<1> QED BY <1>1, <1>2

\* A notification: a new node takes a reference, and a subscription that the
\* handler's error deletes releases its own.
LEMMA NotifySub ==
  ASSUME SubInv, MarkInv, MarkInv', NEW o \in Observer, NEW ok \in BOOLEAN,
         NEW error \in BOOLEAN, Notify(o, ok, error)
  PROVE  SubInv'
<1> USE ObserverAssumption, LimitAssumption
<1> DEFINE r   == visiting
           s   == SessionOf[o]
           v   == version[r][query[o]]
           con == SentAsCon(r, o)
           new == IF ok /\ con THEN {<<o, v>>} ELSE {}
           out == IF error THEN {o} ELSE {}
           fresh == new \ sendqueue
<1>a. /\ ObserveTypeOK /\ IsFiniteSet(sendqueue)
      /\ ObserveRefExact /\ Subscribed \in SUBSET Observer
      /\ \A z \in Resource : subscribers[z] \in SUBSET Subscribed
  BY SubscribedFacts DEF SubInv
<1>b. /\ o \in todo
      /\ todo' = todo \ {o}
      /\ mid' = [mid EXCEPT ![o] = v]
      /\ non_cnt' = [non_cnt EXCEPT ![o] = IF con THEN 0 ELSE @ + 1]
      /\ con_active' = [con_active EXCEPT ![s] = @ + Cardinality(new)]
      /\ subscribers' = [subscribers EXCEPT ![r] = @ \ out]
      /\ sendqueue' = sendqueue \cup new
      /\ ref' = [ref EXCEPT ![s] = @ + Cardinality(fresh) - Cardinality(out)]
      /\ tx' = IF ok THEN tx \cup {<<o, v>>} ELSE tx
      /\ non_run' = [non_run EXCEPT ![o] = IF ~ok THEN @ ELSE IF con THEN 0
                                           ELSE @ + 1]
      /\ stale_use' = (stale_use \/ error)
      /\ UNCHANGED <<fail_cnt, visiting>>
  BY DEF Notify
<1>c. /\ r \in Resource /\ o \in subscribers[r] /\ s \in Session
      /\ todo \subseteq subscribers[r] /\ v \in Nat
  <2>1. visiting \in Resource
    BY <1>a, <1>b DEF MarkInv, OneResource, ObserveTypeOK
  <2>2. todo \subseteq subscribers[visiting]
    BY <2>1 DEF SubInv
  <2> QED BY <2>1, <2>2, <1>a, <1>b DEF ObserveTypeOK
<1>d. /\ new \subseteq {<<o, v>>} /\ new \subseteq Observer \X Nat
      /\ out \subseteq {o} /\ out \in SUBSET Subscribed
      /\ fresh = {} \/ fresh = {<<o, v>>}
      /\ out = {} \/ out = {o}
      /\ new = {} \/ new = {<<o, v>>}
  BY <1>a, <1>c
<1>e. ~con => non_cnt[o] < MaxNon
  BY <1>a DEF SentAsCon, ObserveTypeOK
<1>f. /\ Cardinality({}) = 0 /\ Cardinality({<<o, v>>}) = 1
      /\ Cardinality({o}) = 1
  BY FS_EmptySet, FS_Singleton
<1> HIDE DEF r, s, v, con, new, out, fresh
<1>1. non_cnt' \in [Observer -> 0..MaxNon]
  <2>1. (IF con THEN 0 ELSE non_cnt[o] + 1) \in 0..MaxNon
    BY <1>a, <1>e DEF ObserveTypeOK
  <2> QED BY <2>1, <1>a, <1>b DEF ObserveTypeOK
<1>2. mid' \in [Observer -> Nat] /\ fail_cnt' \in [Observer -> 0..MaxFail]
  BY <1>a, <1>b, <1>c DEF ObserveTypeOK
<1>3. con_active' \in [Session -> Nat]
  <2>1. Cardinality(new) \in Nat
    BY <1>d, <1>f, SMTT(30)
  <2> QED BY <2>1, <1>a, <1>b, <1>c DEF ObserveTypeOK
<1>4. sendqueue' \subseteq Observer \X Nat /\ tx' \subseteq Observer \X Nat
  <2>1. <<o, v>> \in Observer \X Nat
    BY <1>c
  <2> QED BY <2>1, <1>a, <1>b, <1>d DEF ObserveTypeOK
<1>5. non_run' \in [Observer -> Nat] /\ stale_use' \in BOOLEAN
  <2>1. (IF ~ok THEN non_run[o] ELSE IF con THEN 0 ELSE non_run[o] + 1) \in Nat
    BY <1>a DEF ObserveTypeOK
  <2>2. (stale_use \/ error) \in BOOLEAN
    OBVIOUS
  <2> QED BY <2>1, <2>2, <1>a, <1>b DEF ObserveTypeOK
<1>6. IsFiniteSet(sendqueue')
  <2>1. IsFiniteSet(new)
    <3>1. CASE new = {}
      BY <3>1, FS_EmptySet
    <3>2. CASE new = {<<o, v>>}
      BY <3>2, FS_Singleton
    <3> QED BY <3>1, <3>2, <1>d
  <2> QED BY <2>1, <1>a, <1>b, FS_Union
<1>7. Subscribed' = Subscribed \ out
  <2>1. \A z \in Resource : z # r => subscribers'[z] = subscribers[z]
                                     /\ subscribers[z] \cap out = {}
    BY <1>a, <1>b, <1>c, <1>d DEF ObserveTypeOK, MarkInv, OneResource
  <2>2. subscribers'[r] = subscribers[r] \ out
    BY <1>a, <1>b, <1>c DEF ObserveTypeOK
  <2>3. Subscribed' \subseteq Subscribed \ out
    BY <2>1, <2>2 DEF Subscribed
  <2>4. Subscribed \ out \subseteq Subscribed'
    BY <2>1, <2>2 DEF Subscribed
  <2> QED BY <2>3, <2>4
<1>8. ASSUME NEW z \in Session
      PROVE  /\ ref'[z] = Held(z, Subscribed', sendqueue')
             /\ ref'[z] \in Int
  <2> DEFINE none == {}
             A == Subscribed \ out
             B == sendqueue \cup new
  <2>1. /\ none \in SUBSET sendqueue /\ none \in SUBSET A
        /\ fresh \in SUBSET B
        /\ A \in SUBSET Observer /\ IsFiniteSet(B)
    BY <1>a, <1>b, <1>6 DEF fresh
  <2>a. /\ sendqueue \ none = sendqueue /\ A \ none = A
        /\ B \ fresh = sendqueue
    BY DEF fresh
  <2> HIDE DEF none, B
  <2>2. /\ Held(z, A, sendqueue \ none)
             = Held(z, Subscribed, sendqueue) - Held(z, out, none)
    BY <2>1, <1>a, <1>d, HeldDrop
  <2>3. Held(z, Subscribed, sendqueue) \in Nat
    BY <2>1, <1>a, <1>d, HeldSplit
  <2> HIDE DEF A
  <2>4. /\ Held(z, A \ none, B \ fresh) = Held(z, A, B) - Held(z, none, fresh)
        /\ Held(z, A, B) \in Nat
    BY <2>1, HeldDrop, HeldNat
  <2>5. Held(z, out, none) = IF s = z THEN Cardinality(out) ELSE 0
    <3>1. CASE out = {}
      <4>1. Held(z, {}, {}) = 0
        BY HeldOne
      <4> QED BY <3>1, <4>1, <1>f DEF none
    <3>2. CASE out = {o}
      <4>1. Held(z, {o}, {}) = IF SessionOf[o] = z THEN 1 ELSE 0
        BY HeldOne
      <4> QED BY <3>2, <4>1, <1>f DEF none, s
    <3> QED BY <3>1, <3>2, <1>d
  <2>6. Held(z, none, fresh) = IF s = z THEN Cardinality(fresh) ELSE 0
    <3>1. CASE fresh = {}
      <4>1. Held(z, {}, {}) = 0
        BY HeldOne
      <4> QED BY <3>1, <4>1, <1>f DEF none
    <3>2. CASE fresh = {<<o, v>>}
      <4>1. Held(z, {}, {<<o, v>>})
              = IF SessionOf[<<o, v>>[1]] = z THEN 1 ELSE 0
        BY HeldOne
      <4>2. <<o, v>>[1] = o
        OBVIOUS
      <4> QED BY <3>2, <4>1, <4>2, <1>f DEF none, s
    <3> QED BY <3>1, <3>2, <1>d
  <2>7. /\ Cardinality(out) \in Nat /\ Cardinality(fresh) \in Nat
    <3>1. /\ Cardinality(out) = 0 \/ Cardinality(out) = 1
          /\ Cardinality(fresh) = 0 \/ Cardinality(fresh) = 1
      BY <1>d, <1>f, Zenon
    <3> QED BY <3>1
  <2>8. ref[z] = Held(z, Subscribed, sendqueue)
    BY <1>a DEF ObserveRefExact
  <2>9. ref'[z] = IF s = z THEN ref[z] + Cardinality(fresh) - Cardinality(out)
                  ELSE ref[z]
    BY <1>a, <1>b, <1>c DEF ObserveTypeOK
  <2>10. Held(z, A \ none, B \ fresh) = Held(z, A, sendqueue \ none)
    BY <2>a
  <2>11. ref'[z] = Held(z, A, B)
    BY <2>2, <2>3, <2>4, <2>5, <2>6, <2>7, <2>8, <2>9, <2>10
  <2>12. Held(z, Subscribed', sendqueue') = Held(z, A, B)
    BY <1>7, <1>b DEF A, B
  <2> QED BY <2>4, <2>11, <2>12
<1>9. ref' \in [Session -> Int]
  <2>1. ref' = [z \in Session |-> ref'[z]]
    BY <1>a, <1>b DEF ObserveTypeOK
  <2> QED BY <2>1, <1>8
<1>10. ObserveTypeOK'
  BY <1>1, <1>2, <1>3, <1>4, <1>5, <1>9, RestTypes
<1>11. ObserveRefExact'
  BY <1>8 DEF ObserveRefExact, Held
<1>12. todo' \subseteq subscribers'[visiting']
  BY <1>a, <1>b, <1>c, <1>d DEF ObserveTypeOK, r
<1> QED BY <1>6, <1>10, <1>11, <1>12 DEF SubInv

\* Every step keeps the references exact.
LEMMA SubStep ==
  ASSUME SubInv, MarkInv, [ONext]_ovars
  PROVE  SubInv'
<1>1. MarkInv'
  BY MarkStep
<1>2. CASE \E r \in Resource, o \in Observer, q \in Query : Register(r, o, q)
  BY <1>1, <1>2, RegisterSub
<1>3. CASE \E o \in Observer, ok, error \in BOOLEAN : Notify(o, ok, error)
  BY <1>1, <1>3, NotifySub
<1>4. CASE \/ \E o \in Observer : Deregister(o)
           \/ \E n \in tx : Answer(n) \/ RecvRst(n)
           \/ \E s \in Session : Closed(s)
           \/ \E r \in Resource : DeleteResource(r)
  BY <1>1, <1>4, DropSteps DEF Answer
<1>5. CASE \/ \E r \in Resource : ChangeAll(r) \/ Visit(r)
           \/ \E r \in Resource, q \in Query : ChangeQuery(r, q)
           \/ \E o \in Observer : Skip(o) \/ Postpone(o)
           \/ CheckNotify \/ Leave
           \/ UNCHANGED ovars
  BY <1>1, <1>5, SameSteps
<1> QED BY <1>2, <1>3, <1>4, <1>5 DEF ONext, Loop

\* All steps but registrations and notifications only remove subscriptions.
LEMMA QuietStep ==
  ASSUME MarkInv, [ONext]_ovars,
         ~(\E r \in Resource, o \in Observer, q \in Query : Register(r, o, q)),
         ~(\E o \in Observer, ok, error \in BOOLEAN : Notify(o, ok, error))
  PROVE  /\ \A r \in Resource : subscribers'[r] \subseteq subscribers[r]
         /\ UNCHANGED <<query, non_cnt, non_run>>
<1>a. MarkTypes
  BY DEF MarkInv
<1>1. CASE \/ \E o \in Observer : Deregister(o)
           \/ \E n \in tx : Answer(n) \/ RecvRst(n)
           \/ \E s \in Session : Closed(s)
           \/ \E r \in Resource : DeleteResource(r)
  <2>1. \E gone, ns : Drop(gone, ns)
    BY <1>1 DEF Deregister, Answer, RecvAck, GiveUp, RecvRst, Closed,
       DeleteResource
  <2>2. UNCHANGED <<query, non_cnt, non_run>>
    BY <1>1 DEF Deregister, Answer, RecvAck, GiveUp, RecvRst, Closed,
       DeleteResource, histvars
  <2> QED BY <2>1, <2>2, <1>a, DropFewer
<1>2. CASE \/ \E r \in Resource : ChangeAll(r) \/ Visit(r)
           \/ \E r \in Resource, q \in Query : ChangeQuery(r, q)
           \/ \E o \in Observer : Skip(o) \/ Postpone(o)
           \/ CheckNotify \/ Leave
           \/ UNCHANGED ovars
  BY <1>2 DEF ChangeAll, Visit, ChangeQuery, Skip, Postpone, CheckNotify,
     Leave, ovars, subvars, histvars
<1> QED BY <1>1, <1>2 DEF ONext, Loop

\* A session that does not use the token of an observation with a new query
\* never has two subscriptions with the same query.
LEMMA DuplicateStep ==
  ASSUME MarkInv, NoDuplicates, "requery" \notin Faults, [ONext]_ovars
  PROVE  NoDuplicates'
<1>a. MarkTypes /\ OneResource
  BY DEF MarkInv
<1>1. ASSUME NEW r \in Resource, NEW o \in Observer, NEW q \in Query,
             Register(r, o, q)
      PROVE  NoDuplicates'
  <2> DEFINE old == Twins(r, o, q)
  <2>1. query' = [query EXCEPT ![o] = q]
    BY <1>1 DEF Register
  <2>2. CASE o \in subscribers[r]
    <3>1. UNCHANGED subscribers /\ q = query[o]
      BY <1>1, <2>2 DEF Register
    <3>2. query' = query
      BY <2>1, <3>1, <1>a DEF MarkTypes
    <3> QED BY <3>1, <3>2 DEF NoDuplicates
  <2>3. CASE o \notin subscribers[r]
    <3>1. /\ o \notin Subscribed
          /\ subscribers' = [subscribers EXCEPT ![r] = (@ \ old) \cup {o}]
      BY <1>1, <2>3 DEF Register
    <3>2. old = {p \in subscribers[r] : /\ SessionOf[p] = SessionOf[o]
                                        /\ query[p] = q}
      BY <2>3 DEF Twins
    <3>3. \A z \in Resource : \A p \in subscribers'[z] :
            \/ p = o /\ z = r
            \/ /\ p # o /\ p \in subscribers[z] /\ query'[p] = query[p]
               /\ z = r => p \notin old
      BY <2>1, <3>1, <1>a DEF MarkTypes, Subscribed
    <3>4. query'[o] = q
      BY <2>1, <1>a DEF MarkTypes
    <3> HIDE DEF old
    <3>5. ASSUME NEW z \in Resource, NEW p1 \in subscribers'[z],
                 NEW p2 \in subscribers'[z],
                 SessionOf[p1] = SessionOf[p2], query'[p1] = query'[p2]
          PROVE  p1 = p2
      <4>1. CASE p1 = o /\ p2 # o
        BY <3>2, <3>3, <3>4, <3>5, <4>1
      <4>2. CASE p1 # o /\ p2 = o
        BY <3>2, <3>3, <3>4, <3>5, <4>2
      <4>3. CASE p1 # o /\ p2 # o
        BY <3>3, <3>5, <4>3 DEF NoDuplicates
      <4> QED BY <4>1, <4>2, <4>3
    <3> QED BY <3>5 DEF NoDuplicates
  <2> QED BY <2>2, <2>3
<1>2. ASSUME NEW o \in Observer, NEW ok \in BOOLEAN, NEW error \in BOOLEAN,
             Notify(o, ok, error)
      PROVE  NoDuplicates'
  <2>1. /\ UNCHANGED query
        /\ \E out : subscribers' = [subscribers EXCEPT ![visiting] = @ \ out]
    BY <1>2 DEF Notify
  <2>2. \A r \in Resource : subscribers'[r] \subseteq subscribers[r]
    BY <2>1, <1>a DEF MarkTypes
  <2> QED BY <2>1, <2>2 DEF NoDuplicates
<1>3. CASE /\ ~(\E r \in Resource, o \in Observer, q \in Query :
                  Register(r, o, q))
           /\ ~(\E o \in Observer, ok, error \in BOOLEAN :
                  Notify(o, ok, error))
  BY <1>3, QuietStep DEF NoDuplicates
<1> QED BY <1>1, <1>2, <1>3

\* A confirmable notification is never lost on the way to the socket, or none
\* other is sent.
NothingMiscounted == "sendfail" \notin Faults \/ ConNotify = Resource

\* The count of non-confirmable notifications keeps up with them.
LEMMA RunStep ==
  ASSUME MarkInv, SubInv, RunCounted, NothingMiscounted, [ONext]_ovars
  PROVE  RunCounted'
<1> USE ObserverAssumption, LimitAssumption
<1>a. MarkTypes /\ OneResource /\ ObserveTypeOK
  BY DEF MarkInv, SubInv
<1>b. \A o \in Observer : non_run[o] \in Nat /\ non_cnt[o] \in Nat
  BY <1>a DEF ObserveTypeOK
<1>c. \A o \in Subscribed : o \in Observer
  BY <1>a, SubscribedFacts
<1>1. ASSUME NEW r \in Resource, NEW o \in Observer, NEW q \in Query,
             Register(r, o, q)
      PROVE  RunCounted'
  <2>1. /\ non_run' = [non_run EXCEPT ![o] = 0]
        /\ non_cnt' = non_cnt \/ non_cnt' = [non_cnt EXCEPT ![o] = 0]
        /\ \/ UNCHANGED subscribers
           \/ \E old : subscribers' = [subscribers EXCEPT
                                         ![r] = (@ \ old) \cup {o}]
    BY <1>1 DEF Register
  <2>2. \A p \in Subscribed' : p = o \/ p \in Subscribed
    BY <2>1, <1>a DEF MarkTypes, Subscribed
  <2>3. /\ non_run'[o] = 0 /\ non_cnt'[o] \in Nat
        /\ \A p \in Observer \ {o} : /\ non_run'[p] = non_run[p]
                                     /\ non_cnt'[p] = non_cnt[p]
    BY <2>1, <1>a DEF ObserveTypeOK
  <2> QED BY <2>2, <2>3, <1>c DEF RunCounted
<1>2. ASSUME NEW o \in Observer, NEW ok \in BOOLEAN, NEW error \in BOOLEAN,
             Notify(o, ok, error)
      PROVE  RunCounted'
  <2> DEFINE con == SentAsCon(visiting, o)
  <2>1. /\ o \in todo
        /\ non_cnt' = [non_cnt EXCEPT ![o] = IF con THEN 0 ELSE @ + 1]
        /\ non_run' = [non_run EXCEPT ![o] = IF ~ok THEN @
                                             ELSE IF con THEN 0 ELSE @ + 1]
        /\ \E out : subscribers' = [subscribers EXCEPT ![visiting] = @ \ out]
        /\ ok \/ "sendfail" \in Faults
    BY <1>2 DEF Notify
  <2>2. visiting \in Resource /\ o \in subscribers[visiting]
    BY <2>1, <1>a DEF OneResource, ObserveTypeOK, SubInv
  <2>3. ConNotify = Resource => con
    BY <2>2 DEF SentAsCon
  <2>4. \A p \in Subscribed' : p \in Subscribed
    BY <2>1, <1>a DEF MarkTypes, Subscribed
  <2>5. o \in Subscribed
    BY <2>2 DEF Subscribed
  <2> HIDE DEF con
  <2>6. /\ non_cnt'[o] = IF con THEN 0 ELSE non_cnt[o] + 1
        /\ non_run'[o] = IF ~ok THEN non_run[o]
                         ELSE IF con THEN 0 ELSE non_run[o] + 1
        /\ \A p \in Observer \ {o} : /\ non_run'[p] = non_run[p]
                                     /\ non_cnt'[p] = non_cnt[p]
    BY <2>1, <1>a DEF ObserveTypeOK
  <2>7. non_run[o] <= non_cnt[o] /\ (ConNotify = Resource => non_run[o] = 0)
    BY <2>5 DEF RunCounted
  <2>8. /\ non_run'[o] <= non_cnt'[o]
        /\ ConNotify = Resource => non_run'[o] = 0
    <3>1. CASE ConNotify = Resource
      BY <2>3, <2>6, <2>7, <3>1, <1>b
    <3>2. CASE ConNotify # Resource
      <4>1. ok
        BY <2>1, <3>2 DEF NothingMiscounted
      <4> QED BY <4>1, <2>6, <2>7, <3>2, <1>b
    <3> QED BY <3>1, <3>2
  <2> QED BY <2>4, <2>6, <2>8, <1>c DEF RunCounted
<1>3. CASE /\ ~(\E r \in Resource, o \in Observer, q \in Query :
                  Register(r, o, q))
           /\ ~(\E o \in Observer, ok, error \in BOOLEAN :
                  Notify(o, ok, error))
  <2>1. /\ \A r \in Resource : subscribers'[r] \subseteq subscribers[r]
        /\ UNCHANGED <<non_cnt, non_run>>
    BY <1>3, QuietStep
  <2>2. \A p \in Subscribed' : p \in Subscribed
    BY <2>1 DEF Subscribed
  <2> QED BY <2>1, <2>2 DEF RunCounted
<1> QED BY <1>1, <1>2, <1>3

\* The initial states.
LEMMA SubInit ==
  ASSUME OInit
  PROVE  MarkInv /\ SubInv /\ RunCounted /\ NoDuplicates
<1> USE ObserverAssumption, LimitAssumption
<1>1. (CHOOSE q \in Query : TRUE) \in Query
  OBVIOUS
<1>2. MarkInv
  <2>1. MarkTypes
    BY <1>1 DEF OInit, MarkTypes
  <2>2. OneResource
    BY DEF OInit, OneResource
  <2>3. \A r \in resources : r # visiting /\ Resting(r)
    BY DEF OInit, Resting
  <2> QED BY <2>1, <2>2, <2>3 DEF MarkInv
<1>3. Subscribed = {}
  BY DEF OInit, Subscribed
<1>4. SubInv
  <2>1. ObserveTypeOK
    <3>1. 0 \in 0..MaxNon /\ 0 \in 0..MaxFail /\ 0 \in Nat /\ 0 \in Int
      BY DEF OInit
    <3>2. /\ non_cnt \in [Observer -> 0..MaxNon]
          /\ fail_cnt \in [Observer -> 0..MaxFail]
      BY <3>1, Zenon DEF OInit
    <3>3. mid \in [Observer -> Nat] /\ non_run \in [Observer -> Nat]
      BY <3>1, Zenon DEF OInit
    <3>4. con_active \in [Session -> Nat] /\ ref \in [Session -> Int]
      BY <3>1, Zenon DEF OInit
    <3>5. /\ sendqueue \subseteq Observer \X Nat
          /\ tx \subseteq Observer \X Nat
          /\ stale_use \in BOOLEAN
      BY DEF OInit
    <3> QED BY <1>2, <3>2, <3>3, <3>4, <3>5
            DEF ObserveTypeOK, MarkInv, MarkTypes
  <2>2. IsFiniteSet(sendqueue)
    BY FS_EmptySet DEF OInit
  <2>3. ObserveRefExact
    <3>1. \A s : Held(s, {}, {}) = 0
      BY HeldOne
    <3>2. \A s \in Session : Held(s, Subscribed, sendqueue) = 0
      BY <1>3, <3>1 DEF OInit
    <3> QED BY <3>2 DEF OInit, ObserveRefExact
  <2> QED BY <2>1, <2>2, <2>3 DEF OInit, SubInv
<1>5. RunCounted /\ NoDuplicates
  BY <1>3 DEF OInit, RunCounted, NoDuplicates
<1> QED BY <1>2, <1>4, <1>5

\* The references a session holds are exactly those of its subscriptions and
\* of its confirmable notifications in flight, with every fault: replaced,
\* reset, given up, disconnected, deleted, and deleted by the handler's error
\* while the loop runs.
THEOREM ReferencesExact == OSpec => [](ObserveTypeOK /\ ObserveRefExact)
<1>1. OInit => MarkInv /\ SubInv
  BY SubInit
<1>2. MarkInv /\ SubInv /\ [ONext]_ovars => (MarkInv /\ SubInv)'
  BY MarkStep, SubStep
<1>3. SubInv => ObserveTypeOK /\ ObserveRefExact
  BY DEF SubInv
<1> QED BY <1>1, <1>2, <1>3, PTL DEF OSpec

\* Subscriptions, counters and references fit together, for any sets of
\* observers, sessions, resources and queries, as long as no client uses the
\* token of an observation with a new query: coap_add_observer() then makes a
\* duplicate.
THEOREM SubscriptionsAlwaysExact ==
  ASSUME "requery" \notin Faults
  PROVE  OSpec => []SubscriptionsExact
<1> DEFINE Inv == MarkInv /\ SubInv /\ NoDuplicates
<1>1. OInit => Inv
  BY SubInit
<1>2. Inv /\ [ONext]_ovars => Inv'
  BY MarkStep, SubStep, DuplicateStep
<1>3. Inv => SubscriptionsExact
  BY DEF SubInv, SubscriptionsExact
<1> HIDE DEF Inv
<1> QED BY <1>1, <1>2, <1>3, PTL DEF OSpec

\* No more than COAP_OBS_MAX_NON notifications in a row go out non-confirmable,
\* if no confirmable one fails to be sent after coap_notify_observers() has
\* already reset non_cnt for it, or if every resource notifies with CONs.
THEOREM NonRunAlwaysBounded ==
  ASSUME NothingMiscounted
  PROVE  OSpec => []NonRunBounded
<1> DEFINE Inv == MarkInv /\ SubInv /\ RunCounted
<1>1. OInit => Inv
  BY SubInit
<1>2. Inv /\ [ONext]_ovars => Inv'
  BY MarkStep, SubStep, RunStep
<1>3. Inv => NonRunBounded
  <2> SUFFICES ASSUME Inv PROVE NonRunBounded
    OBVIOUS
  <2>1. ASSUME NEW o \in Subscribed PROVE non_run[o] <= MaxNon
    <3>1. o \in Observer
      BY SubscribedFacts DEF SubInv
    <3>2. /\ non_run[o] \in Nat /\ non_cnt[o] \in 0..MaxNon
          /\ non_run[o] <= non_cnt[o]
      BY <3>1 DEF SubInv, ObserveTypeOK, RunCounted
    <3> QED BY <3>2, LimitAssumption
  <2> QED BY <2>1 DEF NonRunBounded
<1> HIDE DEF Inv
<1> QED BY <1>1, <1>2, <1>3, PTL DEF OSpec
=============================================================================
