------------------------------ MODULE LwNotify ------------------------------
(* Notifications of the LwM2M client: the watchers that servers have on one  *)
(* numeric resource, the attributes they wrote (periods, thresholds, step),  *)
(* and observe_step, which decides who is told of the value and until when   *)
(* the client may sleep.                                                     *)
(*                                                                           *)
(* Times are relative: `age' is the time since lastTime. Each attribute but  *)
(* gt has one value, so that what a watcher has is the set of its flags.     *)
EXTENDS Naturals, Integers, FiniteSets, FiniteSetsExt

CONSTANTS
  Watchers,               \* the servers
  MaxValue,               \* greatest value of the resource
  PMin, PMax, LessThan, Step, GtValues,   \* values of the attributes
  Offers,                 \* sets of attributes a request may set, or clear
  MaxSleep,               \* the time lwm2m_step lets the caller sleep at most
  MaxChanges, MaxWrites   \* changes of the value, attributes written

ASSUME NotifyAssumption ==
  /\ MaxValue \in Nat /\ PMin \in Nat \ {0} /\ PMax \in Nat \ {0}
  /\ LessThan \in Int /\ Step \in Nat /\ GtValues \subseteq Int
  /\ Offers \subseteq SUBSET {"pmin", "pmax", "gt", "lt", "st"}
  /\ MaxSleep \in Nat \ {0} /\ MaxChanges \in Nat /\ MaxWrites \in Nat

VARIABLES
  value,       \* of the resource
  readable,    \* "yes", "no": the object's readFunc fails, or "unserialized": its
               \* value cannot be written in the format asked for
  watcher,     \* server -> its watcher
  timeout,     \* time until lwm2m_step is called next
  changes, writes

lwnvars == <<value, readable, watcher, timeout, changes, writes>>

Numeric == {"gt", "lt", "st"}
MaxAge == Max({PMin, PMax}) + 1

NoWatcher ==
  [active |-> FALSE, update |-> FALSE, allocated |-> FALSE, toSet |-> {}, gt |-> 0,
   age |-> 0, lastValue |-> 0]

-----------------------------------------------------------------------------

\* observe_handleRequest, Observe 0: the watcher is made, or its token
\* replaced, and the value of the response noted, even if dm_handleRequest then
\* cannot serialize it and answers 5.00. What was to be told stays so.
ObserveRequest(s) ==
  /\ readable # "no"
  /\ changes < MaxChanges
  /\ watcher' = [watcher EXCEPT ![s].active = TRUE, ![s].age = 0, ![s].lastValue = value]
  /\ timeout' = 0
  /\ changes' = changes + 1
  /\ UNCHANGED <<value, readable, writes>>

\* observe_handleRequest, Observe 1, and a reset: the watcher is freed.
ObserveEnd(s) ==
  /\ watcher[s].active
  /\ watcher' = [watcher EXCEPT ![s] = NoWatcher]
  /\ timeout' = 0
  /\ UNCHANGED <<value, readable, changes, writes>>

\* "lt" value + 2 * "stp" values < "gt" value, over what is set already and
\* what is asked for.
RuleKept(w, set, clear, gt) ==
  LET g == IF "gt" \in set THEN gt ELSE w.gt
  IN Numeric \subseteq ((set \cup w.toSet) \ clear) => LessThan + 2 * Step < g

\* observe_setParameters: the attributes a watcher has afterwards. The first
\* request brings its flags; a later one clears some and changes values.
Parameters(w, set, clear, gt) ==
  IF ~w.allocated
  THEN IF set = {} THEN w
       ELSE [w EXCEPT !.allocated = TRUE, !.toSet = set, !.gt = gt]
  ELSE [w EXCEPT !.toSet = @ \ clear, !.gt = IF "gt" \in set THEN gt ELSE @]

\* dm_handleRequest, PUT with a query: prv_readAttributes takes each attribute
\* once, to be set or to be cleared.
WriteAttributes(s, set, clear, gt) ==
  /\ readable # "no"
  /\ writes < MaxWrites
  /\ set \cap clear = {}
  /\ RuleKept(watcher[s], set, clear, gt)
  /\ watcher' = [watcher EXCEPT ![s] = Parameters(@, set, clear, gt)]
  /\ timeout' = 0
  /\ writes' = writes + 1
  /\ UNCHANGED <<value, readable, changes>>

\* lwm2m_resource_value_changed.
ValueChanged(v) ==
  /\ changes < MaxChanges
  /\ v # value
  /\ value' = v
  /\ watcher' = [s \in Watchers |-> [watcher[s] EXCEPT !.update = @ \/ watcher[s].active]]
  /\ timeout' = 0
  /\ changes' = changes + 1
  /\ UNCHANGED <<readable, writes>>

\* The application's readFunc, or the serialization, begins or ceases to fail.
Readable ==
  /\ changes < MaxChanges
  /\ readable' \in {"yes", "no", "unserialized"} \ {readable}
  /\ timeout' = 0
  /\ changes' = changes + 1
  /\ UNCHANGED <<value, watcher, writes>>

-----------------------------------------------------------------------------
(* observe_step                                                              *)

Crossed(threshold, a, b) == (a < threshold /\ b > threshold) \/ (a > threshold /\ b < threshold)

Distance(a, b) == IF a < b THEN b - a ELSE a - b

\* Whether a threshold was crossed, or the step made, since the server was
\* told last.
ConditionMet(w) ==
  \/ "lt" \in w.toSet /\ Crossed(LessThan, value, w.lastValue)
  \/ "gt" \in w.toSet /\ Crossed(w.gt, value, w.lastValue)
  \/ "st" \in w.toSet /\ Distance(value, w.lastValue) >= Step

\* Whether a change is told now: at once without conditions, else when one is
\* met; where there is a least period, it alone decides.
ChangeDue(w) ==
  /\ w.update
  /\ IF "pmin" \in w.toSet THEN w.age >= PMin
     ELSE w.toSet = {} \/ ConditionMet(w)

Due(w) ==
  /\ w.active
  /\ ChangeDue(w) \/ ("pmax" \in w.toSet /\ w.age >= PMax)

Told(w) == [w EXCEPT !.age = 0, !.update = FALSE, !.lastValue = value]

\* The times after which observe_step has to be called again for w; `now' is
\* the watcher as the step leaves it.
Intervals(w, now) ==
  (IF w.active /\ w.update /\ "pmin" \in w.toSet /\ w.age < PMin THEN {PMin - w.age} ELSE {})
  \cup (IF now.active /\ "pmax" \in now.toSet THEN {PMax - now.age} ELSE {})

\* Who is to be told now, and who is: nobody when the value cannot be serialized.
ToTell == IF readable = "no" THEN {} ELSE { s \in Watchers : Due(watcher[s]) }
Telling == IF readable = "yes" THEN ToTell ELSE {}

\* The watchers that a step gets to: none while the resource cannot be read, and
\* those before the first one that is due when the value cannot be serialized.
Reached ==
  CASE readable = "no" -> {{}}
    [] readable = "unserialized" /\ ToTell # {} -> SUBSET (Watchers \ ToTell)
    [] OTHER -> {Watchers}

\* lwm2m_step's timeout, once the watchers are as in `now'.
WakeIn(now) ==
  \E seen \in Reached :
    timeout' = Min({MaxSleep} \cup UNION { Intervals(watcher[s], now[s]) : s \in seen })

\* observe_step if a change that is put off were forgotten.
ObserveStepForgets ==
  LET now == [s \in Watchers |-> IF s \in Telling THEN Told(watcher[s])
                                 ELSE [watcher[s] EXCEPT !.update = FALSE]]
  IN /\ timeout = 0
     /\ watcher' = now /\ WakeIn(now)
     /\ UNCHANGED <<value, readable, changes, writes>>

\* observe_step
ObserveStep ==
  LET now == [s \in Watchers |-> IF s \in Telling THEN Told(watcher[s]) ELSE watcher[s]]
  IN /\ timeout = 0
     /\ watcher' = now /\ WakeIn(now)
     /\ UNCHANGED <<value, readable, changes, writes>>

\* The caller sleeps.
Sleep ==
  /\ timeout > 0
  /\ timeout' = timeout - 1
  /\ watcher' = [s \in Watchers |-> [watcher[s] EXCEPT !.age = Min({@ + 1, MaxAge})]]
  /\ UNCHANGED <<value, readable, changes, writes>>

-----------------------------------------------------------------------------

LwnInit ==
  /\ value = 0 /\ readable = "yes" /\ timeout = 0
  /\ watcher = [s \in Watchers |-> NoWatcher]
  /\ changes = 0 /\ writes = 0

LwnNext ==
  \/ \E s \in Watchers : ObserveRequest(s) \/ ObserveEnd(s)
  \/ \E s \in Watchers, set, clear \in Offers, gt \in GtValues :
       WriteAttributes(s, set, clear, gt)
  \/ \E v \in 0..MaxValue : ValueChanged(v)
  \/ Readable \/ ObserveStep \/ Sleep

\* The application's loop calls lwm2m_step when the time it was given is over.
LwnSpec == LwnInit /\ [][LwnNext]_lwnvars /\ WF_lwnvars(ObserveStep) /\ WF_lwnvars(Sleep)

-----------------------------------------------------------------------------
(* Properties.                                                               *)

\* A server that set no condition on the value, but perhaps a minimum period,
\* comes to know the value, as long as the resource can be read and its value
\* serialized: while it cannot be, observe_step stops at the first watcher that
\* is due, and those behind it are not told either (observe.c:766).
ChangeTold ==
  \A s \in Watchers :
     (watcher[s].active /\ watcher[s].lastValue # value /\ watcher[s].toSet \subseteq {"pmin"})
       ~> (\/ watcher[s].lastValue = value \/ ~watcher[s].active \/ readable # "yes"
           \/ ~(watcher[s].toSet \subseteq {"pmin"}))

=============================================================================
