------------------------------- MODULE MCLwm2m -------------------------------
(* Parts of the LwM2M core, each by itself: registration and bootstrap seen  *)
(* from the device, registrations and requests seen from the server, the     *)
(* organizer, which is such a server between its devices and the analyzer,   *)
(* transactions, the notifications of a watched resource, and the operations *)
(* on a device's objects.                                                    *)
EXTENDS LwClient, LwServer, QosOrganizer, LwTransaction, LwNotify, LwDevice

VARIABLE part  \* the one that runs

\* The second server comes first; each has one limit of two.
TwoThenOne ==
  [i \in {1, 2} |-> [order |-> 3 - i, blocking |-> Absent, bootstrap |-> IF i = 1 THEN Absent ELSE 0,
                     attempts |-> i, sequences |-> IF i = 1 THEN 2 ELSE Absent, delay |-> i - 1]]

ObjectAndInstance == {<<3>>, <<3, 0>>}
SomeAnnouncements == {{}, {<<3>>}, {<<3>>, <<3, 0>>}}

\* The organizer is asked for an instance: one Observe and one write.
InstanceDepth == [u \in OrgUri |-> 2]
AskKinds == [a \in OrgAsk |-> IF a = "write1" THEN "write" ELSE "observe"]
AskUris == [a \in OrgAsk |-> "u"]

SomeOffers == {{}, {"pmin"}, {"pmax"}, {"pmin", "pmax"}, {"gt"}, {"lt", "st"},
               {"gt", "lt", "st"}, {"pmin", "gt"}}
SomeAttributes == {{}, {"pmin"}, {"pmin", "pmax", "gt"}}

-----------------------------------------------------------------------------

partvars == <<part, lwcvars, lwsvars, orgvars, lwtvars, lwnvars, lwdvars>>

\* The parts that do not run stay in one of their initial states.
Lwm2mInit ==
  /\ part \in {"client", "server", "organizer", "transaction", "notify", "device"}
  /\ LwcInit /\ LwsInit /\ OrgInit /\ LwtInit /\ LwnInit /\ LwdInit
  /\ part # "client" => lw.sec = CHOOSE sec \in Provisioned : TRUE
  /\ part # "device" => nextId = 0

InOrganizer(A) ==
  /\ part = "organizer" /\ ~fallen /\ A
  /\ UNCHANGED <<part, lwcvars, lwsvars, lwtvars, lwnvars, lwdvars>>
InTransaction(A) ==
  /\ part = "transaction" /\ A
  /\ UNCHANGED <<part, lwcvars, lwsvars, orgvars, lwnvars, lwdvars>>
InNotify(A) ==
  /\ part = "notify" /\ A
  /\ UNCHANGED <<part, lwcvars, lwsvars, orgvars, lwtvars, lwdvars>>

Lwm2mNext ==
  \/ part = "client" /\ LwcNext /\ UNCHANGED <<part, lwsvars, orgvars, lwtvars, lwnvars, lwdvars>>
  \/ part = "server" /\ LwsNext /\ UNCHANGED <<part, lwcvars, orgvars, lwtvars, lwnvars, lwdvars>>
  \/ part = "device" /\ LwdNext /\ UNCHANGED <<part, lwcvars, lwsvars, orgvars, lwtvars, lwnvars>>
  \/ InOrganizer(OrgNext)
  \/ InTransaction(LwtNext)
  \/ InNotify(LwnNext)

\* The organizer's sender thread never stops and transactions end; the
\* application's loop calls lwm2m_step again and again, and time passes.
Lwm2mSpec ==
  /\ Lwm2mInit /\ [][Lwm2mNext]_partvars
  /\ WF_partvars(InOrganizer(SenderThread)) /\ WF_partvars(InOrganizer(Settles))
  /\ WF_partvars(InTransaction(LwtTick)) /\ WF_partvars(InTransaction(TransactionStep))
  /\ WF_partvars(InNotify(ObserveStep)) /\ WF_partvars(InNotify(Sleep))
=============================================================================
