----------------------------- MODULE LwClient -----------------------------
(* The LwM2M client: lwm2m_step and its states, registration with every      *)
(* server (attempts, sequences, order), updates and deregistration, and the  *)
(* bootstrap that rewrites the list of servers.                              *)
(*                                                                           *)
(* A server is named by the instance of the Security object it was made      *)
(* from. `due' says that the time kept in its `registration' field has come. *)
(* Transactions are those of LwTransaction, reduced to what it promises: a   *)
(* callback with an answer or, from lwm2m_step, with NULL. `freed' and       *)
(* `closed' of a transaction say that the server it points to, or the        *)
(* session it sends on, is no more; a callback to a freed server is counted  *)
(* and has no other effect here. `asked' of a server is what the application *)
(* asked for: an update with the list of objects, "yes", or one that         *)
(* lwm2m_update_registration passed over, "passed".                          *)
EXTENDS Naturals, Integers, Sequences, FiniteSets, SequencesExt

CONSTANTS
  Servers, Bootstraps,          \* instances of the Security object, numbers
  Provisioned,                  \* sets of instances a device may begin with
  ServerObject,                 \* server -> what its instance of the Server object says
  MaxTransactions,              \* transactions at a time
  MaxCalls, MaxCommands         \* calls of the application; bootstrap commands

ASSUME LwcAssumption ==
  /\ Servers \cup Bootstraps \subseteq Nat /\ Servers \cap Bootstraps = {}
  /\ \E last \in Servers \cup Bootstraps : \A i \in Servers \cup Bootstraps : last >= i
  /\ \A sec \in Provisioned : sec \subseteq Servers \cup Bootstraps

VARIABLES lw, userCalls, commands

lwcvars == <<lw, userCalls, commands>>

Active == {"REGISTERED", "REG_UPDATE_NEEDED", "REG_FULL_UPDATE_NEEDED", "REG_UPDATE_PENDING"}

NewServer == [status |-> "DEREGISTERED", due |-> FALSE, session |-> FALSE, location |-> FALSE,
              attempt |-> 0, sequence |-> 0, dirty |-> FALSE, asked |-> "no"]

Ids == Servers \cup Bootstraps

\* The lists of servers are sorted: a walk visits the instances 0..LastId.
LastId == Max(Ids)

Put(k, i, status) == [k EXCEPT !.srv[i].status = status]
PutBs(k, b, status) == [k EXCEPT !.bsrv[b].status = status]

\* Transactions with a server whose session is closed, or whose memory is freed.
Closing(trs, ids) == [j \in DOMAIN trs |-> IF trs[j].id \in ids THEN [trs[j] EXCEPT !.closed = TRUE]
                                           ELSE trs[j]]
Freeing(trs, ids) == [j \in DOMAIN trs |-> IF trs[j].id \in ids
                                           THEN [trs[j] EXCEPT !.closed = TRUE, !.freed = TRUE]
                                           ELSE trs[j]]

\* As it would be if a server had one transaction at a time.
SendingOnce(k, kind, i) ==
  IF \E j \in DOMAIN k.trs : k.trs[j].id = i THEN k
  ELSE [k EXCEPT !.trs = Append(@, [kind |-> kind, id |-> i, closed |-> FALSE, freed |-> FALSE])]

\* transaction_new, the list and the first transaction_send.
Sending(k, kind, i) ==
  [k EXCEPT !.trs = Append(@, [kind |-> kind, id |-> i, closed |-> FALSE, freed |-> FALSE])]

-----------------------------------------------------------------------------
(* The Server object. A resource that the instance does not have is Absent,  *)
(* and then the default holds.                                               *)

Absent == -1

\* prv_readUint and prv_readBoolean
ReadUint(i, r, default) == IF ServerObject[i][r] = Absent THEN default ELSE ServerObject[i][r]
ReadBoolean(i, r, default) == IF ServerObject[i][r] = Absent THEN default ELSE ServerObject[i][r] = 1

\* prv_getRegistrationOrder: whether there is one, and which
Ordered(i) == ReadUint(i, "order", Absent) # Absent
Order(i) == ReadUint(i, "order", Absent)

\* prv_getRegistrationFailureBlocking, prv_getBootstrapOnRegistrationFailure
Blocking(i) == ReadBoolean(i, "blocking", FALSE)
BootstrapOnFailure(i) == ReadBoolean(i, "bootstrap", TRUE)

AtMost(limit, n) == IF n > limit THEN limit ELSE n

\* prv_getRegistrationAttemptLimit, prv_getRegistrationSequenceLimit
AttemptLimit(i) == AtMost(254, ReadUint(i, "attempts", 5))
SequenceLimit(i) == AtMost(254, ReadUint(i, "sequences", 1))

\* prv_startRegistration: whether the registration is put off
InitialDelay(i) == ReadUint(i, "delay", 0) > 0

-----------------------------------------------------------------------------
(* Registration.                                                             *)

\* registration_start: every server without an order starts, and the first of
\* those with one.
RegistrationStart(k, restartFailed) ==
  LET cand == {i \in DOMAIN k.srv : \/ k.srv[i].status = "DEREGISTERED"
                                    \/ restartFailed /\ k.srv[i].status = "REG_FAILED"}
      ordered == {i \in cand : Ordered(i)}
      begin == (cand \ ordered) \cup {i \in ordered : \A j \in ordered \ {i} :
                                        Order(i) < Order(j) \/ (Order(i) = Order(j) /\ i < j)}
  IN [k EXCEPT !.srv = [i \in DOMAIN k.srv |->
        IF i \notin cand THEN k.srv[i]
        ELSE [k.srv[i] EXCEPT !.attempt = 0, !.sequence = 0,
                              !.status = IF i \in begin THEN "REG_HOLD_OFF" ELSE @,
                              !.due = IF i \in begin THEN ~InitialDelay(i) ELSE @]]]

\* prv_handleRegistrationSequenceFailure
SequenceFailure(k0, i) ==
  LET k == IF Ordered(i) /\ ~Blocking(i) /\ k0.srv[i].sequence = 1
           THEN RegistrationStart(k0, FALSE) ELSE k0
      failed == Put(k, i, "REG_FAILED")
  IN CASE k.srv[i].sequence < SequenceLimit(i) ->
            [k EXCEPT !.srv[i] = [@ EXCEPT !.status = "REG_HOLD_OFF", !.due = FALSE, !.attempt = 0]]
       [] k.srv[i].sequence >= SequenceLimit(i) /\ BootstrapOnFailure(i) ->
            [failed EXCEPT !.state = "BOOTSTRAP_REQUIRED"]
       [] k.srv[i].sequence >= SequenceLimit(i) /\ ~BootstrapOnFailure(i)
          /\ Ordered(i) /\ Blocking(i) ->
            [failed EXCEPT !.srv = [j \in DOMAIN @ |->
               IF @[j].status = "DEREGISTERED" /\ Ordered(j)
               THEN [@[j] EXCEPT !.status = "REG_FAILED"] ELSE @[j]]]
       [] OTHER -> failed

\* prv_handleRegistrationAttemptFailure
AttemptFailure(k, i) ==
  IF k.srv[i].attempt >= AttemptLimit(i) THEN SequenceFailure(k, i)
  ELSE [k EXCEPT !.srv[i] = [@ EXCEPT !.status = "REG_HOLD_OFF", !.due = FALSE]]

\* prv_handleRegistrationReply
RegistrationReply(k, i, created) ==
  LET done == [k EXCEPT !.srv[i] = [@ EXCEPT !.status = "REGISTERED", !.location = TRUE, !.due = FALSE]]
  IN IF k.srv[i].status # "REG_PENDING" THEN k
     ELSE IF ~created THEN AttemptFailure(k, i)
     ELSE IF Ordered(i) /\ (k.srv[i].sequence = 1 \/ ~Blocking(i))
     THEN RegistrationStart(done, FALSE) ELSE done

\* prv_register: nothing changes when the server cannot be connected to.
Register(k, i, connects) ==
  LET s == k.srv[i]
      sequence == IF s.attempt = 0 THEN s.sequence + 1 ELSE s.sequence
  IN IF ~s.session /\ ~connects THEN k
     ELSE Sending([k EXCEPT !.srv[i] = [s EXCEPT !.session = TRUE, !.status = "REG_PENDING",
                                                 !.attempt = s.attempt + 1, !.sequence = sequence,
                                                 !.asked = "no"]],
                  "register", i)

\* prv_handleRegistrationUpdateReply
UpdateReply(k, i, changed) ==
  IF k.srv[i].status # "REG_UPDATE_PENDING" THEN k
  ELSE [k EXCEPT !.srv[i] = [@ EXCEPT !.status = IF changed THEN "REGISTERED" ELSE "REG_FAILED",
                                      !.due = FALSE]]

\* prv_updateRegistration
UpdateRegistration(k, i, withObjects) ==
  Sending([k EXCEPT !.srv[i] = [@ EXCEPT !.status = "REG_UPDATE_PENDING",
                                         !.asked = IF withObjects THEN "no" ELSE k.srv[i].asked]],
          "update", i)

\* prv_handleDeregistrationReply
DeregistrationReply(k, i) ==
  IF k.srv[i].status = "DEREG_PENDING" THEN Put(k, i, "DEREGISTERED") ELSE k

\* registration_step, for one server
ServerStep(k, i, connects) ==
  LET s == k.srv[i]
  IN CASE s.status = "REG_HOLD_OFF" /\ s.due -> Register(k, i, connects)
       [] s.status = "REGISTERED" /\ s.due -> UpdateRegistration(k, i, FALSE)
       [] s.status = "REG_UPDATE_NEEDED" -> UpdateRegistration(k, i, FALSE)
       [] s.status = "REG_FULL_UPDATE_NEEDED" -> UpdateRegistration(k, i, TRUE)
       [] s.status = "REG_FAILED" /\ s.session ->
            [k EXCEPT !.srv[i].session = FALSE, !.trs = Closing(@, {i})]
       [] OTHER -> k

StepIfThere(k, i, connects) == IF i \in DOMAIN k.srv THEN ServerStep(k, i, connects) ELSE k

RegistrationStep(k, connects) ==
  LET after[n \in 0..(LastId + 1)] ==
        IF n = 0 THEN k ELSE StepIfThere(after[n - 1], n - 1, connects)
  IN after[LastId + 1]

\* registration_getStatus
RegistrationStatus(k) ==
  LET all == {k.srv[i].status : i \in DOMAIN k.srv}
  IN CASE all \cap {"REG_HOLD_OFF", "REG_PENDING"} # {} -> "REG_PENDING"
       [] all \cap {"REG_HOLD_OFF", "REG_PENDING"} = {} /\ all \cap Active # {} -> "REGISTERED"
       [] OTHER -> "REG_FAILED"

-----------------------------------------------------------------------------
(* Bootstrap.                                                                *)

\* prv_handleBootstrapReply
BootstrapReply(k, b, changed) ==
  IF k.bsrv[b].status # "BS_INITIATED" THEN k
  ELSE IF changed THEN [k EXCEPT !.bsrv[b] = [@ EXCEPT !.status = "BS_PENDING", !.due = FALSE]]
  ELSE PutBs(k, b, "BS_FAILING")

\* prv_requestBootstrap
RequestBootstrap(k, b, connects) ==
  IF k.bsrv[b].session \/ connects
  THEN Sending([k EXCEPT !.bsrv[b] = [@ EXCEPT !.session = TRUE, !.status = "BS_INITIATED"]],
               "bootstrap", b)
  ELSE PutBs(k, b, "BS_FAILED")

\* The end of a bootstrap: its session is closed.
HangUp(k, b, status) ==
  [k EXCEPT !.bsrv[b] = [@ EXCEPT !.session = FALSE, !.status = status], !.trs = Closing(@, {b})]

\* bootstrap_step, for one server
BootstrapServerStep(k, b, connects) ==
  LET s == k.bsrv[b]
  IN CASE s.status = "DEREGISTERED" ->
            [k EXCEPT !.bsrv[b] = [@ EXCEPT !.status = "BS_HOLD_OFF", !.due = FALSE]]
       [] s.status = "BS_HOLD_OFF" /\ s.due -> RequestBootstrap(k, b, connects)
       [] s.status = "BS_PENDING" /\ s.due -> PutBs(k, b, "BS_FAILING")
       [] s.status = "BS_FINISHING" -> HangUp(k, b, "BS_FINISHED")
       [] s.status = "BS_FAILING" -> HangUp(k, b, "BS_FAILED")
       [] OTHER -> k

BootstrapIfThere(k, b, connects) ==
  IF b \in DOMAIN k.bsrv THEN BootstrapServerStep(k, b, connects) ELSE k

BootstrapStep(k, connects) ==
  LET after[n \in 0..(LastId + 1)] ==
        IF n = 0 THEN k ELSE BootstrapIfThere(after[n - 1], n - 1, connects)
  IN after[LastId + 1]

\* bootstrap_start
BootstrapStart(k, connects) ==
  [k EXCEPT !.bsrv = [b \in DOMAIN @ |-> [@[b] EXCEPT !.status = "DEREGISTERED",
                                                      !.session = k.bsrv[b].session \/ connects]]]

\* bootstrap_getStatus
BootstrapStatus(k) ==
  LET all == {k.bsrv[b].status : b \in DOMAIN k.bsrv}
  IN CASE all \cap {"BS_HOLD_OFF", "BS_INITIATED", "BS_PENDING", "BS_FINISHING", "BS_FAILING"} # {} ->
            "BS_PENDING"
       [] all # {} /\ all \subseteq {"DEREGISTERED", "BS_FINISHED", "BS_FAILED"}
          /\ "BS_FINISHED" \in all -> "BS_FINISHED"
       [] OTHER -> "BS_FAILED"

\* prv_checkServerStatus: the time limit is set anew only in two of the states.
CheckServerStatus(k, b) ==
  CASE k.bsrv[b].status \in {"BS_HOLD_OFF", "BS_INITIATED"} -> PutBs(k, b, "BS_PENDING")
    [] k.bsrv[b].status \in {"DEREGISTERED", "BS_PENDING"} -> [k EXCEPT !.bsrv[b].due = FALSE]
    [] OTHER -> k

Listens(k, b) ==
  /\ b \in DOMAIN k.bsrv /\ k.bsrv[b].session
  /\ k.bsrv[b].status \in {"DEREGISTERED", "BS_HOLD_OFF", "BS_INITIATED", "BS_PENDING"}

\* prv_tagServer and prv_tagAllServer
Tag(k, ids) ==
  [k EXCEPT !.srv = [i \in DOMAIN @ |-> IF i \in ids THEN [@[i] EXCEPT !.dirty = TRUE] ELSE @[i]],
            !.bsrv = [b \in DOMAIN @ |-> IF b \in ids THEN [@[b] EXCEPT !.dirty = TRUE] ELSE @[b]]]

\* The end of bootstrap_handleCommand: a server that was idle has begun.
Begun(k, b) ==
  IF k.bsrv[b].status = "BS_PENDING" THEN k
  ELSE [PutBs(k, b, "BS_PENDING") EXCEPT !.state = "BOOTSTRAPPING"]

\* bootstrap_handleCommand: an instance of the Security object is written,
\* created or deleted, or something else is, or the command fails.
HandleCommand(k0, b, op, i) ==
  LET k == CheckServerStatus(k0, b)
  IN CASE op = "write" /\ i \in k.sec -> Begun(Tag(k, {i}), b)
       [] op = "write" /\ i \notin k.sec -> Begun([k EXCEPT !.sec = @ \cup {i}], b)
       [] op = "delete" -> Begun(Tag([k EXCEPT !.sec = @ \ {i}], {i}), b)
       [] op = "other" -> Begun(k, b)
       [] op = "fails" -> k

\* bootstrap_handleDeleteAll: the first instance that cannot be deleted, and
\* those after it, are left; the servers are then not marked.
HandleDeleteAll(k0, b, left) ==
  LET k == [CheckServerStatus(k0, b) EXCEPT !.sec = (@ \cap {b}) \cup left]
  IN IF left = {} THEN Tag(k, Ids \ {b}) ELSE k

\* prv_refreshServerList and object_getServers: dirty servers are deleted, and
\* every instance of the Security object without a server gets one.
RefreshServerList(k, readable) ==
  LET gone == {i \in DOMAIN k.srv : k.srv[i].dirty}
      bgone == {b \in DOMAIN k.bsrv : k.bsrv[b].dirty}
      kept == (DOMAIN k.srv \ gone) \cup (DOMAIN k.bsrv \ bgone)
      new == IF readable THEN k.sec \ kept ELSE {}
  IN [k EXCEPT
        !.bsrv = [b \in (DOMAIN @ \ bgone) \cup (new \cap Bootstraps) |->
                    IF b \in new THEN NewServer ELSE [@[b] EXCEPT !.status = "DEREGISTERED"]],
        !.srv = [i \in (DOMAIN @ \ gone) \cup (new \cap Servers) |->
                    IF i \in new THEN NewServer ELSE @[i]],
        !.trs = Freeing(@, gone \cup bgone)]

-----------------------------------------------------------------------------
(* lwm2m_step: the state, then the servers, then the transactions. A result  *)
(* is the context and whether the call returned early.                       *)

Goes(k) == [k |-> k, stops |-> FALSE]
Stops(k) == [k |-> k, stops |-> TRUE]

FromBootstrapRequired(k, connects) ==
  IF DOMAIN k.bsrv = {} THEN Stops([k EXCEPT !.state = "BOOTSTRAP_REQUIRED"])
  ELSE Goes(BootstrapStep([BootstrapStart(k, connects) EXCEPT !.state = "BOOTSTRAPPING"], connects))

FromRegisterRequired(k) == Goes([RegistrationStart(k, TRUE) EXCEPT !.state = "REGISTERING"])

FromInitial(k0, connects, readable) ==
  LET k == RefreshServerList([k0 EXCEPT !.state = "INITIAL"], readable)
  IN IF ~readable THEN Stops(k)
     ELSE IF DOMAIN k.srv # {} THEN FromRegisterRequired(k) ELSE FromBootstrapRequired(k, connects)

FromBootstrapping(k, connects, readable) ==
  CASE BootstrapStatus(k) = "BS_FINISHED" -> FromInitial(k, connects, readable)
    [] BootstrapStatus(k) = "BS_FAILED" -> Stops(k)
    [] OTHER -> Goes(BootstrapStep(k, connects))

\* REGISTERING and READY
FromRegistering(k, connects) ==
  CASE RegistrationStatus(k) = "REG_FAILED" -> FromBootstrapRequired(k, connects)
    [] RegistrationStatus(k) = "REGISTERED" -> Goes([k EXCEPT !.state = "READY"])
    [] OTHER -> Goes(k)

StateStep(k, connects, readable) ==
  CASE k.state = "INITIAL" -> FromInitial(k, connects, readable)
    [] k.state = "BOOTSTRAP_REQUIRED" -> FromBootstrapRequired(k, connects)
    [] k.state = "BOOTSTRAPPING" -> FromBootstrapping(k, connects, readable)
    [] k.state = "REGISTERING" -> FromRegistering(k, connects)
    [] k.state = "READY" ->
         IF RegistrationStatus(k) = "REG_FAILED" THEN FromBootstrapRequired(k, connects) ELSE Goes(k)

\* The callback of a transaction, with a good answer or not.
CallBack(k, t, good) ==
  CASE t.freed -> [k EXCEPT !.uaf = TRUE]
    [] ~t.freed /\ t.kind = "register" -> RegistrationReply(k, t.id, good)
    [] ~t.freed /\ t.kind = "update" -> UpdateReply(k, t.id, good)
    [] ~t.freed /\ t.kind = "deregister" -> DeregistrationReply(k, t.id)
    [] ~t.freed /\ t.kind = "bootstrap" -> BootstrapReply(k, t.id, good)

\* The end of the j-th transaction.
Ended(k, j, good) == CallBack([k EXCEPT !.trs = RemoveAt(@, j)], k.trs[j], good)

\* One transaction of the list: it expires, or those after it have their turn.
ExpireOne(a, expires) ==
  IF expires THEN [a EXCEPT !.k = Ended(a.k, a.at, FALSE)] ELSE [a EXCEPT !.at = @ + 1]

\* transaction_step: of the transactions of the list, some expire.
TransactionsExpire(k, expired) ==
  LET after[n \in 0..Len(k.trs)] ==
        IF n = 0 THEN [k |-> k, at |-> 1] ELSE ExpireOne(after[n - 1], n \in expired)
  IN after[Len(k.trs)].k

-----------------------------------------------------------------------------
LwcInit ==
  /\ \E sec \in Provisioned :
       lw = [state |-> "INITIAL", srv |-> <<>>, bsrv |-> <<>>, sec |-> sec, trs |-> <<>>, uaf |-> FALSE]
  /\ userCalls = 0 /\ commands = 0

Room == Len(lw.trs) + Cardinality(DOMAIN lw.srv) + Cardinality(DOMAIN lw.bsrv) <= MaxTransactions

LwStep(connects, readable, expired) ==
  /\ Room \/ expired # {}
  /\ LET r == StateStep(lw, connects, readable)
     IN lw' = IF r.stops THEN r.k
              ELSE TransactionsExpire(RegistrationStep(r.k, connects), expired)
  /\ UNCHANGED <<userCalls, commands>>

\* transaction_handleResponse, for a final answer
Answer(j, good) ==
  /\ ~lw.trs[j].closed
  /\ lw' = Ended(lw, j, good)
  /\ UNCHANGED <<userCalls, commands>>

TimePasses(i) ==
  /\ \/ /\ i \in DOMAIN lw.srv /\ ~lw.srv[i].due
        /\ lw.srv[i].status \in {"REG_HOLD_OFF", "REGISTERED"}
        /\ lw' = [lw EXCEPT !.srv[i].due = TRUE]
     \/ /\ i \in DOMAIN lw.bsrv /\ ~lw.bsrv[i].due
        /\ lw.bsrv[i].status \in {"BS_HOLD_OFF", "BS_PENDING"}
        /\ lw' = [lw EXCEPT !.bsrv[i].due = TRUE]
  /\ UNCHANGED <<userCalls, commands>>

\* What lwm2m_update_registration does to the server it names.
UpdateAsked(s, withObjects) ==
  CASE s.status \in {"REGISTERED", "REG_UPDATE_PENDING"} ->
         [s EXCEPT !.status = IF withObjects THEN "REG_FULL_UPDATE_NEEDED" ELSE "REG_UPDATE_NEEDED",
                   !.asked = IF withObjects THEN "yes" ELSE @]
    [] s.status \in {"REG_UPDATE_NEEDED", "REG_FULL_UPDATE_NEEDED"} /\ withObjects ->
         [s EXCEPT !.status = "REG_FULL_UPDATE_NEEDED", !.asked = "yes"]
    [] OTHER -> s

\* lwm2m_update_registration of one server
UpdateOne(i, withObjects) ==
  /\ userCalls < MaxCalls /\ i \in DOMAIN lw.srv
  /\ lw' = [lw EXCEPT !.srv[i] = UpdateAsked(@, withObjects)]
  /\ userCalls' = userCalls + 1 /\ UNCHANGED commands

\* lwm2m_update_registration of all: a server that waits for an update already
\* is left as it is, so that an update with objects is passed over where one
\* without them waits. With objects: lwm2m_add_object and lwm2m_remove_object,
\* in state READY, and a server's request that creates or deletes an instance.
UpdateAll(withObjects) ==
  /\ userCalls < MaxCalls
  /\ withObjects => lw.state = "READY" \/ \E i \in DOMAIN lw.srv : lw.srv[i].status \in Active
  /\ lw' = [lw EXCEPT !.srv = [i \in DOMAIN @ |->
              IF @[i].status \in {"REGISTERED", "REG_UPDATE_PENDING"}
              THEN UpdateAsked(@[i], withObjects)
              ELSE IF withObjects /\ @[i].status = "REG_UPDATE_NEEDED"
              THEN [@[i] EXCEPT !.asked = "passed"] ELSE @[i]]]
  /\ userCalls' = userCalls + 1 /\ UNCHANGED commands

\* registration_deregister
Deregistered(k, i) ==
  IF k.srv[i].status \in {"DEREGISTERED", "REG_PENDING", "DEREG_PENDING", "REG_FAILED"}
     \/ ~k.srv[i].location
  THEN k ELSE Sending([k EXCEPT !.srv[i] = [@ EXCEPT !.status = "DEREG_PENDING", !.asked = "no"]],
                      "deregister", i)

DeregisteredIfThere(k, i) == IF i \in DOMAIN k.srv THEN Deregistered(k, i) ELSE k

AllDeregistered(k) ==
  LET after[n \in 0..(LastId + 1)] ==
        IF n = 0 THEN k ELSE DeregisteredIfThere(after[n - 1], n - 1)
  IN after[LastId + 1]

\* lwm2m_deregister
Deregister ==
  /\ userCalls < MaxCalls /\ Room
  /\ lw' = AllDeregistered(lw)
  /\ userCalls' = userCalls + 1 /\ UNCHANGED commands

Command(b, op, i) ==
  /\ commands < MaxCommands /\ Listens(lw, b)
  /\ \/ op = "write"
     \/ op = "delete" /\ i \in lw.sec
     \/ op \in {"other", "fails"} /\ i = b
  /\ lw' = HandleCommand(lw, b, op, i)
  /\ commands' = commands + 1 /\ UNCHANGED userCalls

DeleteAll(b) ==
  /\ commands < MaxCommands /\ Listens(lw, b)
  /\ \E left \in {{}} \cup { {i \in lw.sec \ {b} : i >= j} : j \in lw.sec } :
       lw' = HandleDeleteAll(lw, b, left)
  /\ commands' = commands + 1 /\ UNCHANGED userCalls

\* bootstrap_handleFinish, once the servers described are complete
Finish(b) ==
  /\ b \in DOMAIN lw.bsrv /\ lw.bsrv[b].session /\ lw.bsrv[b].status = "BS_PENDING"
  /\ lw' = PutBs(lw, b, "BS_FINISHING")
  /\ UNCHANGED <<userCalls, commands>>

LwcNext ==
  \/ \E c, r \in BOOLEAN, e \in SUBSET (1..Len(lw.trs)) : LwStep(c, r, e)
  \/ \E j \in 1..Len(lw.trs), good \in BOOLEAN : Answer(j, good)
  \/ \E i \in Ids : TimePasses(i)
  \/ \E i \in Servers, w \in BOOLEAN : UpdateOne(i, w)
  \/ \E w \in BOOLEAN : UpdateAll(w)
  \/ Deregister
  \/ \E b \in Bootstraps, op \in {"write", "delete", "other", "fails"},
        i \in Ids : Command(b, op, i)
  \/ \E b \in Bootstraps : DeleteAll(b) \/ Finish(b)

LwcSpec == LwcInit /\ [][LwcNext]_lwcvars

-----------------------------------------------------------------------------
(* Properties.                                                               *)

\* An update with the list of objects that was asked for stays asked for until
\* it is sent, whatever is asked for or answered in between. One case is left
\* out, for the code fails in it: asked for of all servers, the update is passed
\* over by a server that waits for an update without objects, and that one only
\* is sent (registration.c:925; asked for by name it is noted, line 907).
FullUpdateKept ==
  \A i \in DOMAIN lw.srv : lw.srv[i].asked = "yes" => lw.srv[i].status = "REG_FULL_UPDATE_NEEDED"

\* Whoever waits for a reply has a transaction that will end with one, or with
\* NULL: nobody waits for ever.
Awaits(status) ==
  CASE status = "REG_PENDING" -> {"register"} [] status = "REG_UPDATE_PENDING" -> {"update"}
    [] status = "DEREG_PENDING" -> {"deregister"} [] status = "BS_INITIATED" -> {"bootstrap"}
    [] OTHER -> {}
WaitersHaveTransactions ==
  /\ \A i \in DOMAIN lw.srv : \A kind \in Awaits(lw.srv[i].status) :
       \E j \in DOMAIN lw.trs : lw.trs[j].kind = kind /\ lw.trs[j].id = i /\ ~lw.trs[j].closed
  /\ \A b \in DOMAIN lw.bsrv : \A kind \in Awaits(lw.bsrv[b].status) :
       \E j \in DOMAIN lw.trs : lw.trs[j].kind = kind /\ lw.trs[j].id = b /\ ~lw.trs[j].closed

\* Through registration, updates, deregistration and bootstrap nobody waits
\* for ever and no update that was asked for is lost, but for one that was
\* passed over (registration.c, bootstrap.c).
ClientKeepsUp == WaitersHaveTransactions /\ FullUpdateKept

=============================================================================
