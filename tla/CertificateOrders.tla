-------------------------- MODULE CertificateOrders --------------------------
(***************************************************************************)
(* Ordering a certificate from the CA: ObtainCertificate of                *)
(* internal/certacme, the process it runs in (internal/tools/mproc), and   *)
(* the challenger that answers the CA's challenges, one of the rows of     *)
(* Challengers.                                                            *)
(*                                                                         *)
(* With CERTIMATE_WORKFLOW_MULTIPROC (the default) each order runs in a    *)
(* child process; without it all of them share the server's process, and   *)
(* with it the resolver and the environment variable that lego reads at    *)
(* every challenge.  The lego library and the CA are external: a batch of  *)
(* challenges is presented, checked and cleaned up, the whole order at     *)
(* once or challenge by challenge.                                         *)
(***************************************************************************)
EXTENDS Naturals, FiniteSets

CONSTANTS
    Orders,         \* orders, each one call of executeObtain
    Authorizations, \* what an order proves: a name, or the wildcard below it
    AuthorizationsOf, \* those of each order, which the CA gives it
    Settings,       \* nameservers and "disable following CNAME" of a node
    Default,        \* what lego goes by if nothing is set
    Places,         \* names of TXT records, or paths of files
    PlaceOf,        \* where a challenge goes under a setting
    Zones,          \* the zones of the DNS service
    ZoneOf,         \* the zone of a place
    Server,         \* the process that orders share without child processes
    Challengers,    \* the rows of module Challengers
    MaxFaults       \* bound on requests refused, answers lost, processes dead
                    \* and runs canceled

ASSUME OrdersAssumption ==
    /\ AuthorizationsOf \in [Orders -> SUBSET Authorizations]
    /\ Default \in Settings
ASSUME PlacesAssumption ==
    /\ PlaceOf \in [Authorizations -> [Settings -> Places]]
    /\ ZoneOf \in [Places -> Zones]
ASSUME ServerAssumption == Server \notin Orders
ASSUME ChallengersAssumption ==
    /\ Challengers \subseteq
          [type : {"dns01", "http01"}, keeps : {"value", "token", "zone"},
           merges : BOOLEAN, together : BOOLEAN, timeout : BOOLEAN]
    /\ MaxFaults \in Nat

VARIABLES
    scene,    \* how the server and the nodes are configured
    inForce,  \* the setting lego reads, per process
    work,     \* per order, the state of ObtainCertificate and the challenger
    records,  \* the records of the DNS service: whose, for what, where
    issued,   \* orders for which the CA has issued the certificate
    caller,   \* what the node has got: "none", "waiting", "ok", "error"
    canceled, \* orders whose run is canceled
    faulted,  \* orders a fault has met
    faults    \* how many

vars == <<scene, inForce, work, records, issued, caller, canceled, faulted, faults>>

Scenes ==
    [multi : BOOLEAN, challenger : Challengers, slow : BOOLEAN, patient : BOOLEAN,
     sleeps : BOOLEAN, wish : [Orders -> Settings]]

Record == [order : Orders, authz : Authorizations, place : Places]

Work ==
    [pc : {"idle", "starting", "ordering", "picking", "presenting", "solving",
           "cleaning", "succeeded", "failing", "dead"},
     todo : SUBSET Authorizations, batch : SUBSET Authorizations,
     left : SUBSET Authorizations, failed : SUBSET Authorizations,
     kept : SUBSET Authorizations, zones : SUBSET Zones, replaces : BOOLEAN]

Idle ==
    [pc |-> "idle", todo |-> {}, batch |-> {}, left |-> {}, failed |-> {},
     kept |-> {}, zones |-> {}, replaces |-> FALSE]

Init ==
    /\ scene \in Scenes
    /\ inForce = [p \in Orders \cup {Server} |-> Default]
    /\ work = [o \in Orders |-> Idle]
    /\ records = {}
    /\ issued = {}
    /\ caller = [o \in Orders |-> "none"]
    /\ canceled = {}
    /\ faulted = {}
    /\ faults = 0

Challenger == scene.challenger
Keeps(ways) == Challenger.keeps \in ways
Process(o) == IF scene.multi THEN o ELSE Server
\* GetChallengeInfo and FindZoneByFqdn go by what is in force when they run.
PlaceNow(o, a) == PlaceOf[a][inForce[Process(o)]]
\* The CA looks where the node's own setting leads.
RightPlace(o, a) == PlaceOf[a][scene.wish[o]]

At(o, pc) == work[o].pc = pc
\* The order ends, and the challenger and what it kept with it.
EndsAs(o, pc) == work' = [work EXCEPT ![o] = [Idle EXCEPT !.pc = pc]]
\* A request of the order goes wrong: a fault, or its context is done, which
\* only the server's own process knows of.
Fault(o) ==
    /\ faults < MaxFaults
    /\ faults' = faults + 1
    /\ faulted' = faulted \cup {o}
Aborted(o) == ~scene.multi /\ o \in canceled
GoesWrong(o) == Fault(o) \/ (Aborted(o) /\ UNCHANGED <<faulted, faults>>)

-----------------------------------------------------------------------------
(* The call, and the order at the CA *)

\* executeObtain sends the request to a child process, or calls the client; the
\* certificate to replace is named if the node has renewed it before.
Request(o) ==
    /\ At(o, "idle")
    /\ \E replaces \in BOOLEAN :
          work' = [work EXCEPT ![o].pc = "starting", ![o].replaces = replaces]
    /\ caller' = [caller EXCEPT ![o] = "waiting"]
    /\ UNCHANGED <<scene, inForce, records, issued, canceled, faulted, faults>>

\* The provider of the registry makes the challenger; the resolver and the
\* environment variable are set for the whole process.
Start(o) ==
    /\ At(o, "starting")
    /\ inForce' = [inForce EXCEPT ![Process(o)] = scene.wish[o]]
    /\ work' = [work EXCEPT ![o].pc = "ordering"]
    /\ UNCHANGED <<scene, records, issued, caller, canceled, faulted, faults>>

Accepted(o) ==
    /\ At(o, "ordering")
    /\ work' = [work EXCEPT ![o].pc = "picking", ![o].todo = AuthorizationsOf[o]]
    /\ UNCHANGED <<faulted, faults>>

\* Mutant: the refusal is the order's end.
GiveUpReplaced(o) ==
    /\ At(o, "ordering")
    /\ work[o].replaces
    /\ EndsAs(o, "failing")
    /\ UNCHANGED <<faulted, faults>>

\* The CA says that the certificate has been replaced already: the order is
\* made again, once, without naming it.
AlreadyReplaced(o) ==
    /\ At(o, "ordering")
    /\ work[o].replaces
    /\ work' = [work EXCEPT ![o].replaces = FALSE]
    /\ UNCHANGED <<faulted, faults>>

\* No child process, no challenger, or no order.
Refused(o) ==
    /\ work[o].pc \in {"starting", "ordering"}
    /\ GoesWrong(o)
    /\ EndsAs(o, "failing")

OrderCertificate(o) ==
    /\ Accepted(o) \/ AlreadyReplaced(o) \/ Refused(o)
    /\ UNCHANGED <<scene, inForce, records, issued, caller, canceled>>

-----------------------------------------------------------------------------
(* The challenges *)

\* A batch is the whole order, or one challenge where lego goes one by one.
PickBatch(o) ==
    /\ At(o, "picking")
    /\ work[o].todo # {}
    /\ \E batch \in SUBSET work[o].todo :
          /\ IF Challenger.together THEN batch = work[o].todo
                                    ELSE Cardinality(batch) = 1
          /\ work' = [work EXCEPT ![o].pc = "presenting", ![o].batch = batch,
                                  ![o].left = batch, ![o].todo = @ \ batch]
    /\ UNCHANGED <<scene, inForce, records, issued, caller, canceled, faulted, faults>>

\* Mutant: only what has been validated is cleaned up.
CleanSolved(w) == w.batch \ w.failed

\* Every DNS challenge of a batch is cleaned up, whatever became of it; a file
\* only if it was presented.
ToClean(w) ==
    IF Challenger.type = "http01" /\ w.pc = "presenting" THEN {} ELSE w.batch

\* When nothing of the batch is left to do the next phase begins.
Onward(w) ==
    LET to(pc, left) == [w EXCEPT !.pc = pc, !.left = left]
    IN  IF w.left # {} THEN w
        ELSE IF w.pc = "presenting" /\ w.batch \ w.failed # {}
             THEN to("solving", w.batch \ w.failed)
        ELSE IF w.pc \in {"presenting", "solving"} /\ ToClean(w) # {}
             THEN to("cleaning", ToClean(w))
        ELSE [to("picking", {}) EXCEPT !.batch = {}]

Done(o, a) == [work[o] EXCEPT !.left = @ \ {a}]
Failing(o, a) == [Done(o, a) EXCEPT !.failed = @ \cup {a}]
Becomes(o, w) == work' = [work EXCEPT ![o] = Onward(w)]

Created(o, a) == [order |-> o, authz |-> a, place |-> PlaceNow(o, a)]

\* Present creates the record and keeps what CleanUp will need, or fails before
\* or after the service has created it and keeps nothing.
Presented(o, a) ==
    /\ records' = records \cup {Created(o, a)}
    /\ Becomes(o, [Done(o, a) EXCEPT
                     !.kept = IF Keeps({"token", "zone"}) THEN @ \cup {a} ELSE @,
                     !.zones = IF Keeps({"zone"})
                               THEN @ \cup {ZoneOf[PlaceNow(o, a)]} ELSE @])
    /\ UNCHANGED <<faulted, faults>>
NotPresented(o, a) ==
    /\ GoesWrong(o)
    /\ records' \in {records, records \cup {Created(o, a)}}
    /\ Becomes(o, Failing(o, a))
Present(o, a) ==
    /\ At(o, "presenting")
    /\ a \in work[o].left
    /\ Presented(o, a) \/ NotPresented(o, a)
    /\ UNCHANGED <<scene, inForce, issued, caller, canceled>>

\* The zone shows a new record within the time the order gives it: the fixed
\* wait of the node, or the timeout that the challenger was made with.
WaitsLongEnough ==
    \/ ~scene.slow
    \/ scene.patient /\ (scene.sleeps \/ Challenger.timeout)

Served(o, a) ==
    \E r \in records : r.order = o /\ r.authz = a /\ r.place = RightPlace(o, a)

\* The record is waited for and the CA looks for it.
Solve(o, a) ==
    /\ At(o, "solving")
    /\ a \in work[o].left
    /\ \/ /\ Served(o, a)
          /\ Becomes(o, Done(o, a))
          /\ UNCHANGED <<faulted, faults>>
       \/ /\ ~(Served(o, a) /\ WaitsLongEnough)
          /\ Becomes(o, Failing(o, a))
          /\ UNCHANGED <<faulted, faults>>
       \/ /\ GoesWrong(o)
          /\ Becomes(o, Failing(o, a))
    /\ UNCHANGED <<scene, inForce, records, issued, caller, canceled>>

\* What CleanUp finds to delete: the entry with its value at the place, the
\* record whose identifier was kept, or that, if the zone's was kept too.
OwnRecords(o, a) == {r \in records : r.order = o /\ r.authz = a}
Finds(o, a) ==
    CASE Challenger.keeps = "value" ->
             {r \in OwnRecords(o, a) : r.place = PlaceNow(o, a)}
      [] Challenger.keeps = "token" ->
             IF a \in work[o].kept THEN OwnRecords(o, a) ELSE {}
      [] Challenger.keeps = "zone" ->
             IF a \in work[o].kept /\ ZoneOf[PlaceNow(o, a)] \in work[o].zones
             THEN OwnRecords(o, a) ELSE {}

\* Where values of one name were merged into one record, all of them go.
MergedWith(found) ==
    {r \in records : \E q \in found : r.place = q.place}

\* An error of CleanUp is logged and changes nothing else; a deletion forgets
\* the identifiers, that of the whole zone included.
CleanUp(o, a) ==
    LET found == Finds(o, a)
        gone == {ZoneOf[PlaceNow(o, a)]}
    IN  /\ At(o, "cleaning")
        /\ a \in work[o].left
        /\ \/ /\ records' \in {records \ found}
                     \cup (IF Challenger.merges THEN {records \ MergedWith(found)} ELSE {})
              /\ Becomes(o, IF found = {} THEN Done(o, a)
                            ELSE [Done(o, a) EXCEPT !.kept = @ \ {a},
                                                    !.zones = @ \ gone])
              /\ UNCHANGED <<faulted, faults>>
           \/ /\ GoesWrong(o)
              /\ records' \in {records, records \ found}
              /\ Becomes(o, Done(o, a))
        /\ UNCHANGED <<scene, inForce, issued, caller, canceled>>

-----------------------------------------------------------------------------
(* The certificate, and the answer *)

\* The order is finalized if every challenge was solved; the certificate may be
\* issued and its download fail.
Finalize(o) ==
    /\ At(o, "picking")
    /\ work[o].todo = {}
    /\ \/ /\ work[o].failed = {}
          /\ issued' = issued \cup {o}
          /\ EndsAs(o, "succeeded")
          /\ UNCHANGED <<faulted, faults>>
       \/ /\ work[o].failed = {}
          /\ GoesWrong(o)
          /\ issued' \in {issued, issued \cup {o}}
          /\ EndsAs(o, "failing")
       \/ /\ work[o].failed # {}
          /\ EndsAs(o, "failing")
          /\ UNCHANGED <<issued, faulted, faults>>
    /\ UNCHANGED <<scene, inForce, records, caller, canceled>>

Ended(o) == work[o].pc \in {"succeeded", "failing", "dead"}

\* Mutant: only the error file is looked at.
AnswerByErrorFile(o) == IF At(o, "failing") THEN "error" ELSE "ok"

\* The parent waits for the child's end, whatever became of the run.  An error
\* file is an error; else the output file must decrypt and parse, and that of a
\* child that died is empty.
AnswerOf(o) == IF At(o, "succeeded") THEN "ok" ELSE "error"

Answer(o) ==
    /\ caller[o] = "waiting"
    /\ Ended(o)
    /\ \/ /\ caller' = [caller EXCEPT ![o] = AnswerOf(o)]
          /\ UNCHANGED <<faulted, faults>>
       \/ /\ scene.multi
          /\ Fault(o)
          /\ caller' = [caller EXCEPT ![o] = "error"]
    /\ UNCHANGED <<scene, inForce, work, records, issued, canceled>>

-----------------------------------------------------------------------------
(* The world *)

Working == {o \in Orders : ~At(o, "idle") /\ ~Ended(o)}

Cancel(o) ==
    /\ o \in Working
    /\ faults < MaxFaults
    /\ faults' = faults + 1
    /\ canceled' = canceled \cup {o}
    /\ UNCHANGED <<scene, inForce, work, records, issued, caller, faulted>>

Killed(os) == [o \in Orders |-> IF o \in os THEN [Idle EXCEPT !.pc = "dead"] ELSE work[o]]

\* A child process panics or is killed.
ChildDies(o) ==
    /\ scene.multi
    /\ o \in Working
    /\ Fault(o)
    /\ work' = Killed({o})
    /\ UNCHANGED <<scene, inForce, records, issued, caller, canceled>>

\* The server dies: the orders in its process with it, a child goes on alone.
ServerDies ==
    /\ faults < MaxFaults
    /\ faults' = faults + 1
    /\ IF scene.multi
       THEN UNCHANGED <<work, faulted>>
       ELSE /\ work' = Killed(Working)
            /\ faulted' = faulted \cup Working
    /\ caller' = [o \in Orders |-> IF caller[o] = "waiting" THEN "none" ELSE caller[o]]
    /\ UNCHANGED <<scene, inForce, records, issued, canceled>>

Program(o) ==
    \/ Start(o) \/ OrderCertificate(o) \/ PickBatch(o) \/ Finalize(o) \/ Answer(o)
    \/ \E a \in Authorizations : Present(o, a) \/ Solve(o, a) \/ CleanUp(o, a)

Next ==
    \/ \E o \in Orders : Request(o) \/ Program(o) \/ Cancel(o) \/ ChildDies(o)
    \/ ServerDies

Spec == Init /\ [][Next]_vars

-----------------------------------------------------------------------------
(* Properties *)

TypeOK ==
    /\ scene \in Scenes
    /\ inForce \in [Orders \cup {Server} -> Settings]
    /\ work \in [Orders -> Work]
    /\ records \in SUBSET Record
    /\ issued \in SUBSET Orders
    /\ caller \in [Orders -> {"none", "waiting", "ok", "error"}]
    /\ canceled \in SUBSET Orders
    /\ faulted \in SUBSET Orders
    /\ faults \in 0 .. MaxFaults

\* In one process, another order that asks for other settings, or a canceled
\* run, gets in the way.
Disturbed(o) ==
    /\ ~scene.multi
    /\ \/ o \in canceled
       \/ \E q \in Orders : scene.wish[q] # scene.wish[o]

\* The challenger forgets the zone with the first record it deletes there.
ZoneIsForgotten(r) ==
    /\ Challenger.keeps = "zone"
    /\ \E a \in AuthorizationsOf[r.order] \ {r.authz} :
          ZoneOf[RightPlace(r.order, a)] = ZoneOf[r.place]

\* A record that an ended order leaves behind is due to a request that went
\* wrong, to a challenger that forgets its zones, or to the lack of a process of
\* its own: not to a challenge that failed, and not to a run that was canceled
\* while a child process worked for it.
LeftoversAreExplained ==
    \A r \in records :
        Ended(r.order) =>
            r.order \in faulted \/ Disturbed(r.order) \/ ZoneIsForgotten(r)

\* Another order may take this one's value away with its own.
Merged(o) ==
    /\ Challenger.merges
    /\ \E q \in Orders \ {o} :
          \E a \in AuthorizationsOf[q], b \in AuthorizationsOf[o] :
              RightPlace(q, a) = RightPlace(o, b)

\* An order fails for a reason: with enough patience, no fault and a process of
\* its own it gets its certificate, whatever another order for the same names
\* does meanwhile, and also if the CA will not have the old one replaced.
UndisturbedOrdersSucceed ==
    \A o \in Orders :
        caller[o] = "error" =>
            o \in faulted \/ Disturbed(o) \/ Merged(o) \/ ~WaitsLongEnough

\* The node hears of a certificate only if the CA has issued it, and of a failure
\* after that only if the answer was lost; whether a child ended well, failed,
\* or died is told apart.
AnswerIsTheOrders ==
    \A o \in Orders :
        /\ caller[o] = "ok" => o \in issued
        /\ caller[o] = "error" /\ o \in issued => o \in faulted \/ Aborted(o)

\* A challenger that deletes a record knows the zone it presented it in
\* (the error "unknown zone ID" of its CleanUp says otherwise).
PresentedZonesAreKnown ==
    \A o \in Orders : \A a \in work[o].left \cap work[o].kept :
        At(o, "cleaning") /\ scene.multi /\ Challenger.keeps = "zone" =>
            ZoneOf[PlaceNow(o, a)] \in work[o].zones
=============================================================================
