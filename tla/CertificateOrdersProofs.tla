------------------------ MODULE CertificateOrdersProofs ------------------------
(* What orders leave behind, why they fail, and what the node hears of them,  *)
(* for any orders, names, challengers and settings.                           *)
EXTENDS CertificateOrders, FiniteSetTheorems, TLAPS

Working3 == {"presenting", "solving", "cleaning"}
Started == {"ordering", "picking"} \cup Working3

\* Processes of their own, or nothing to disagree about.
Agreeing == scene.multi \/ \A p, q \in Orders : scene.wish[p] = scene.wish[q]

InPlace ==
    Agreeing =>
        /\ \A o \in Orders :
              work[o].pc \in Started => inForce[Process(o)] = scene.wish[o]
        /\ \A r \in records : r.place = RightPlace(r.order, r.authz)

\* The challenges of an order, and where it has records.
Shaped(o) ==
    LET w == work[o] IN
    /\ w.todo \cup w.batch \subseteq AuthorizationsOf[o]
    /\ w.todo \cap w.batch = {} /\ w.todo \cap w.failed = {}
    /\ w.left \subseteq w.batch
    /\ w.pc \notin Working3 => w.batch = {}
    /\ w.pc \in {"idle", "starting", "ordering"} => w.todo = {} /\ w.failed = {}
    /\ w.pc = "presenting" => w.batch # {}
    /\ \A r \in records : r.order = o =>
            /\ r.authz \in AuthorizationsOf[o]
            /\ w.pc \notin {"idle", "starting", "ordering"}

\* Nothing has happened to the order.
Sound(o) == o \notin faulted /\ ~Disturbed(o)

\* The records of an order are those of its batch: presented and not yet
\* cleaned up; what it takes to find them is kept.
Tidy(o) ==
    LET w == work[o] IN
    Sound(o) =>
        /\ w.pc # "dead"
        /\ w.pc = "presenting" => w.failed \cap w.batch = {}
        /\ \A r \in records : (r.order = o /\ ~ZoneIsForgotten(r)) =>
            /\ w.pc \in Working3 /\ r.authz \in w.batch
            /\ w.pc = "presenting" => r.authz \notin w.left
            /\ w.pc = "cleaning" => r.authz \in w.left
            /\ Keeps({"token", "zone"}) => r.authz \in w.kept
            /\ Keeps({"zone"}) => ZoneOf[r.place] \in w.zones

\* Nothing fails; what was presented stays until it has been looked for.
Lucky(o) == Sound(o) /\ ~Merged(o) /\ WaitsLongEnough
Unfailing(o) ==
    LET w == work[o] IN
    Lucky(o) =>
        /\ w.failed = {} /\ w.pc \notin {"failing", "dead"} /\ caller[o] # "error"
        /\ w.pc = "presenting" => \A a \in w.batch \ w.left : Served(o, a)
        /\ w.pc = "solving" => \A a \in w.left : Served(o, a)

Heard(o) ==
    /\ At(o, "succeeded") => o \in issued
    /\ o \in issued => Ended(o)
    /\ (o \in issued /\ ~At(o, "succeeded")) => o \in faulted \/ Aborted(o)
    /\ caller[o] \in {"ok", "error"} => Ended(o)
    /\ caller[o] = "ok" => o \in issued
    /\ (caller[o] = "error" /\ o \in issued) => o \in faulted \/ Aborted(o)

OrdersInv ==
    /\ TypeOK /\ InPlace
    /\ \A o \in Orders : Shaped(o) /\ Tidy(o) /\ Unfailing(o) /\ Heard(o)

-----------------------------------------------------------------------------
(* Types.                                                                  *)

LEMMA SceneType ==
  ASSUME TypeOK
  PROVE  /\ Challenger.type \in {"dns01", "http01"}
         /\ Challenger.keeps \in {"value", "token", "zone"}
         /\ scene.wish \in [Orders -> Settings]
         /\ \A o \in Orders : Process(o) \in Orders \cup {Server}
         /\ \A o \in Orders, a \in Authorizations :
                RightPlace(o, a) \in Places /\ PlaceNow(o, a) \in Places
<1>1. scene \in Scenes
  BY DEF TypeOK
<1>2. Challenger \in Challengers /\ scene.wish \in [Orders -> Settings]
  BY <1>1 DEF Scenes, Challenger
<1>3. \A o \in Orders : Process(o) \in Orders \cup {Server}
  BY DEF Process
<1>4. \A o \in Orders : inForce[Process(o)] \in Settings
  BY <1>3 DEF TypeOK
<1> QED
  BY <1>2, <1>3, <1>4, ChallengersAssumption, PlacesAssumption DEF RightPlace, PlaceNow

LEMMA WorkType ==
  ASSUME TypeOK, NEW o \in Orders
  PROVE  /\ work[o] \in Work /\ work[o].pc \in {"idle", "starting", "ordering",
              "picking", "presenting", "solving", "cleaning", "succeeded", "failing", "dead"}
         /\ work[o].todo \subseteq Authorizations /\ work[o].batch \subseteq Authorizations
         /\ work[o].left \subseteq Authorizations /\ work[o].failed \subseteq Authorizations
         /\ work[o].kept \subseteq Authorizations /\ work[o].zones \subseteq Zones
         /\ work[o].replaces \in BOOLEAN
BY DEF TypeOK, Work

\* The next phase begins when nothing of the batch is left.
LEMMA Onwards ==
  ASSUME NEW w \in Work, w.pc \in Working3
  PROVE  /\ Onward(w) \in Work
         /\ Onward(w).todo = w.todo /\ Onward(w).failed = w.failed
         /\ Onward(w).kept = w.kept /\ Onward(w).zones = w.zones
         /\ \/ Onward(w) = w /\ w.left # {}
            \/ /\ w.left = {} /\ w.pc = "presenting" /\ Onward(w).pc = "solving"
               /\ Onward(w).batch = w.batch /\ Onward(w).left = w.batch \ w.failed
            \/ /\ w.left = {} /\ w.pc # "cleaning" /\ Onward(w).pc = "cleaning"
               /\ Onward(w).batch = w.batch /\ Onward(w).left \subseteq w.batch
               /\ w.pc = "solving" => Onward(w).left = w.batch
               /\ w.pc = "presenting" => w.batch \ w.failed = {}
            \/ /\ w.left = {} /\ Onward(w).pc = "picking"
               /\ Onward(w).batch = {} /\ Onward(w).left = {}
               /\ w.pc = "presenting" => w.batch \ w.failed = {}
               /\ w.pc = "solving" => w.batch = {}
<1>1. w.pc \in {"presenting", "solving", "cleaning"} /\ w.batch \subseteq Authorizations
      /\ ToClean(w) \subseteq w.batch /\ (w.pc # "presenting" => ToClean(w) = w.batch)
  BY DEF Work, Working3, ToClean
<1>2. CASE w.left # {}
  BY <1>2 DEF Onward
<1>3. CASE w.left = {} /\ w.pc = "presenting" /\ w.batch \ w.failed # {}
  <2>1. Onward(w) = [w EXCEPT !.pc = "solving", !.left = w.batch \ w.failed]
    BY <1>3 DEF Onward
  <2> QED
    BY <1>1, <1>3, <2>1, ZenonT(60) DEF Work
<1>4. CASE /\ w.left = {} /\ ~(w.pc = "presenting" /\ w.batch \ w.failed # {})
           /\ w.pc \in {"presenting", "solving"} /\ ToClean(w) # {}
  <2>1. Onward(w) = [w EXCEPT !.pc = "cleaning", !.left = ToClean(w)]
    BY <1>4 DEF Onward
  <2> QED
    BY <1>1, <1>4, <2>1 DEF Work
<1>5. CASE /\ w.left = {} /\ ~(w.pc = "presenting" /\ w.batch \ w.failed # {})
           /\ ~(w.pc \in {"presenting", "solving"} /\ ToClean(w) # {})
  <2>1. Onward(w) = [[w EXCEPT !.pc = "picking", !.left = {}] EXCEPT !.batch = {}]
    BY <1>5 DEF Onward
  <2> QED
    BY <1>1, <1>5, <2>1 DEF Work
<1> QED
  BY <1>2, <1>3, <1>4, <1>5

LEMMA InitType == Init => TypeOK
BY ChallengersAssumption, OrdersAssumption DEF Init, TypeOK, Idle, Work

LEMMA GoesWrongType ==
  ASSUME TypeOK, NEW o \in Orders, GoesWrong(o) \/ UNCHANGED <<faulted, faults>>
  PROVE  faulted' \in SUBSET Orders /\ faults' \in 0 .. MaxFaults
BY ChallengersAssumption DEF TypeOK, GoesWrong, Fault

LEMMA EndsType ==
  ASSUME TypeOK, NEW o \in Orders, NEW pc \in {"succeeded", "failing"}, EndsAs(o, pc)
  PROVE  /\ work' \in [Orders -> Work] /\ work'[o] = [Idle EXCEPT !.pc = pc]
         /\ \A q \in Orders : q # o => work'[q] = work[q]
BY DEF TypeOK, EndsAs, Idle, Work

LEMMA BecomesType ==
  ASSUME TypeOK, NEW o \in Orders, NEW w \in Work, w.pc \in Working3, Becomes(o, w)
  PROVE  /\ work' \in [Orders -> Work] /\ work'[o] = Onward(w)
         /\ \A q \in Orders : q # o => work'[q] = work[q]
BY Onwards DEF TypeOK, Becomes

\* What is left of an order's challenges after one of them.
LEMMA DoneType ==
  ASSUME TypeOK, NEW o \in Orders, NEW a \in Authorizations
  PROVE  /\ Done(o, a) \in Work /\ Failing(o, a) \in Work
         /\ Done(o, a) = [work[o] EXCEPT !.left = work[o].left \ {a}]
         /\ Failing(o, a) = [work[o] EXCEPT !.left = work[o].left \ {a},
                                            !.failed = work[o].failed \cup {a}]
         /\ Done(o, a).pc = work[o].pc /\ Failing(o, a).pc = work[o].pc
<1>1. work[o] \in Work
  BY WorkType
<1> QED
  BY <1>1 DEF Done, Failing, Work

\* The state that Present leaves, and the one that CleanUp leaves.
Kept(o, a) ==
    [Done(o, a) EXCEPT
        !.kept = IF Keeps({"token", "zone"}) THEN @ \cup {a} ELSE @,
        !.zones = IF Keeps({"zone"}) THEN @ \cup {ZoneOf[PlaceNow(o, a)]} ELSE @]
Forgotten(o, a) ==
    [Done(o, a) EXCEPT !.kept = @ \ {a}, !.zones = @ \ {ZoneOf[PlaceNow(o, a)]}]

LEMMA KeptType ==
  ASSUME TypeOK, NEW o \in Orders, NEW a \in Authorizations
  PROVE  /\ Kept(o, a) \in Work /\ Forgotten(o, a) \in Work
         /\ Kept(o, a).pc = work[o].pc /\ Forgotten(o, a).pc = work[o].pc
<1>1. Done(o, a) \in Work /\ Done(o, a).pc = work[o].pc
  BY DoneType
<1>2. ZoneOf[PlaceNow(o, a)] \in Zones
  BY SceneType, PlacesAssumption
<1> QED
  BY <1>1, <1>2 DEF Kept, Forgotten, Work

LEMMA RequestType ==
  ASSUME TypeOK, NEW o \in Orders, Request(o) \/ Start(o) PROVE TypeOK'
<1>1. work[o] \in Work
  BY WorkType
<1>2. work' \in [Orders -> Work]
  BY <1>1 DEF Request, Start, TypeOK, Work
<1>3. inForce' \in [Orders \cup {Server} -> Settings]
  BY SceneType DEF Request, Start, TypeOK
<1>4. caller' \in [Orders -> {"none", "waiting", "ok", "error"}]
  BY DEF Request, Start, TypeOK
<1> QED
  BY <1>2, <1>3, <1>4 DEF Request, Start, TypeOK

LEMMA OrderType ==
  ASSUME TypeOK, NEW o \in Orders, OrderCertificate(o) \/ PickBatch(o) PROVE TypeOK'
<1>1. work[o] \in Work /\ AuthorizationsOf[o] \subseteq Authorizations
  BY WorkType, OrdersAssumption
<1>2. work' \in [Orders -> Work]
  <2>1. CASE Accepted(o) \/ AlreadyReplaced(o)
    <3>1. /\ [work[o] EXCEPT !.pc = "picking", !.todo = AuthorizationsOf[o]] \in Work
          /\ [work[o] EXCEPT !.replaces = FALSE] \in Work
      BY <1>1 DEF Work
    <3>2. CASE Accepted(o)
      BY <3>1, <3>2 DEF Accepted, TypeOK
    <3>3. CASE AlreadyReplaced(o)
      BY <3>1, <3>3 DEF AlreadyReplaced, TypeOK
    <3> QED
      BY <2>1, <3>2, <3>3
  <2>2. CASE Refused(o)
    BY <2>2, EndsType DEF Refused
  <2>3. CASE PickBatch(o)
    <3>1. PICK batch \in SUBSET work[o].todo :
             work' = [work EXCEPT ![o].pc = "presenting", ![o].batch = batch,
                                  ![o].left = batch, ![o].todo = @ \ batch]
      BY <2>3 DEF PickBatch
    <3> QED
      BY <1>1, <3>1 DEF TypeOK, Work
  <2> QED
    BY <2>1, <2>2, <2>3 DEF OrderCertificate
<1>3. faulted' \in SUBSET Orders /\ faults' \in 0 .. MaxFaults
  BY GoesWrongType DEF OrderCertificate, PickBatch, Accepted, AlreadyReplaced, Refused
<1>4. UNCHANGED <<scene, inForce, records, issued, caller, canceled>>
  BY DEF OrderCertificate, PickBatch
<1> QED
  BY <1>2, <1>3, <1>4 DEF TypeOK

LEMMA ChallengeType ==
  ASSUME TypeOK, NEW o \in Orders, NEW a \in Authorizations,
         Present(o, a) \/ Solve(o, a) \/ CleanUp(o, a)
  PROVE  TypeOK'
<1>1. /\ Done(o, a) \in Work /\ Failing(o, a) \in Work
      /\ Kept(o, a) \in Work /\ Forgotten(o, a) \in Work
      /\ Done(o, a).pc \in Working3 /\ Failing(o, a).pc \in Working3
      /\ Kept(o, a).pc \in Working3 /\ Forgotten(o, a).pc \in Working3
  <2>1. work[o].pc \in Working3
    BY DEF Present, Solve, CleanUp, At, Working3
  <2> QED
    BY <2>1, DoneType, KeptType
<1>2. \/ Becomes(o, Done(o, a)) \/ Becomes(o, Failing(o, a))
      \/ Becomes(o, Kept(o, a)) \/ Becomes(o, Forgotten(o, a))
  BY DEF Present, Presented, NotPresented, Solve, CleanUp, Kept, Forgotten
<1>3. work' \in [Orders -> Work]
  BY <1>1, <1>2, BecomesType
<1>4. Created(o, a) \in Record
  BY SceneType DEF Created, Record
<1>5. records' \in SUBSET Record
  BY <1>4 DEF Present, Presented, NotPresented, Solve, CleanUp, MergedWith, TypeOK
<1>6. faulted' \in SUBSET Orders /\ faults' \in 0 .. MaxFaults
  BY GoesWrongType DEF Present, Presented, NotPresented, Solve, CleanUp
<1>7. UNCHANGED <<scene, inForce, issued, caller, canceled>>
  BY DEF Present, Solve, CleanUp
<1> QED
  BY <1>3, <1>5, <1>6, <1>7 DEF TypeOK

LEMMA EndType ==
  ASSUME TypeOK, NEW o \in Orders, Finalize(o) \/ Answer(o) PROVE TypeOK'
<1>1. faulted' \in SUBSET Orders /\ faults' \in 0 .. MaxFaults
  BY GoesWrongType DEF Finalize, Answer, GoesWrong
<1>2. CASE Finalize(o)
  <2>1. work' \in [Orders -> Work]
    BY <1>2, EndsType DEF Finalize
  <2>2. issued' \in SUBSET Orders
    BY <1>2 DEF Finalize, TypeOK
  <2> QED
    BY <1>1, <1>2, <2>1, <2>2 DEF Finalize, TypeOK
<1>3. CASE Answer(o)
  <2>1. caller' \in [Orders -> {"none", "waiting", "ok", "error"}]
    BY <1>3 DEF Answer, AnswerOf, TypeOK
  <2> QED
    BY <1>1, <1>3, <2>1 DEF Answer, TypeOK
<1> QED
  BY <1>2, <1>3

LEMMA KilledType ==
  ASSUME TypeOK, NEW os \in SUBSET Orders PROVE Killed(os) \in [Orders -> Work]
BY DEF TypeOK, Killed, Idle, Work

LEMMA WorldType ==
  ASSUME TypeOK, NEW o \in Orders, Cancel(o) \/ ChildDies(o) \/ ServerDies PROVE TypeOK'
<1>1. faulted' \in SUBSET Orders /\ faults' \in 0 .. MaxFaults
  BY ChallengersAssumption DEF Cancel, ChildDies, ServerDies, Fault, Working, TypeOK
<1>2. work' \in [Orders -> Work]
  <2>1. {o} \in SUBSET Orders /\ Working \in SUBSET Orders
    BY DEF Working
  <2> QED
    BY <2>1, KilledType DEF Cancel, ChildDies, ServerDies, TypeOK
<1>3. caller' \in [Orders -> {"none", "waiting", "ok", "error"}]
      /\ canceled' \in SUBSET Orders
  BY DEF Cancel, ChildDies, ServerDies, TypeOK
<1>4. UNCHANGED <<scene, inForce, records, issued>>
  BY DEF Cancel, ChildDies, ServerDies
<1> QED
  BY <1>1, <1>2, <1>3, <1>4 DEF TypeOK

LEMMA TypeStep == TypeOK /\ [Next]_vars => TypeOK'
<1> SUFFICES ASSUME TypeOK, [Next]_vars PROVE TypeOK'
  OBVIOUS
<1>1. ASSUME NEW o \in Orders, Program(o) PROVE TypeOK'
  BY <1>1, RequestType, OrderType, ChallengeType, EndType DEF Program
<1>2. ASSUME NEW o \in Orders, Request(o) \/ Cancel(o) \/ ChildDies(o) PROVE TypeOK'
  BY <1>2, RequestType, WorldType
<1>3. CASE ServerDies
  <2>1. CASE Orders # {}
    BY <1>3, <2>1, WorldType
  <2>2. CASE Orders = {}
    BY <1>3, <2>2, ChallengersAssumption DEF ServerDies, TypeOK, Killed, Working
  <2> QED
    BY <2>1, <2>2
<1>4. CASE UNCHANGED vars
  BY <1>4 DEF vars, TypeOK
<1> QED
  BY <1>1, <1>2, <1>3, <1>4 DEF Next

-----------------------------------------------------------------------------
(* What a step leaves alone.                                               *)

\* What happened to an order stays; the node's configuration is what it is.
LEMMA Lasting ==
  ASSUME TypeOK, [Next]_vars
  PROVE  /\ scene' = scene /\ canceled \subseteq canceled' /\ faulted \subseteq faulted'
         /\ Agreeing' = Agreeing /\ WaitsLongEnough' = WaitsLongEnough
         /\ \A o \in Orders : /\ Aborted(o) => Aborted(o)'
                              /\ Sound(o)' => Sound(o)
                              /\ Lucky(o)' => Lucky(o)
         /\ \A r \in Record : ZoneIsForgotten(r)' = ZoneIsForgotten(r)
<1>1. scene' = scene /\ canceled \subseteq canceled' /\ faulted \subseteq faulted'
  <2>1. ASSUME NEW o \in Orders, GoesWrong(o) \/ UNCHANGED <<faulted, faults>>
        PROVE  faulted \subseteq faulted'
    BY <2>1 DEF GoesWrong, Fault
  <2>2. ASSUME NEW o \in Orders, NEW a \in Authorizations,
               Present(o, a) \/ Solve(o, a) \/ CleanUp(o, a)
        PROVE  /\ scene' = scene /\ canceled' = canceled
               /\ GoesWrong(o) \/ UNCHANGED <<faulted, faults>>
    BY <2>2 DEF Present, Presented, NotPresented, Solve, CleanUp
  <2>3. ASSUME NEW o \in Orders,
               Start(o) \/ OrderCertificate(o) \/ PickBatch(o) \/ Finalize(o) \/ Answer(o)
        PROVE  /\ scene' = scene /\ canceled' = canceled
               /\ GoesWrong(o) \/ UNCHANGED <<faulted, faults>>
    BY <2>3 DEF Start, OrderCertificate, Accepted, AlreadyReplaced, Refused,
       PickBatch, Finalize, Answer, GoesWrong
  <2>4. ASSUME NEW o \in Orders, Request(o) \/ Cancel(o) \/ ChildDies(o)
        PROVE  scene' = scene /\ canceled \subseteq canceled' /\ faulted \subseteq faulted'
    BY <2>4 DEF Request, Cancel, ChildDies, Fault
  <2>5. CASE ServerDies
    BY <2>5 DEF ServerDies
  <2>6. CASE UNCHANGED vars
    BY <2>6 DEF vars
  <2> QED
    BY <2>1, <2>2, <2>3, <2>4, <2>5, <2>6 DEF Next, Program
<1>2. /\ Agreeing' = Agreeing /\ WaitsLongEnough' = WaitsLongEnough
      /\ \A o \in Orders : Merged(o)' = Merged(o)
      /\ \A r \in Record : ZoneIsForgotten(r)' = ZoneIsForgotten(r)
  BY <1>1 DEF Agreeing, WaitsLongEnough, Merged, ZoneIsForgotten, Challenger, Keeps,
     RightPlace
<1>3. \A o \in Orders : /\ Aborted(o) => Aborted(o)'
                        /\ Sound(o)' => Sound(o)
  BY <1>1 DEF Aborted, Sound, Disturbed
<1> QED
  BY <1>1, <1>2, <1>3 DEF Lucky

\* A request that goes wrong disturbs its order.
LEMMA GoesWrongIsUnsound ==
  ASSUME TypeOK, [Next]_vars, NEW o \in Orders, GoesWrong(o)
  PROVE  ~Sound(o)' /\ (o \in faulted' \/ Aborted(o)')
<1>1. CASE Fault(o)
  BY <1>1 DEF Fault, Sound
<1>2. CASE Aborted(o)
  <2>1. Aborted(o)'
    BY <1>2, Lasting
  <2> QED
    BY <2>1 DEF Aborted, Sound, Disturbed
<1> QED
  BY <1>1, <1>2 DEF GoesWrong

\* Undisturbed orders agree on the place of a challenge.
LEMMA SoundAgrees == ASSUME NEW o \in Orders, Sound(o) PROVE Agreeing
<1>1. scene.multi \/ \A q \in Orders : scene.wish[q] = scene.wish[o]
  BY DEF Sound, Disturbed
<1> QED
  BY <1>1 DEF Agreeing

LEMMA PlacesAgree ==
  ASSUME TypeOK, InPlace, Agreeing, NEW o \in Orders, work[o].pc \in Started,
         NEW a \in Authorizations
  PROVE  PlaceNow(o, a) = RightPlace(o, a)
BY DEF InPlace, PlaceNow, RightPlace

\* An order has steps of its own, and its records are its own business, except
\* that values of a common name may be deleted together.
LEMMA OthersSteps ==
  ASSUME TypeOK, InPlace, NEW q \in Orders, Request(q) \/ Program(q) \/ Cancel(q) \/ ChildDies(q),
         NEW o \in Orders, o # q
  PROVE  /\ work'[o] = work[o] /\ caller'[o] = caller[o]
         /\ o \in issued' <=> o \in issued
         /\ o \in faulted' <=> o \in faulted
         /\ o \in canceled' <=> o \in canceled
         /\ \A r \in records' : r.order = o => r \in records
<1>1. CASE Request(q) \/ Start(q) \/ Cancel(q)
  BY <1>1 DEF Request, Start, Cancel, TypeOK
<1>2. CASE OrderCertificate(q) \/ PickBatch(q)
  BY <1>2 DEF OrderCertificate, Accepted, AlreadyReplaced, Refused, PickBatch,
     GoesWrong, Fault, EndsAs, TypeOK
<1>3. ASSUME NEW a \in Authorizations, Present(q, a) \/ Solve(q, a) \/ CleanUp(q, a)
      PROVE  /\ work'[o] = work[o] /\ UNCHANGED <<caller, issued, canceled>>
             /\ o \in faulted' <=> o \in faulted
             /\ \A r \in records' : r.order = o => r \in records
  <2>1. work'[o] = work[o]
    BY <1>3 DEF Present, Presented, NotPresented, Solve, CleanUp, Becomes, TypeOK
  <2>2. UNCHANGED <<caller, issued, canceled>> /\ (o \in faulted' <=> o \in faulted)
    BY <1>3 DEF Present, Presented, NotPresented, Solve, CleanUp, GoesWrong, Fault
  <2>3. records' \subseteq records \cup {Created(q, a)}
    BY <1>3 DEF Present, Presented, NotPresented, Solve, CleanUp, MergedWith
  <2> QED
    BY <2>1, <2>2, <2>3 DEF Created
<1>4. CASE Finalize(q) \/ Answer(q)
  BY <1>4 DEF Finalize, Answer, GoesWrong, Fault, EndsAs, TypeOK
<1>5. CASE ChildDies(q)
  BY <1>5 DEF ChildDies, Killed, Fault, TypeOK
<1> QED
  BY <1>1, <1>2, <1>3, <1>4, <1>5 DEF Program

\* What a challenge leaves, before the order goes on.
LEMMA Leaves ==
  ASSUME TypeOK, NEW o \in Orders, NEW a \in Authorizations
  PROVE  /\ \A w \in {Done(o, a), Failing(o, a), Kept(o, a), Forgotten(o, a)} :
               /\ w \in Work /\ w.pc = work[o].pc
               /\ w.todo = work[o].todo /\ w.batch = work[o].batch
               /\ w.left = work[o].left \ {a}
               /\ w.failed \subseteq work[o].failed \cup {a}
         /\ \A w \in {Done(o, a), Kept(o, a), Forgotten(o, a)} :
               w.failed = work[o].failed
         /\ Failing(o, a).failed = work[o].failed \cup {a}
         /\ \A w \in {Done(o, a), Failing(o, a)} :
               w.kept = work[o].kept /\ w.zones = work[o].zones
         /\ Kept(o, a).kept =
               IF Keeps({"token", "zone"}) THEN work[o].kept \cup {a} ELSE work[o].kept
         /\ Kept(o, a).zones =
               IF Keeps({"zone"}) THEN work[o].zones \cup {ZoneOf[PlaceNow(o, a)]}
                                  ELSE work[o].zones
         /\ Forgotten(o, a).kept = work[o].kept \ {a}
         /\ Forgotten(o, a).zones = work[o].zones \ {ZoneOf[PlaceNow(o, a)]}
<1> DEFINE w == work[o]
           zone == ZoneOf[PlaceNow(o, a)]
<1>1. w \in Work /\ zone \in Zones
  BY WorkType, SceneType, PlacesAssumption
<1>2. /\ w.left \ {a} \in SUBSET Authorizations
      /\ w.failed \in SUBSET Authorizations
      /\ w.failed \cup {a} \in SUBSET Authorizations
      /\ w.kept \in SUBSET Authorizations /\ w.zones \in SUBSET Zones
  BY WorkType
<1>3. Done(o, a) = [w EXCEPT !.left = w.left \ {a}, !.failed = w.failed]
  <2>1. [w EXCEPT !.left = w.left \ {a}, !.failed = w.failed] = [w EXCEPT !.left = w.left \ {a}]
    BY <1>1 DEF Work
  <2> QED
    BY <2>1, DoneType
<1>4. Failing(o, a) = [w EXCEPT !.left = w.left \ {a}, !.failed = w.failed \cup {a}]
  BY DoneType
<1> HIDE DEF w
<1>5. LET v == Done(o, a) IN
      /\ v \in Work /\ v.pc = w.pc /\ v.todo = w.todo /\ v.batch = w.batch
      /\ v.left = w.left \ {a} /\ v.failed = w.failed /\ v.kept = w.kept /\ v.zones = w.zones
  BY <1>1, <1>2, <1>3 DEF Work
<1>6. LET v == Failing(o, a) IN
      /\ v \in Work /\ v.pc = w.pc /\ v.todo = w.todo /\ v.batch = w.batch
      /\ v.left = w.left \ {a} /\ v.failed = w.failed \cup {a}
      /\ v.kept = w.kept /\ v.zones = w.zones
  BY <1>1, <1>2, <1>4 DEF Work
<1> DEFINE d == Done(o, a)
           K == IF Keeps({"token", "zone"}) THEN w.kept \cup {a} ELSE w.kept
           Z == IF Keeps({"zone"}) THEN w.zones \cup {zone} ELSE w.zones
<1>7. K \in SUBSET Authorizations /\ Z \in SUBSET Zones
      /\ w.kept \ {a} \in SUBSET Authorizations /\ w.zones \ {zone} \in SUBSET Zones
  BY <1>1, <1>2
<1>8. /\ Kept(o, a) = [d EXCEPT !.kept = K, !.zones = Z]
      /\ Forgotten(o, a) = [d EXCEPT !.kept = w.kept \ {a}, !.zones = w.zones \ {zone}]
  <2>1. /\ Kept(o, a) = [d EXCEPT
                 !.kept = IF Keeps({"token", "zone"}) THEN d.kept \cup {a} ELSE d.kept,
                 !.zones = IF Keeps({"zone"}) THEN d.zones \cup {zone} ELSE d.zones]
        /\ Forgotten(o, a) = [d EXCEPT !.kept = d.kept \ {a}, !.zones = d.zones \ {zone}]
    BY DEF Kept, Forgotten
  <2>2. d.kept = w.kept /\ d.zones = w.zones
    BY <1>5
  <2> QED
    BY <2>1, <2>2
<1>9. LET v == Kept(o, a) IN
      /\ v \in Work /\ v.pc = w.pc /\ v.todo = w.todo /\ v.batch = w.batch
      /\ v.left = w.left \ {a} /\ v.failed = w.failed /\ v.kept = K /\ v.zones = Z
  <2>1. d \in Work /\ d.pc = w.pc /\ d.todo = w.todo /\ d.batch = w.batch
        /\ d.left = w.left \ {a} /\ d.failed = w.failed
    BY <1>5
  <2> HIDE DEF d, K, Z
  <2> QED
    BY <1>7, <1>8, <2>1 DEF Work
<1>10. LET v == Forgotten(o, a) IN
      /\ v \in Work /\ v.pc = w.pc /\ v.todo = w.todo /\ v.batch = w.batch
      /\ v.left = w.left \ {a} /\ v.failed = w.failed
      /\ v.kept = w.kept \ {a} /\ v.zones = w.zones \ {zone}
  <2>1. d \in Work /\ d.pc = w.pc /\ d.todo = w.todo /\ d.batch = w.batch
        /\ d.left = w.left \ {a} /\ d.failed = w.failed
    BY <1>5
  <2> DEFINE K2 == w.kept \ {a}
             Z2 == w.zones \ {zone}
  <2>2. Forgotten(o, a) = [d EXCEPT !.kept = K2, !.zones = Z2]
        /\ K2 \in SUBSET Authorizations /\ Z2 \in SUBSET Zones
    BY <1>7, <1>8
  <2>3. LET v == [d EXCEPT !.kept = K2, !.zones = Z2] IN
        /\ v \in Work /\ v.pc = d.pc /\ v.todo = d.todo /\ v.batch = d.batch
        /\ v.left = d.left /\ v.failed = d.failed /\ v.kept = K2 /\ v.zones = Z2
    <3> HIDE DEF d, K2, Z2
    <3> QED
      BY <2>1, <2>2 DEF Work
  <2> QED
    BY <2>1, <2>2, <2>3
<1> QED
  BY <1>5, <1>6, <1>9, <1>10 DEF w

LEMMA LeavesShape ==
  ASSUME TypeOK, NEW o \in Orders, NEW a \in Authorizations,
         NEW w \in {Done(o, a), Failing(o, a), Kept(o, a), Forgotten(o, a)}
  PROVE  /\ w \in Work /\ w.pc = work[o].pc
         /\ w.todo = work[o].todo /\ w.batch = work[o].batch
         /\ w.left = work[o].left \ {a}
         /\ w.failed \subseteq work[o].failed \cup {a}
<1>1. \A v \in {Done(o, a), Failing(o, a), Kept(o, a), Forgotten(o, a)} :
               /\ v \in Work /\ v.pc = work[o].pc
               /\ v.todo = work[o].todo /\ v.batch = work[o].batch
               /\ v.left = work[o].left \ {a}
               /\ v.failed \subseteq work[o].failed \cup {a}
  BY Leaves, ZenonT(60)
<1> QED
  BY <1>1

LEMMA ChallengeStep ==
  ASSUME TypeOK, NEW o \in Orders, NEW a \in Authorizations,
         Present(o, a) \/ Solve(o, a) \/ CleanUp(o, a)
  PROVE  /\ work[o].pc \in Working3 /\ a \in work[o].left
         /\ \E w \in {Done(o, a), Failing(o, a), Kept(o, a), Forgotten(o, a)} :
               work'[o] = Onward(w) /\ w \in Work /\ w.pc \in Working3
<1>1. work[o].pc \in Working3 /\ a \in work[o].left
  BY DEF Present, Solve, CleanUp, At, Working3
<1>2. PICK w \in {Done(o, a), Failing(o, a), Kept(o, a), Forgotten(o, a)} : Becomes(o, w)
  BY DEF Present, Presented, NotPresented, Solve, CleanUp, Kept, Forgotten
<1>3. w \in Work /\ w.pc \in Working3
  <2>1. \A v \in {Done(o, a), Failing(o, a), Kept(o, a), Forgotten(o, a)} :
               /\ v \in Work /\ v.pc = work[o].pc
               /\ v.todo = work[o].todo /\ v.batch = work[o].batch
               /\ v.left = work[o].left \ {a}
               /\ v.failed \subseteq work[o].failed \cup {a}
    BY Leaves, ZenonT(60)
  <2>2. w \in Work /\ w.pc = work[o].pc
    BY <2>1
  <2> QED
    BY <1>1, <2>2, Zenon
<1> QED
  BY <1>1, <1>2, <1>3, BecomesType

\* An order gets under way by Start only.
LEMMA UnderWay ==
  ASSUME TypeOK, InPlace, [Next]_vars, NEW o \in Orders, work'[o].pc \in Started
  PROVE  work[o].pc \in Started \/ Start(o)
<1>1. ASSUME NEW q \in Orders, Request(q) \/ Program(q) \/ Cancel(q) \/ ChildDies(q)
      PROVE  work[o].pc \in Started \/ Start(o)
  <2>1. CASE o # q
    BY <1>1, <2>1, OthersSteps
  <2>2. CASE o = q
    <3>1. CASE Request(o) \/ Cancel(o) \/ ChildDies(o)
      BY <3>1, <1>1 DEF Request, Cancel, ChildDies, Killed, Idle, Started, Working3, TypeOK, Work
    <3>2. CASE OrderCertificate(o) \/ PickBatch(o) \/ Finalize(o)
      BY <3>2 DEF OrderCertificate, Accepted, AlreadyReplaced, Refused, PickBatch,
         Finalize, EndsAs, At, Idle, Started, Working3, TypeOK
    <3>3. CASE Answer(o)
      BY <3>3 DEF Answer
    <3>4. ASSUME NEW a \in Authorizations, Present(o, a) \/ Solve(o, a) \/ CleanUp(o, a)
          PROVE  work[o].pc \in Started
      BY <3>4, ChallengeStep DEF Started
    <3> QED
      BY <1>1, <2>2, <3>1, <3>2, <3>3, <3>4 DEF Program
  <2> QED
    BY <2>1, <2>2
<1>2. CASE ServerDies
  BY <1>2 DEF ServerDies, Killed, Idle, Started, Working3, TypeOK
<1>3. CASE UNCHANGED vars
  BY <1>3 DEF vars
<1> QED
  BY <1>1, <1>2, <1>3 DEF Next

LEMMA InPlaceStep == TypeOK /\ InPlace /\ [Next]_vars => InPlace'
<1> SUFFICES ASSUME TypeOK, InPlace, [Next]_vars, Agreeing PROVE InPlace'
  BY Lasting DEF InPlace
<1>0. scene' = scene
  BY Lasting
<1>1. \A o \in Orders : Process(o)' = Process(o)
  BY <1>0 DEF Process
<1>2. \A o \in Orders, a \in Authorizations : RightPlace(o, a)' = RightPlace(o, a)
  BY <1>0 DEF RightPlace
<1>3. ASSUME NEW o \in Orders, work'[o].pc \in Started
      PROVE  inForce'[Process(o)] = scene.wish[o]
  <2>1. ASSUME NEW q \in Orders, Start(q) PROVE inForce'[Process(o)] = scene.wish[o]
    <3>1. inForce' = [inForce EXCEPT ![Process(q)] = scene.wish[q]]
          /\ Process(o) \in Orders \cup {Server} /\ Process(q) \in Orders \cup {Server}
      BY <2>1, SceneType DEF Start
    <3>2. CASE Process(o) = Process(q)
      <4>1. scene.wish[o] = scene.wish[q]
        BY <3>2, ServerAssumption DEF Agreeing, Process
      <4> QED
        BY <3>1, <3>2, <4>1 DEF TypeOK
    <3>3. CASE Process(o) # Process(q)
      <4>1. o # q
        BY <3>3
      <4>2. work[o].pc \in Started
        BY <1>3, <2>1, <4>1, OthersSteps DEF Program
      <4> QED
        BY <3>1, <3>3, <4>2 DEF TypeOK, InPlace
    <3> QED
      BY <3>2, <3>3
  <2>2. CASE ~\E q \in Orders : Start(q)
    <3>1. work[o].pc \in Started
      BY <1>3, <2>2, UnderWay
    <3>2. inForce' = inForce
      BY <2>2, ZenonT(60) DEF Next, Request, Program, OrderCertificate, PickBatch, Present, Solve,
         CleanUp, Finalize, Answer, Cancel, ChildDies, ServerDies, vars
    <3> QED
      BY <3>1, <3>2 DEF InPlace
  <2> QED
    BY <2>1, <2>2
<1>4. ASSUME NEW r \in records' PROVE r.place = RightPlace(r.order, r.authz)'
  <2>1. CASE r \in records
    <3>1. r.order \in Orders /\ r.authz \in Authorizations
      BY <2>1 DEF TypeOK, Record
    <3> QED
      BY <1>2, <2>1, <3>1 DEF InPlace
  <2>2. CASE r \notin records
    <3>1. PICK q \in Orders, a \in Authorizations : Present(q, a) /\ r = Created(q, a)
      <4>1. ASSUME NEW q \in Orders, NEW a \in Authorizations, Solve(q, a) \/ CleanUp(q, a)
            PROVE  records' \subseteq records
        BY <4>1 DEF Solve, CleanUp, MergedWith
      <4>2. ASSUME NEW q \in Orders, NEW a \in Authorizations, Present(q, a)
            PROVE  records' \subseteq records \cup {Created(q, a)}
        BY <4>2 DEF Present, Presented, NotPresented
      <4>3. CASE UNCHANGED records
        BY <1>4, <2>2, <4>3
      <4>4. ASSUME NEW q \in Orders, Request(q) \/ Start(q) \/ OrderCertificate(q) \/ PickBatch(q)
               \/ Finalize(q) \/ Answer(q) \/ Cancel(q) \/ ChildDies(q) \/ ServerDies
            PROVE  UNCHANGED records
        BY <4>4 DEF Request, Start, OrderCertificate, PickBatch, Finalize, Answer, Cancel,
           ChildDies, ServerDies
      <4>5. CASE ServerDies
        BY <4>3, <4>5 DEF ServerDies
      <4>6. CASE UNCHANGED vars
        BY <4>3, <4>6 DEF vars
      <4> QED
        BY <1>4, <2>2, <4>1, <4>2, <4>3, <4>4, <4>5, <4>6 DEF Next, Program
    <3>2. work[q].pc \in Started
      BY <3>1 DEF Present, At, Started, Working3
    <3> QED
      BY <1>2, <3>1, <3>2, PlacesAgree DEF Created
  <2> QED
    BY <2>1, <2>2
<1> QED
  BY <1>0, <1>1, <1>3, <1>4 DEF InPlace

-----------------------------------------------------------------------------
(* The challenges of an order.                                             *)

\* The records after a step: those before it, and what Present creates.
LEMMA RecordsStep ==
  ASSUME NEW o \in Orders, Request(o) \/ Program(o) \/ Cancel(o) \/ ChildDies(o)
  PROVE  \/ records' \subseteq records
         \/ \E a \in Authorizations : Present(o, a) /\ records' \subseteq records \cup {Created(o, a)}
<1>1. ASSUME NEW a \in Authorizations, Solve(o, a) \/ CleanUp(o, a)
      PROVE  records' \subseteq records
  BY <1>1 DEF Solve, CleanUp, MergedWith
<1>2. ASSUME NEW a \in Authorizations, Present(o, a)
      PROVE  records' \subseteq records \cup {Created(o, a)}
  BY <1>2 DEF Present, Presented, NotPresented
<1>3. CASE Request(o) \/ Start(o) \/ OrderCertificate(o) \/ PickBatch(o) \/ Finalize(o)
           \/ Answer(o) \/ Cancel(o) \/ ChildDies(o)
  BY <1>3 DEF Request, Start, OrderCertificate, PickBatch, Finalize, Answer, Cancel,
     ChildDies
<1> QED
  BY <1>1, <1>2, <1>3 DEF Program

LEMMA ShapedChallenge ==
  ASSUME TypeOK, NEW o \in Orders, Shaped(o), NEW a \in Authorizations,
         Present(o, a) \/ Solve(o, a) \/ CleanUp(o, a)
  PROVE  Shaped(o)'
<1>1. /\ work[o].pc \in Working3 /\ a \in work[o].left
      /\ work[o].pc \notin {"idle", "starting", "ordering"}
  BY ChallengeStep DEF Working3
<1>2. PICK w \in {Done(o, a), Failing(o, a), Kept(o, a), Forgotten(o, a)} :
         work'[o] = Onward(w) /\ w \in Work /\ w.pc \in Working3
  BY ChallengeStep
<1>3. /\ w.todo = work[o].todo /\ w.batch = work[o].batch
      /\ w.left = work[o].left \ {a} /\ w.failed \subseteq work[o].failed \cup {a}
      /\ w.pc = work[o].pc
  BY <1>2, LeavesShape
<1>4. a \in work[o].batch /\ a \in AuthorizationsOf[o] /\ a \notin work[o].todo
  BY <1>1 DEF Shaped
<1> DEFINE v == Onward(w)
<1>5. /\ v.todo = work[o].todo /\ v.failed \subseteq work[o].failed \cup {a}
      /\ v.batch \subseteq work[o].batch /\ v.left \subseteq v.batch
      /\ v.pc \notin Working3 => v.batch = {}
      /\ v.pc \in Working3 \cup {"picking"}
      /\ v.pc = "presenting" => v.batch # {}
  <2>1. w.left \subseteq w.batch /\ (w.pc = "presenting" => w.batch # {})
    BY <1>3 DEF Shaped
  <2> QED
    BY <1>2, <1>3, <2>1, Onwards DEF Working3
<1>6. ASSUME NEW r \in records', r.order = o PROVE r.authz \in AuthorizationsOf[o]
  <2>1. CASE r \in records
    BY <1>6, <2>1 DEF Shaped
  <2>2. CASE r = Created(o, a)
    BY <1>4, <2>2 DEF Created
  <2> QED
    BY <1>6, <2>1, <2>2 DEF Present, Presented, NotPresented, Solve, CleanUp, MergedWith
<1>7. v.pc \notin {"idle", "starting", "ordering"}
  BY <1>5 DEF Working3
<1> HIDE DEF v
<1>8. work'[o] = v
  BY <1>2 DEF v
<1> QED
  BY <1>3, <1>4, <1>5, <1>6, <1>7, <1>8 DEF Shaped

LEMMA IdleFields ==
  \A pc : LET w == [Idle EXCEPT !.pc = pc] IN
          /\ w.pc = pc /\ w.todo = {} /\ w.batch = {} /\ w.left = {} /\ w.failed = {}
          /\ w.kept = {} /\ w.zones = {}
BY DEF Idle

LEMMA ShapedOwn ==
  ASSUME TypeOK, NEW o \in Orders, Shaped(o),
         Request(o) \/ Program(o) \/ Cancel(o) \/ ChildDies(o)
  PROVE  Shaped(o)'
<1>0. work[o] \in Work
  BY WorkType
<1>1. CASE Request(o) \/ Start(o)
  <2>1. /\ UNCHANGED records
        /\ work[o].pc \in {"idle", "starting"}
        /\ work'[o].pc \in {"starting", "ordering"}
        /\ work'[o].todo = work[o].todo /\ work'[o].batch = work[o].batch
        /\ work'[o].left = work[o].left /\ work'[o].failed = work[o].failed
    BY <1>0, <1>1 DEF Request, Start, At, TypeOK, Work
  <2> QED
    BY <2>1 DEF Shaped, Working3
<1>2. CASE Accepted(o) /\ OrderCertificate(o)
  <2>1. /\ UNCHANGED records /\ At(o, "ordering")
        /\ work'[o] = [work[o] EXCEPT !.pc = "picking", !.todo = AuthorizationsOf[o]]
    BY <1>2 DEF Accepted, OrderCertificate, TypeOK
  <2>2. /\ work'[o].pc = "picking" /\ work'[o].todo = AuthorizationsOf[o]
        /\ work'[o].batch = work[o].batch /\ work'[o].left = work[o].left
        /\ work'[o].failed = work[o].failed
    BY <1>0, <2>1 DEF Work
  <2> QED
    BY <2>1, <2>2 DEF Shaped, Working3, At
<1>3. CASE AlreadyReplaced(o) /\ OrderCertificate(o)
  <2>1. /\ UNCHANGED records
        /\ work'[o] = [work[o] EXCEPT !.replaces = FALSE]
    BY <1>3 DEF AlreadyReplaced, OrderCertificate, TypeOK
  <2>2. /\ work'[o].pc = work[o].pc /\ work'[o].todo = work[o].todo
        /\ work'[o].batch = work[o].batch /\ work'[o].left = work[o].left
        /\ work'[o].failed = work[o].failed
    BY <1>0, <2>1 DEF Work
  <2> QED
    BY <2>1, <2>2 DEF Shaped
<1>4. ASSUME UNCHANGED records, NEW pc \in {"succeeded", "failing", "dead"},
             work'[o] = [Idle EXCEPT !.pc = pc]
      PROVE  Shaped(o)'
  BY <1>4, IdleFields DEF Shaped, Working3
<1>5. CASE Refused(o) /\ OrderCertificate(o)
  <2>1. UNCHANGED records /\ work'[o] = [Idle EXCEPT !.pc = "failing"]
    BY <1>5, EndsType DEF Refused, OrderCertificate
  <2> QED
    BY <1>4, <2>1
<1>6. CASE PickBatch(o)
  <2>1. PICK batch \in SUBSET work[o].todo :
           /\ IF Challenger.together THEN batch = work[o].todo
                                     ELSE Cardinality(batch) = 1
           /\ work' = [work EXCEPT ![o].pc = "presenting", ![o].batch = batch,
                                   ![o].left = batch, ![o].todo = @ \ batch]
    BY <1>6 DEF PickBatch
  <2>2. batch # {} /\ At(o, "picking") /\ UNCHANGED records
    <3>1. Cardinality(batch) = 1 => batch # {}
      BY FS_EmptySet
    <3>2. work[o].todo # {} /\ At(o, "picking") /\ UNCHANGED records
      BY <1>6 DEF PickBatch
    <3> QED
      BY <2>1, <3>1, <3>2
  <2>3. /\ work'[o].pc = "presenting" /\ work'[o].batch = batch
        /\ work'[o].left = batch /\ work'[o].todo = work[o].todo \ batch
        /\ work'[o].failed = work[o].failed
    BY <1>0, <2>1 DEF TypeOK, Work
  <2> QED
    BY <2>2, <2>3 DEF Shaped, Working3, At
<1>7. CASE Finalize(o)
  <2>1. UNCHANGED records
        /\ \E pc \in {"succeeded", "failing"} : work'[o] = [Idle EXCEPT !.pc = pc]
    BY <1>7, EndsType DEF Finalize
  <2> QED
    BY <1>4, <2>1
<1>8. CASE Answer(o) \/ Cancel(o)
  BY <1>8 DEF Answer, Cancel, Shaped
<1>9. CASE ChildDies(o)
  <2>1. UNCHANGED records /\ work'[o] = [Idle EXCEPT !.pc = "dead"]
    BY <1>9 DEF ChildDies, Killed
  <2> QED
    BY <1>4, <2>1
<1>10. CASE OrderCertificate(o)
  BY <1>2, <1>3, <1>5, <1>10 DEF OrderCertificate
<1> QED
  BY <1>1, <1>6, <1>7, <1>8, <1>9, <1>10, ShapedChallenge DEF Program

LEMMA ShapedStep ==
  ASSUME TypeOK, InPlace, [Next]_vars, \A o \in Orders : Shaped(o)
  PROVE  \A o \in Orders : Shaped(o)'
<1> TAKE o \in Orders
<1>1. ASSUME NEW q \in Orders, Request(q) \/ Program(q) \/ Cancel(q) \/ ChildDies(q)
      PROVE  Shaped(o)'
  <2>1. CASE o = q
    BY <1>1, <2>1, ShapedOwn
  <2>2. CASE o # q
    <3>1. /\ work'[o] = work[o]
          /\ \A r \in records' : r.order = o => r \in records
      BY <1>1, <2>2, OthersSteps
    <3> QED
      BY <3>1 DEF Shaped
  <2> QED
    BY <2>1, <2>2
<1>2. CASE ServerDies
  <2>1. /\ UNCHANGED records
        /\ work'[o] = work[o] \/ work'[o] = [Idle EXCEPT !.pc = "dead"]
    BY <1>2 DEF ServerDies, Killed
  <2>2. CASE work'[o] = work[o]
    BY <2>1, <2>2 DEF Shaped
  <2>3. CASE work'[o] = [Idle EXCEPT !.pc = "dead"]
    BY <2>1, <2>3, IdleFields DEF Shaped, Working3
  <2> QED
    BY <2>1, <2>2, <2>3
<1>3. CASE UNCHANGED vars
  BY <1>3 DEF vars, Shaped
<1> QED
  BY <1>1, <1>2, <1>3 DEF Next

-----------------------------------------------------------------------------
(* What the node hears.                                                    *)

LEMMA HeardStep ==
  ASSUME TypeOK, InPlace, [Next]_vars, \A o \in Orders : Heard(o)
  PROVE  \A o \in Orders : Heard(o)'
<1> TAKE o \in Orders
<1>0. /\ Aborted(o) => Aborted(o)'
      /\ o \in faulted => o \in faulted'
      /\ Heard(o)
  BY Lasting
<1>1. ASSUME NEW q \in Orders, Request(q) \/ Program(q) \/ Cancel(q) \/ ChildDies(q)
      PROVE  Heard(o)'
  <2>1. CASE o # q
    BY <1>0, <1>1, <2>1, OthersSteps DEF Heard, At, Ended
  <2>2. CASE o = q
    <3>1. ASSUME ~Ended(o), UNCHANGED issued, ~At(o, "succeeded")',
                 caller'[o] = caller[o] \/ caller'[o] = "waiting"
          PROVE  Heard(o)'
      BY <1>0, <3>1 DEF Heard
    <3>2. CASE Request(o) \/ Start(o) \/ OrderCertificate(o) \/ PickBatch(o)
      <4>1. ~Ended(o) /\ UNCHANGED issued
            /\ (caller'[o] = caller[o] \/ caller'[o] = "waiting")
        BY <3>2 DEF Request, Start, OrderCertificate, Accepted, AlreadyReplaced, Refused,
           PickBatch, Ended, At, TypeOK
      <4>2. work[o] \in Work
        BY WorkType
      <4>3. work'[o].pc # "succeeded"
        <5>1. CASE Request(o) \/ Start(o)
          BY <4>2, <5>1 DEF Request, Start, TypeOK, Work
        <5>2. CASE Accepted(o) \/ AlreadyReplaced(o)
          BY <4>1, <4>2, <5>2 DEF Accepted, AlreadyReplaced, Ended, At, TypeOK, Work
        <5>3. CASE Refused(o)
          BY <5>3, EndsType, IdleFields DEF Refused
        <5>4. CASE PickBatch(o)
          BY <4>2, <5>4 DEF PickBatch, TypeOK, Work
        <5> QED
          BY <3>2, <5>1, <5>2, <5>3, <5>4 DEF OrderCertificate
      <4> QED
        BY <3>1, <4>1, <4>3 DEF At
    <3>3. ASSUME NEW a \in Authorizations, Present(o, a) \/ Solve(o, a) \/ CleanUp(o, a)
          PROVE  Heard(o)'
      <4>1. ~Ended(o)
        BY <3>3 DEF Present, Solve, CleanUp, At, Ended
      <4>2. UNCHANGED <<issued, caller>>
        BY <3>3 DEF Present, Solve, CleanUp
      <4>3. work'[o].pc # "succeeded"
        BY <3>3, ChallengeStep, Onwards DEF Working3
      <4> QED
        BY <3>1, <4>1, <4>2, <4>3 DEF At
    <3>4. CASE Finalize(o)
      <4>1. o \notin issued /\ caller' = caller /\ caller[o] \notin {"ok", "error"}
        BY <1>0, <3>4 DEF Finalize, Heard, Ended, At
      <4>2. CASE EndsAs(o, "succeeded") /\ issued' = issued \cup {o}
        <5>1. work'[o].pc = "succeeded"
          BY <4>2, EndsType, IdleFields
        <5> QED
          BY <1>0, <4>1, <4>2, <5>1, <3>4, <1>1 DEF Heard, Ended, At, Finalize
      <4>3. CASE EndsAs(o, "failing") /\ (issued' = issued \/ GoesWrong(o))
        <5>1. work'[o].pc = "failing"
          BY <4>3, EndsType, IdleFields
        <5>2. CASE issued' = issued
          BY <1>0, <4>1, <5>1, <5>2 DEF Heard, Ended, At
        <5>3. CASE GoesWrong(o)
          <6>1. o \in faulted' \/ Aborted(o)'
            BY <5>3, GoesWrongIsUnsound
          <6> QED
            BY <4>1, <5>1, <6>1 DEF Heard, Ended, At
        <5> QED
          BY <4>3, <5>2, <5>3
      <4> QED
        BY <3>4, <4>2, <4>3 DEF Finalize
    <3>5. CASE Answer(o)
      <4>1. work' = work /\ issued' = issued
        BY <3>5 DEF Answer
      <4>2. caller'[o] = AnswerOf(o) \/ (caller'[o] = "error" /\ o \in faulted')
        BY <3>5 DEF Answer, Fault, TypeOK
      <4>3. Ended(o) /\ (At(o, "succeeded") => o \in issued)
        BY <1>0, <3>5 DEF Answer, Heard
      <4>4. /\ Ended(o)' /\ (At(o, "succeeded")' <=> At(o, "succeeded"))
            /\ o \in issued' <=> o \in issued
        BY <4>1, <4>3 DEF Ended, At
      <4>5. CASE At(o, "succeeded")
        <5>1. caller'[o] = "ok" \/ (caller'[o] = "error" /\ o \in faulted')
          BY <4>2, <4>5 DEF AnswerOf
        <5> QED
          BY <4>3, <4>4, <4>5, <5>1 DEF Heard
      <4>6. CASE ~At(o, "succeeded")
        <5>1. caller'[o] = "error" /\ (o \in issued => o \in faulted' \/ Aborted(o)')
          BY <1>0, <4>2, <4>6 DEF AnswerOf, Heard
        <5> QED
          BY <4>3, <4>4, <4>6, <5>1 DEF Heard
      <4> QED
        BY <4>5, <4>6
    <3>6. CASE Cancel(o)
      BY <1>0, <3>6 DEF Cancel, Heard, Ended, At
    <3>7. CASE ChildDies(o)
      <4>1. ~Ended(o) /\ UNCHANGED <<issued, caller>>
        BY <3>7 DEF ChildDies, Working
      <4>2. work'[o].pc = "dead"
        BY <3>7, IdleFields DEF ChildDies, Killed
      <4> QED
        BY <3>1, <4>1, <4>2 DEF At
    <3> QED
      BY <1>1, <2>2, <3>2, <3>3, <3>4, <3>5, <3>6, <3>7 DEF Program
  <2> QED
    BY <2>1, <2>2
<1>2. CASE ServerDies
  <2>1. issued' = issued /\ caller'[o] \in {caller[o], "none"}
    BY <1>2 DEF ServerDies, TypeOK
  <2>2. work'[o] = work[o] \/ (o \in Working /\ work'[o].pc = "dead")
    BY <1>2, IdleFields, ZenonT(60) DEF ServerDies, Killed
  <2>3. CASE work'[o] = work[o]
    BY <1>0, <2>1, <2>3 DEF Heard, Ended, At
  <2>4. CASE o \in Working /\ work'[o].pc = "dead"
    BY <1>0, <2>1, <2>4 DEF Heard, Ended, At, Working
  <2> QED
    BY <2>2, <2>3, <2>4
<1>3. CASE UNCHANGED vars
  BY <1>0, <1>3 DEF vars, Heard, Ended, At, Aborted
<1> QED
  BY <1>1, <1>2, <1>3 DEF Next

-----------------------------------------------------------------------------
(* What is left behind.                                                    *)

\* A record of an undisturbed order is found when its challenge is cleaned up.
LEMMA CleanUpFinds ==
  ASSUME TypeOK, InPlace, NEW o \in Orders, Shaped(o), Tidy(o), Sound(o),
         NEW a \in Authorizations, CleanUp(o, a),
         NEW r \in records, r.order = o, r.authz = a, ~ZoneIsForgotten(r)
  PROVE  r \in Finds(o, a)
<1>1. At(o, "cleaning") /\ a \in work[o].left
  BY DEF CleanUp
<1>2. r.place = PlaceNow(o, a)
  <2>1. Agreeing
    BY SoundAgrees
  <2>2. work[o].pc \in Started
    BY <1>1 DEF At, Started, Working3
  <2> QED
    BY <2>1, <2>2, PlacesAgree DEF InPlace
<1>3. /\ Keeps({"token", "zone"}) => a \in work[o].kept
      /\ Keeps({"zone"}) => ZoneOf[r.place] \in work[o].zones
  BY DEF Tidy
<1>4. Challenger.keeps \in {"value", "token", "zone"} /\ r \in OwnRecords(o, a)
  BY SceneType DEF OwnRecords
<1>5. CASE Challenger.keeps = "value"
  BY <1>2, <1>4, <1>5 DEF Finds
<1>6. CASE Challenger.keeps = "token"
  BY <1>3, <1>4, <1>6 DEF Finds, Keeps
<1>7. CASE Challenger.keeps = "zone"
  BY <1>2, <1>3, <1>4, <1>7 DEF Finds, Keeps
<1> QED
  BY <1>4, <1>5, <1>6, <1>7

LEMMA CleanUpTidy ==
  ASSUME TypeOK, InPlace, [Next]_vars, NEW o \in Orders, Shaped(o), Tidy(o),
         NEW a \in Authorizations, CleanUp(o, a)
  PROVE  Tidy(o)'
<1> SUFFICES ASSUME Sound(o)', Sound(o) PROVE Tidy(o)'
  BY Lasting DEF Tidy
<1> DEFINE found == Finds(o, a)
           zone == ZoneOf[PlaceNow(o, a)]
<1>1. ~GoesWrong(o) /\ Agreeing
  BY GoesWrongIsUnsound, SoundAgrees
<1>2. PICK w \in {Done(o, a), Forgotten(o, a)} :
         /\ Becomes(o, w) /\ (w = Done(o, a) \/ found # {})
         /\ records' \subseteq records \ found
  BY <1>1 DEF CleanUp, Forgotten, MergedWith, Finds, OwnRecords
<1>3. At(o, "cleaning") /\ a \in work[o].left /\ a \in AuthorizationsOf[o]
  BY DEF CleanUp, Shaped
<1>4. /\ w \in Work /\ w.pc = "cleaning"
      /\ w.batch = work[o].batch /\ w.left = work[o].left \ {a}
  BY <1>2, <1>3, LeavesShape DEF At
<1>5. /\ work[o].kept \ {a} \subseteq w.kept
      /\ w = Done(o, a) => w.zones = work[o].zones
      /\ work[o].zones \ {zone} \subseteq w.zones
  <2>a. \A v \in {Done(o, a), Failing(o, a)} :
            v.kept = work[o].kept /\ v.zones = work[o].zones
    BY Leaves, ZenonT(60)
  <2>b. Forgotten(o, a).kept = work[o].kept \ {a}
    BY Leaves, ZenonT(60)
  <2>c. Forgotten(o, a).zones = work[o].zones \ {ZoneOf[PlaceNow(o, a)]}
    BY Leaves, ZenonT(60)
  <2>1. /\ Done(o, a).kept = work[o].kept /\ Done(o, a).zones = work[o].zones
        /\ Forgotten(o, a).kept = work[o].kept \ {a}
        /\ Forgotten(o, a).zones = work[o].zones \ {zone}
    BY <2>a, <2>b, <2>c
  <2>2. CASE w = Done(o, a)
    <3>1. w.kept = work[o].kept /\ w.zones = work[o].zones
      BY <2>1, <2>2, Zenon
    <3> QED
      BY <3>1
  <2>3. CASE w # Done(o, a)
    <3>1. w = Forgotten(o, a)
      BY <1>2, <2>3, Zenon
    <3>2. w.kept = work[o].kept \ {a} /\ w.zones = work[o].zones \ {zone}
      BY <2>1, <3>1, Zenon
    <3> QED
      BY <2>3, <3>2
  <2> QED
    BY <2>2, <2>3
<1>6. ASSUME NEW r \in records', r.order = o, ~ZoneIsForgotten(r)
      PROVE  /\ r.authz \in w.left /\ r.authz \in w.batch
             /\ Keeps({"token", "zone"}) => r.authz \in w.kept
             /\ Keeps({"zone"}) => ZoneOf[r.place] \in w.zones
  <2>1. r \in records /\ r \notin found /\ r \in Record
    BY <1>2, <1>6 DEF TypeOK
  <2>2. r.authz # a
    BY <1>6, <2>1, CleanUpFinds
  <2>3. /\ r.authz \in work[o].batch /\ r.authz \in work[o].left
        /\ Keeps({"token", "zone"}) => r.authz \in work[o].kept
        /\ Keeps({"zone"}) => ZoneOf[r.place] \in work[o].zones
    BY <1>3, <1>6, <2>1 DEF Tidy, At
  <2>4. Keeps({"zone"}) => ZoneOf[r.place] # zone
    <3>1. work[o].pc \in Started
      BY <1>3 DEF At, Started, Working3
    <3>2. PlaceNow(o, a) = RightPlace(o, a)
      BY <1>1, <3>1, PlacesAgree
    <3> QED
      BY <1>3, <1>6, <2>2, <3>2 DEF ZoneIsForgotten, Keeps
  <2> QED
    BY <1>4, <1>5, <2>2, <2>3, <2>4
<1>7. /\ work'[o] = Onward(w)
      /\ Onward(w).kept = w.kept /\ Onward(w).zones = w.zones
      /\ \/ Onward(w) = w
         \/ w.left = {} /\ Onward(w).pc = "picking"
  BY <1>2, <1>4, BecomesType, Onwards DEF Working3
<1>8. \A r \in records' : /\ ZoneIsForgotten(r)' = ZoneIsForgotten(r)
                          /\ Keeps({"zone"})' = Keeps({"zone"})
                          /\ Keeps({"token", "zone"})' = Keeps({"token", "zone"})
  <2>1. records' \subseteq Record /\ scene' = scene
    BY <1>2, Lasting DEF TypeOK
  <2> QED
    BY <2>1, Lasting DEF Keeps, Challenger
<1>9. CASE Onward(w) = w
  BY <1>4, <1>6, <1>7, <1>8, <1>9 DEF Tidy, Working3
<1>10. CASE w.left = {} /\ Onward(w).pc = "picking"
  <2>1. \A r \in records' : r.order = o => ZoneIsForgotten(r)
    BY <1>6, <1>10
  <2> QED
    BY <1>7, <1>8, <1>10, <2>1 DEF Tidy
<1> QED
  BY <1>7, <1>9, <1>10

\* What Tidy says of a record does not depend on the step.
LEMMA SceneLasts ==
  ASSUME TypeOK, [Next]_vars
  PROVE  /\ \A r \in Record : ZoneIsForgotten(r)' = ZoneIsForgotten(r)
         /\ \A ways : Keeps(ways)' = Keeps(ways)
         /\ \A o \in Orders, a \in Authorizations : RightPlace(o, a)' = RightPlace(o, a)
<1>1. scene' = scene
  BY Lasting
<1> QED
  BY <1>1, Lasting DEF Keeps, Challenger, RightPlace

LEMMA PresentTidy ==
  ASSUME TypeOK, InPlace, [Next]_vars, TypeOK', NEW o \in Orders, Shaped(o), Tidy(o),
         NEW a \in Authorizations, Present(o, a)
  PROVE  Tidy(o)'
<1> SUFFICES ASSUME Sound(o)', Sound(o) PROVE Tidy(o)'
  BY Lasting DEF Tidy
<1> DEFINE w == Kept(o, a)
           zone == ZoneOf[PlaceNow(o, a)]
<1>1. ~GoesWrong(o) /\ Agreeing
  BY GoesWrongIsUnsound, SoundAgrees
<1>2. Becomes(o, w) /\ records' = records \cup {Created(o, a)}
  BY <1>1 DEF Present, Presented, NotPresented, Kept
<1>3. /\ At(o, "presenting") /\ a \in work[o].left /\ a \in work[o].batch
      /\ work[o].failed \cap work[o].batch = {} /\ work[o].batch # {}
  BY DEF Present, Shaped, Tidy, At
<1>4. /\ w \in Work /\ w.pc = "presenting"
      /\ w.batch = work[o].batch /\ w.left = work[o].left \ {a}
  BY <1>3, LeavesShape DEF At
<1>5. w.failed = work[o].failed
  <2>1. \A v \in {Done(o, a), Kept(o, a), Forgotten(o, a)} : v.failed = work[o].failed
    BY Leaves, ZenonT(60)
  <2> QED
    BY <2>1
<1>6. w.kept = IF Keeps({"token", "zone"}) THEN work[o].kept \cup {a} ELSE work[o].kept
  BY Leaves, ZenonT(60)
<1>7. w.zones = IF Keeps({"zone"}) THEN work[o].zones \cup {ZoneOf[PlaceNow(o, a)]}
                                    ELSE work[o].zones
  BY Leaves, ZenonT(60)
<1> HIDE DEF w
<1>8. ASSUME NEW r \in records', r.order = o, ~ZoneIsForgotten(r)
      PROVE  /\ r.authz \in w.batch /\ r.authz \notin w.left
             /\ Keeps({"token", "zone"}) => r.authz \in w.kept
             /\ Keeps({"zone"}) => ZoneOf[r.place] \in w.zones
  <2>1. CASE r = Created(o, a)
    <3>1. r.authz = a /\ r.place = PlaceNow(o, a)
      BY <2>1 DEF Created
    <3> QED
      BY <1>3, <1>4, <1>6, <1>7, <3>1
  <2>2. CASE r \in records
    <3>1. /\ r.authz \in work[o].batch /\ r.authz \notin work[o].left
          /\ Keeps({"token", "zone"}) => r.authz \in work[o].kept
          /\ Keeps({"zone"}) => ZoneOf[r.place] \in work[o].zones
      BY <1>3, <1>8, <2>2 DEF Tidy, At
    <3> QED
      BY <1>4, <1>6, <1>7, <3>1
  <2> QED
    BY <1>2, <1>8, <2>1, <2>2
<1>9. /\ work'[o] = Onward(w)
      /\ Onward(w).kept = w.kept /\ Onward(w).zones = w.zones /\ Onward(w).failed = w.failed
      /\ \/ Onward(w) = w
         \/ Onward(w).pc = "solving" /\ Onward(w).batch = w.batch
  <2>1. w.batch \ w.failed # {}
    BY <1>3, <1>4, <1>5
  <2> QED
    BY <1>2, <1>4, <2>1, BecomesType, Onwards DEF Working3
<1>10. /\ Onward(w).pc \in {"presenting", "solving"} /\ Onward(w).batch = w.batch
       /\ Onward(w).pc = "presenting" => Onward(w).left = w.left
       /\ w.failed \cap w.batch = {}
  BY <1>3, <1>4, <1>5, <1>9
<1>11. records' \subseteq Record
  BY DEF TypeOK
<1> QED
  BY <1>8, <1>9, <1>10, <1>11, SceneLasts DEF Tidy, Working3

LEMMA SolveTidy ==
  ASSUME TypeOK, InPlace, [Next]_vars, NEW o \in Orders, Shaped(o), Tidy(o),
         NEW a \in Authorizations, Solve(o, a)
  PROVE  Tidy(o)'
<1> SUFFICES ASSUME Sound(o)', Sound(o) PROVE Tidy(o)'
  BY Lasting DEF Tidy
<1>1. PICK w \in {Done(o, a), Failing(o, a)} : Becomes(o, w)
  BY DEF Solve
<1>2. At(o, "solving") /\ records' = records
  BY DEF Solve
<1>3. w \in Work /\ w.pc = "solving" /\ w.batch = work[o].batch
  BY <1>1, <1>2, LeavesShape DEF At
<1>4. w.kept = work[o].kept /\ w.zones = work[o].zones
  <2>1. \A v \in {Done(o, a), Failing(o, a)} :
            v.kept = work[o].kept /\ v.zones = work[o].zones
    BY Leaves, ZenonT(60)
  <2> QED
    BY <1>1, <2>1
<1>5. ASSUME NEW r \in records, r.order = o, ~ZoneIsForgotten(r)
      PROVE  /\ r.authz \in w.batch
             /\ Keeps({"token", "zone"}) => r.authz \in w.kept
             /\ Keeps({"zone"}) => ZoneOf[r.place] \in w.zones
  BY <1>2, <1>3, <1>4, <1>5 DEF Tidy, At
<1>6. /\ work'[o] = Onward(w)
      /\ Onward(w).kept = w.kept /\ Onward(w).zones = w.zones
      /\ \/ Onward(w) = w
         \/ /\ Onward(w).pc = "cleaning" /\ Onward(w).batch = w.batch
            /\ Onward(w).left = w.batch
         \/ Onward(w).pc = "picking" /\ w.batch = {}
  BY <1>1, <1>3, BecomesType, Onwards DEF Working3
<1>7. records \subseteq Record
  BY DEF TypeOK
<1>8. CASE Onward(w) = w
  BY <1>2, <1>3, <1>5, <1>6, <1>7, <1>8, SceneLasts DEF Tidy, Working3
<1>9. CASE /\ Onward(w).pc = "cleaning" /\ Onward(w).batch = w.batch
           /\ Onward(w).left = w.batch
  BY <1>2, <1>5, <1>6, <1>7, <1>9, SceneLasts DEF Tidy, Working3
<1>10. CASE Onward(w).pc = "picking" /\ w.batch = {}
  BY <1>2, <1>5, <1>6, <1>7, <1>10, SceneLasts DEF Tidy
<1> QED
  BY <1>6, <1>8, <1>9, <1>10

\* Where no challenge is under way an undisturbed order has no records.
LEMMA NothingLeft ==
  ASSUME TypeOK, [Next]_vars, NEW o \in Orders, Tidy(o), work[o].pc \notin Working3,
         records' = records, work'[o].pc # "dead",
         work'[o].pc = "presenting" => work'[o].failed \cap work'[o].batch = {}
  PROVE  Tidy(o)'
<1> SUFFICES ASSUME Sound(o)', Sound(o) PROVE Tidy(o)'
  BY Lasting DEF Tidy
<1>1. \A r \in records : r.order = o => ZoneIsForgotten(r)
  BY DEF Tidy
<1>2. \A r \in records' : r.order = o => ZoneIsForgotten(r)'
  BY <1>1, SceneLasts DEF TypeOK
<1> QED
  BY <1>2 DEF Tidy

LEMMA TidyOwn ==
  ASSUME TypeOK, InPlace, [Next]_vars, TypeOK', NEW o \in Orders, Shaped(o), Tidy(o),
         Request(o) \/ Program(o) \/ Cancel(o) \/ ChildDies(o)
  PROVE  Tidy(o)'
<1>0. work[o] \in Work
  BY WorkType
<1>1. CASE Request(o) \/ Start(o)
  <2>1. /\ work[o].pc \notin Working3 /\ records' = records
        /\ work'[o].pc \in {"starting", "ordering"}
    BY <1>0, <1>1 DEF Request, Start, At, TypeOK, Work, Working3
  <2> QED
    BY <2>1, NothingLeft
<1>2. CASE OrderCertificate(o)
  <2>1. work[o].pc \notin Working3 /\ records' = records
    BY <1>2 DEF OrderCertificate, Accepted, AlreadyReplaced, Refused, At, Working3
  <2>2. CASE Accepted(o) \/ AlreadyReplaced(o)
    <3>1. work'[o].pc \in {"picking", "ordering"}
      BY <1>0, <2>2 DEF Accepted, AlreadyReplaced, At, TypeOK, Work
    <3> QED
      BY <2>1, <3>1, NothingLeft
  <2>3. CASE Refused(o)
    <3>1. work'[o].pc = "failing"
      BY <2>3, EndsType, IdleFields DEF Refused
    <3> QED
      BY <2>1, <3>1, NothingLeft
  <2> QED
    BY <1>2, <2>2, <2>3 DEF OrderCertificate
<1>3. CASE PickBatch(o)
  <2>1. PICK batch \in SUBSET work[o].todo :
           work' = [work EXCEPT ![o].pc = "presenting", ![o].batch = batch,
                                ![o].left = batch, ![o].todo = @ \ batch]
    BY <1>3 DEF PickBatch
  <2>2. /\ work'[o].pc = "presenting" /\ work'[o].batch = batch
        /\ work'[o].failed = work[o].failed
    BY <1>0, <2>1 DEF TypeOK, Work
  <2>3. work[o].pc \notin Working3 /\ records' = records
    BY <1>3 DEF PickBatch, At, Working3
  <2>4. work'[o].failed \cap work'[o].batch = {}
    BY <2>1, <2>2 DEF Shaped
  <2> QED
    BY <2>2, <2>3, <2>4, NothingLeft
<1>4. CASE Finalize(o)
  <2>1. work[o].pc \notin Working3 /\ records' = records
    BY <1>4 DEF Finalize, At, Working3
  <2>2. work'[o].pc \in {"succeeded", "failing"}
    BY <1>4, EndsType, IdleFields DEF Finalize
  <2> QED
    BY <2>1, <2>2, NothingLeft
<1>5. CASE Answer(o) \/ Cancel(o)
  <2>1. work' = work /\ records' = records
    BY <1>5 DEF Answer, Cancel
  <2> QED
    BY <2>1, Lasting, SceneLasts DEF Tidy, TypeOK
<1>6. CASE ChildDies(o)
  BY <1>6 DEF ChildDies, Fault, Tidy, Sound
<1> QED
  BY <1>1, <1>2, <1>3, <1>4, <1>5, <1>6, PresentTidy, SolveTidy, CleanUpTidy DEF Program

LEMMA TidyStep ==
  ASSUME TypeOK, InPlace, [Next]_vars, TypeOK',
         \A o \in Orders : Shaped(o) /\ Tidy(o)
  PROVE  \A o \in Orders : Tidy(o)'
<1> TAKE o \in Orders
<1>1. ASSUME NEW q \in Orders, Request(q) \/ Program(q) \/ Cancel(q) \/ ChildDies(q)
      PROVE  Tidy(o)'
  <2>1. CASE o = q
    BY <1>1, <2>1, TidyOwn
  <2>2. CASE o # q
    <3>1. /\ work'[o] = work[o]
          /\ \A r \in records' : r.order = o => r \in records
      BY <1>1, <2>2, OthersSteps
    <3> QED
      BY <3>1, Lasting, SceneLasts DEF Tidy, TypeOK
  <2> QED
    BY <2>1, <2>2
<1>2. CASE ServerDies
  <2>1. records' = records
    BY <1>2 DEF ServerDies
  <2>2. CASE work'[o] = work[o]
    BY <2>1, <2>2, Lasting, SceneLasts DEF Tidy, TypeOK
  <2>3. CASE work'[o] # work[o]
    <3>1. o \in faulted'
      BY <1>2, <2>3 DEF ServerDies, Killed, TypeOK
    <3> QED
      BY <3>1 DEF Tidy, Sound
  <2> QED
    BY <2>2, <2>3
<1>3. CASE UNCHANGED vars
  BY <1>3, Lasting, SceneLasts DEF vars, Tidy, TypeOK
<1> QED
  BY <1>1, <1>2, <1>3 DEF Next

-----------------------------------------------------------------------------
(* Why an order fails.                                                     *)

\* What an order has presented stays until it cleans up: its own steps before
\* that only add, and another's deletions meet it only at a common place.
LEMMA ServedStays ==
  ASSUME TypeOK, InPlace, [Next]_vars, NEW o \in Orders, Lucky(o),
         \A p \in Orders : Shaped(p),
         NEW b \in AuthorizationsOf[o], Served(o, b), work[o].pc # "cleaning",
         NEW q \in Orders, Request(q) \/ Program(q) \/ Cancel(q) \/ ChildDies(q)
  PROVE  Served(o, b)'
<1>1. PICK r \in records : r.order = o /\ r.authz = b /\ r.place = RightPlace(o, b)
  BY DEF Served
<1>2. Agreeing
  BY SoundAgrees DEF Lucky
<1>3. r \in records'
  <2>1. CASE \E a \in Authorizations : CleanUp(q, a)
    <3>1. PICK a \in Authorizations : CleanUp(q, a)
      BY <2>1
    <3>2. q # o
      BY <3>1 DEF CleanUp, At
    <3>3. r \notin Finds(q, a)
      BY <1>1, <3>2, SceneType DEF Finds, OwnRecords
    <3>4. Challenger.merges => r \notin MergedWith(Finds(q, a))
      <4> SUFFICES ASSUME Challenger.merges, r \in MergedWith(Finds(q, a)) PROVE FALSE
        OBVIOUS
      <4>1. PICK s \in Finds(q, a) : r.place = s.place
        BY DEF MergedWith
      <4>2. s \in records /\ s.order = q /\ s.authz = a
        BY <4>1, SceneType DEF Finds, OwnRecords
      <4>3. a \in AuthorizationsOf[q]
        BY <4>2 DEF Shaped
      <4>4. RightPlace(q, a) = RightPlace(o, b)
        BY <1>1, <1>2, <4>1, <4>2 DEF InPlace
      <4> QED
        BY <3>2, <4>3, <4>4 DEF Lucky, Merged
    <3>5. \/ records' = records \/ records' = records \ Finds(q, a)
          \/ Challenger.merges /\ records' = records \ MergedWith(Finds(q, a))
      <4> DEFINE found == Finds(q, a)
      <4>1. records' \in {records \ found}
                \cup (IF Challenger.merges THEN {records \ MergedWith(found)} ELSE {})
            \/ records' \in {records, records \ found}
        BY <3>1 DEF CleanUp
      <4> HIDE DEF found
      <4>2. \/ records' = records \/ records' = records \ found
            \/ Challenger.merges /\ records' = records \ MergedWith(found)
        BY <4>1
      <4> QED
        BY <4>2 DEF found
    <3> QED
      BY <1>1, <3>3, <3>4, <3>5
  <2>2. CASE ~\E a \in Authorizations : CleanUp(q, a)
    <3>1. ASSUME NEW a \in Authorizations, Present(q, a) \/ Solve(q, a)
          PROVE  records \subseteq records'
      BY <3>1 DEF Present, Presented, NotPresented, Solve
    <3>2. CASE Request(q) \/ Start(q) \/ OrderCertificate(q) \/ PickBatch(q) \/ Finalize(q)
               \/ Answer(q) \/ Cancel(q) \/ ChildDies(q)
      BY <3>2 DEF Request, Start, OrderCertificate, PickBatch, Finalize, Answer, Cancel,
         ChildDies
    <3> QED
      BY <1>1, <2>2, <3>1, <3>2 DEF Program
  <2> QED
    BY <2>1, <2>2
<1>4. RightPlace(o, b)' = RightPlace(o, b)
  BY Lasting DEF RightPlace
<1> QED
  BY <1>1, <1>3, <1>4 DEF Served

LEMMA PresentUnfailing ==
  ASSUME TypeOK, InPlace, [Next]_vars, NEW o \in Orders, \A p \in Orders : Shaped(p),
         Unfailing(o), NEW a \in Authorizations, Present(o, a)
  PROVE  Unfailing(o)'
<1> SUFFICES ASSUME Lucky(o)', Lucky(o) PROVE Unfailing(o)'
  BY Lasting DEF Unfailing
<1> DEFINE w == Kept(o, a)
<1>1. ~GoesWrong(o) /\ Agreeing
  BY GoesWrongIsUnsound, SoundAgrees DEF Lucky
<1>2. Becomes(o, w) /\ records' = records \cup {Created(o, a)} /\ caller' = caller
  BY <1>1 DEF Present, Presented, NotPresented, Kept
<1>3. /\ work[o].pc = "presenting" /\ a \in work[o].left
      /\ work[o].batch \subseteq AuthorizationsOf[o]
      /\ work[o].failed = {} /\ caller[o] # "error"
      /\ \A b \in work[o].batch \ work[o].left : Served(o, b)
  BY DEF Present, Shaped, Unfailing, At
<1>4. /\ w \in Work /\ w.pc = "presenting"
      /\ w.batch = work[o].batch /\ w.left = work[o].left \ {a}
  BY <1>3, LeavesShape
<1>5. w.failed = {}
  <2>1. \A v \in {Done(o, a), Kept(o, a), Forgotten(o, a)} : v.failed = work[o].failed
    BY Leaves, ZenonT(60)
  <2> QED
    BY <1>3, <2>1
<1> HIDE DEF w
<1>6. ASSUME NEW b \in w.batch \ w.left PROVE Served(o, b)'
  <2>1. CASE b = a
    <3>1. PlaceNow(o, a) = RightPlace(o, a)
      BY <1>1, <1>3, PlacesAgree DEF Started, Working3
    <3>2. RightPlace(o, a)' = RightPlace(o, a)
      BY Lasting DEF RightPlace
    <3> DEFINE new == Created(o, a)
    <3>a. new \in records'
      BY <1>2
    <3>b. new.order = o /\ new.authz = a /\ new.place = PlaceNow(o, a)
      BY DEF Created
    <3> HIDE DEF new
    <3>3. PICK r \in records' : r.order = o /\ r.authz = a /\ r.place = PlaceNow(o, a)
      BY <3>a, <3>b
    <3>4. Served(o, a)'
      BY <3>1, <3>2, <3>3 DEF Served
    <3> QED
      BY <2>1, <3>4
  <2>2. CASE b # a
    <3>1. b \in AuthorizationsOf[o] /\ Served(o, b)
      BY <1>3, <1>4, <1>6, <2>2
    <3> QED
      BY <1>3, <3>1, ServedStays DEF Program
  <2> QED
    BY <2>1, <2>2
<1>7. /\ work'[o] = Onward(w) /\ Onward(w).failed = {}
      /\ \/ Onward(w) = w
         \/ Onward(w).pc = "solving" /\ Onward(w).left \subseteq w.batch \ w.left
         \/ Onward(w).pc \in {"cleaning", "picking"}
  BY <1>2, <1>4, <1>5, BecomesType, Onwards DEF Working3
<1>8. /\ Onward(w).pc \in {"presenting", "solving", "cleaning", "picking"}
      /\ Onward(w).pc = "presenting" => Onward(w) = w
      /\ Onward(w).pc = "solving" => Onward(w).left \subseteq w.batch \ w.left
  BY <1>4, <1>7
<1>9. work'[o].pc = "presenting" =>
          \A b \in work'[o].batch \ work'[o].left : Served(o, b)'
  BY <1>6, <1>7, <1>8
<1>10. work'[o].pc = "solving" => \A b \in work'[o].left : Served(o, b)'
  BY <1>6, <1>7, <1>8
<1> QED
  BY <1>2, <1>3, <1>7, <1>8, <1>9, <1>10 DEF Unfailing

LEMMA SolveUnfailing ==
  ASSUME TypeOK, InPlace, [Next]_vars, NEW o \in Orders, \A p \in Orders : Shaped(p),
         Unfailing(o), NEW a \in Authorizations, Solve(o, a) \/ CleanUp(o, a)
  PROVE  Unfailing(o)'
<1> SUFFICES ASSUME Lucky(o)', Lucky(o) PROVE Unfailing(o)'
  BY Lasting DEF Unfailing
<1>1. ~GoesWrong(o) /\ WaitsLongEnough
  BY GoesWrongIsUnsound DEF Lucky
<1>2. caller' = caller /\ work[o].failed = {} /\ caller[o] # "error"
      /\ work[o].pc \in {"solving", "cleaning"} /\ work[o].batch \subseteq AuthorizationsOf[o]
      /\ work[o].left \subseteq work[o].batch
  BY DEF Solve, CleanUp, Unfailing, Shaped, At
<1>3. PICK w \in {Done(o, a), Forgotten(o, a)} : Becomes(o, w)
  <2>1. CASE Solve(o, a)
    <3>1. Served(o, a)
      BY <2>1 DEF Solve, Unfailing, At
    <3> QED
      BY <1>1, <2>1, <3>1 DEF Solve
  <2>2. CASE CleanUp(o, a)
    BY <1>1, <2>2 DEF CleanUp, Forgotten
  <2> QED
    BY <2>1, <2>2
<1>4. /\ w \in Work /\ w.pc = work[o].pc
      /\ w.batch = work[o].batch /\ w.left = work[o].left \ {a}
  BY <1>3, LeavesShape
<1>5. w.failed = {}
  <2>1. \A v \in {Done(o, a), Kept(o, a), Forgotten(o, a)} : v.failed = work[o].failed
    BY Leaves, ZenonT(60)
  <2> QED
    BY <1>2, <1>3, <2>1
<1>6. /\ work'[o] = Onward(w) /\ Onward(w).failed = {}
      /\ Onward(w) = w \/ Onward(w).pc \in {"cleaning", "picking"}
  BY <1>2, <1>3, <1>4, <1>5, BecomesType, Onwards DEF Working3
<1>7. ASSUME work'[o].pc = "solving", NEW b \in work'[o].left PROVE Served(o, b)'
  <2>1. work[o].pc = "solving" /\ b \in work[o].left
    BY <1>4, <1>6, <1>7
  <2>2. b \in AuthorizationsOf[o] /\ Served(o, b)
    BY <1>2, <2>1 DEF Unfailing
  <2> QED
    BY <2>1, <2>2, ServedStays DEF Program
<1>8. work'[o].pc \in {"solving", "cleaning", "picking"}
  BY <1>2, <1>4, <1>6
<1> QED
  BY <1>2, <1>6, <1>7, <1>8 DEF Unfailing

LEMMA UnfailingOwn ==
  ASSUME TypeOK, InPlace, [Next]_vars, NEW o \in Orders, \A p \in Orders : Shaped(p),
         Unfailing(o), Request(o) \/ Program(o) \/ Cancel(o) \/ ChildDies(o)
  PROVE  Unfailing(o)'
<1> SUFFICES ASSUME Lucky(o)', Lucky(o) PROVE Unfailing(o)'
  BY Lasting DEF Unfailing
<1>0. work[o] \in Work /\ ~GoesWrong(o)
  BY WorkType, GoesWrongIsUnsound DEF Lucky
<1>1. CASE Request(o) \/ Start(o)
  <2>1. /\ work'[o].pc \in {"starting", "ordering"} /\ work'[o].failed = work[o].failed
        /\ caller'[o] # "error"
    BY <1>0, <1>1 DEF Request, Start, TypeOK, Work, Unfailing
  <2> QED
    BY <2>1 DEF Unfailing
<1>2. CASE OrderCertificate(o)
  <2>1. /\ work'[o].pc \in {"picking", "ordering"} /\ work'[o].failed = work[o].failed
        /\ caller' = caller
    BY <1>0, <1>2 DEF OrderCertificate, Accepted, AlreadyReplaced, Refused, At, TypeOK, Work
  <2> QED
    BY <2>1 DEF Unfailing
<1>3. CASE PickBatch(o)
  <2>1. PICK batch \in SUBSET work[o].todo :
           work' = [work EXCEPT ![o].pc = "presenting", ![o].batch = batch,
                                ![o].left = batch, ![o].todo = @ \ batch]
    BY <1>3 DEF PickBatch
  <2>2. /\ work'[o].pc = "presenting" /\ work'[o].batch = batch /\ work'[o].left = batch
        /\ work'[o].failed = work[o].failed
    BY <1>0, <2>1 DEF TypeOK, Work
  <2>3. caller' = caller
    BY <1>3 DEF PickBatch
  <2> QED
    BY <2>2, <2>3 DEF Unfailing
<1>4. CASE Finalize(o)
  <2>1. EndsAs(o, "succeeded") /\ caller' = caller
    BY <1>0, <1>4 DEF Finalize, Unfailing
  <2>2. work'[o].pc = "succeeded" /\ work'[o].failed = {}
    BY <2>1, EndsType, IdleFields
  <2> QED
    BY <2>1, <2>2 DEF Unfailing
<1>5. CASE Answer(o)
  <2>1. work' = work /\ At(o, "succeeded")
    BY <1>5 DEF Answer, Ended, Unfailing, At
  <2>2. caller' = [caller EXCEPT ![o] = AnswerOf(o)]
    BY <1>0, <1>5 DEF Answer, GoesWrong
  <2>3. caller'[o] = "ok" /\ work'[o].failed = {} /\ work'[o].pc = "succeeded"
    BY <2>1, <2>2 DEF AnswerOf, Unfailing, At, TypeOK
  <2> QED
    BY <2>3 DEF Unfailing
<1>6. CASE Cancel(o)
  <2>1. work' = work /\ caller' = caller /\ records' = records /\ scene' = scene
    BY <1>6 DEF Cancel
  <2> QED
    BY <2>1 DEF Unfailing, Served, RightPlace
<1>7. CASE ChildDies(o)
  BY <1>0, <1>7 DEF ChildDies, GoesWrong
<1> QED
  BY <1>1, <1>2, <1>3, <1>4, <1>5, <1>6, <1>7, PresentUnfailing, SolveUnfailing DEF Program

LEMMA UnfailingStep ==
  ASSUME TypeOK, InPlace, [Next]_vars,
         \A o \in Orders : Shaped(o) /\ Unfailing(o)
  PROVE  \A o \in Orders : Unfailing(o)'
<1> TAKE o \in Orders
<1>1. ASSUME NEW q \in Orders, Request(q) \/ Program(q) \/ Cancel(q) \/ ChildDies(q)
      PROVE  Unfailing(o)'
  <2>1. CASE o = q
    BY <1>1, <2>1, UnfailingOwn
  <2>2. CASE o # q
    <3> SUFFICES ASSUME Lucky(o)', Lucky(o) PROVE Unfailing(o)'
      BY Lasting DEF Unfailing
    <3>1. work'[o] = work[o] /\ caller'[o] = caller[o]
      BY <1>1, <2>2, OthersSteps
    <3>2. ASSUME NEW b \in work[o].batch, Served(o, b), work[o].pc # "cleaning"
          PROVE  Served(o, b)'
      <4>1. b \in AuthorizationsOf[o]
        BY <3>2 DEF Shaped
      <4> QED
        BY <1>1, <3>2, <4>1, ServedStays
    <3>3. work[o].left \subseteq work[o].batch
      BY DEF Shaped
    <3> QED
      BY <3>1, <3>2, <3>3 DEF Unfailing
  <2> QED
    BY <2>1, <2>2
<1>2. CASE ServerDies
  <2> SUFFICES ASSUME Lucky(o)', Lucky(o) PROVE Unfailing(o)'
    BY Lasting DEF Unfailing
  <2>1. records' = records /\ caller'[o] \in {caller[o], "none"} /\ scene' = scene
    BY <1>2 DEF ServerDies, TypeOK
  <2>2. work'[o] = work[o]
    <3> SUFFICES ASSUME work'[o] # work[o] PROVE FALSE
      OBVIOUS
    <3>1. o \in faulted'
      BY <1>2 DEF ServerDies, Killed, TypeOK
    <3> QED
      BY <3>1 DEF Lucky, Sound
  <2> QED
    BY <2>1, <2>2 DEF Unfailing, Served, RightPlace
<1>3. CASE UNCHANGED vars
  BY <1>3, Lasting DEF vars, Unfailing, Served, RightPlace
<1> QED
  BY <1>1, <1>2, <1>3 DEF Next

-----------------------------------------------------------------------------
(* The theorems.                                                           *)

LEMMA InitInv == Init => OrdersInv
<1> SUFFICES ASSUME Init PROVE OrdersInv
  OBVIOUS
<1>1. TypeOK
  BY InitType
<1>2. ASSUME NEW o \in Orders
      PROVE  /\ work[o].pc = "idle" /\ work[o].todo = {} /\ work[o].batch = {}
             /\ work[o].left = {} /\ work[o].failed = {}
             /\ caller[o] = "none" /\ records = {} /\ issued = {}
  BY DEF Init, Idle
<1>3. InPlace
  BY <1>2 DEF InPlace, Started, Working3, Init
<1>4. ASSUME NEW o \in Orders PROVE Shaped(o) /\ Tidy(o) /\ Unfailing(o) /\ Heard(o)
  BY <1>2 DEF Shaped, Tidy, Unfailing, Heard, At, Working3
<1> QED
  BY <1>1, <1>3, <1>4 DEF OrdersInv

LEMMA InvStep == OrdersInv /\ [Next]_vars => OrdersInv'
<1> SUFFICES ASSUME OrdersInv, [Next]_vars PROVE OrdersInv'
  OBVIOUS
<1>1. TypeOK /\ InPlace /\ TypeOK'
  BY TypeStep DEF OrdersInv
<1>2. InPlace'
  BY <1>1, InPlaceStep
<1>3. \A o \in Orders : Shaped(o)'
  BY <1>1, ShapedStep DEF OrdersInv
<1>4. \A o \in Orders : Tidy(o)'
  BY <1>1, TidyStep DEF OrdersInv
<1>5. \A o \in Orders : Unfailing(o)'
  BY <1>1, UnfailingStep DEF OrdersInv
<1>6. \A o \in Orders : Heard(o)'
  BY <1>1, HeardStep DEF OrdersInv
<1> QED
  BY <1>1, <1>2, <1>3, <1>4, <1>5, <1>6 DEF OrdersInv

\* Whatever orders run, in whatever processes and with whatever challenger, the
\* records at the DNS service are those of the challenges under way, the
\* identifiers that CleanUp needs are kept, and what an order and its caller know
\* of the certificate agrees with the CA.
THEOREM OrdersInductive == Spec => []OrdersInv
BY InitInv, InvStep, PTL DEF Spec

\* An order that has ended has left no record behind, unless a request of it
\* went wrong, the challenger forgot its zone, or it had to share its process
\* with an order that wanted other settings.
THEOREM NothingStaysBehind == Spec => []LeftoversAreExplained
<1>1. OrdersInv => LeftoversAreExplained
  <2> SUFFICES ASSUME OrdersInv, NEW r \in records, Ended(r.order),
                      r.order \notin faulted, ~Disturbed(r.order), ~ZoneIsForgotten(r)
               PROVE  FALSE
    BY DEF LeftoversAreExplained
  <2>1. r.order \in Orders
    BY DEF OrdersInv, TypeOK, Record
  <2>2. Tidy(r.order) /\ Sound(r.order)
    BY <2>1 DEF OrdersInv, Sound
  <2>3. work[r.order].pc \in Working3
    BY <2>2 DEF Tidy
  <2> QED
    BY <2>3 DEF Ended, Working3
<1> QED
  BY <1>1, OrdersInductive, PTL

\* With no fault, patience enough and a process of its own no order fails,
\* whatever the other orders do.
THEOREM OrdersSucceed == Spec => []UndisturbedOrdersSucceed
<1>1. OrdersInv => UndisturbedOrdersSucceed
  BY DEF OrdersInv, Unfailing, Lucky, Sound, UndisturbedOrdersSucceed
<1> QED
  BY <1>1, OrdersInductive, PTL

\* The node hears of a certificate exactly if the CA has issued one, unless the
\* answer was lost on the way.
THEOREM TheAnswerIsTrue == Spec => []AnswerIsTheOrders
<1>1. OrdersInv => AnswerIsTheOrders
  BY DEF OrdersInv, Heard, AnswerIsTheOrders
<1> QED
  BY <1>1, OrdersInductive, PTL
===============================================================================
