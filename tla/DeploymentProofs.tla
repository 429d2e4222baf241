--------------------------- MODULE DeploymentProofs ---------------------------
(* Theorems about Deployment, for every set of routes its assumptions allow   *)
(* and any finite number of targets, attempts and faults.                     *)
EXTENDS Deployment, FiniteSetTheorems, TLAPS

\* The loop's bookkeeping.
Bookkeeping ==
    /\ phase # "update" => doing = {}
    /\ doing = {} => at = 0
    /\ phase = "update" => todo \cup doing \subseteq chosen
    /\ phase \in {"upload", "list"} => spoiled = {}
    /\ phase = "list" => Lists
    /\ phase \in {"idle", "ended"} => todo = {}

\* What is to be updated is meant, and nothing else is touched.
Confined ==
    /\ route.pick = "nothing" => wanted = {}
    /\ route.pick # "every" =>
         /\ todo \cup doing \subseteq wanted
         /\ \A t \in Targets \ wanted : bound[t] \subseteq {"old", "foreign"} /\ job[t] = "none"

DeploymentInv == TypeOK /\ Bookkeeping /\ Confined

\* What the assumption says of a route.
LEMMA RouteShape ==
  ASSUME NEW r \in Routes
  PROVE  /\ r.steps \in Seq(STRING)
         /\ Len(r.steps) \in Nat
         /\ r.pick = "nothing" <=> r.steps = <<>>
         /\ r.loop \in {"each", "chunks", "batch"}
         /\ r.list # "none" => r.pick \in {"match", "named", "some", "every"}
  BY RoutesAssumption

LEMMA InitInv == Init => DeploymentInv
<1> SUFFICES ASSUME Init PROVE DeploymentInv
  OBVIOUS
<1>1. TypeOK
  <2>1. Len(route.steps) \in Nat
    BY RouteShape DEF Init
  <2>2. bound \in [Targets -> SUBSET Certificates]
    BY DEF Init, Certificates
  <2>3. settings \in [Targets -> {"first", "edited"}] /\ job \in [Targets -> {"none", "running", "done", "failed"}]
    BY DEF Init
  <2>4. Nothing \in Reading
    BY DEF Nothing, Reading, Certificates
  <2>5. shown \in [Targets -> Reading] /\ copy \in Reading
    BY <2>4 DEF Init
  <2>6. attempts \in 0..MaxAttempts /\ faults \in 0..MaxFaults /\ acts \in 0..MaxUserActions
    BY BoundsAssumption DEF Init
  <2>7. at \in 0..Len(route.steps) /\ doing = {}
    BY <2>1 DEF Init
  <2>8. /\ route \in Routes /\ wanted \in SUBSET Targets /\ present \in SUBSET Targets
        /\ phase = "idle" /\ cert = "none" /\ unseen = {} /\ found = {} /\ todo = {}
        /\ failed = FALSE /\ result = "none" /\ canceled = FALSE
        /\ disturbed = FALSE /\ shifted = FALSE /\ chosen = {} /\ spoiled = {}
        /\ halfway = {}
    BY DEF Init
  <2> QED
    BY <2>2, <2>3, <2>5, <2>6, <2>7, <2>8 DEF TypeOK
<1>2. Bookkeeping
  BY DEF Init, Bookkeeping
<1>3. Confined
  BY DEF Init, Confined
<1> QED
  BY <1>1, <1>2, <1>3 DEF DeploymentInv

\* A deployment that ends has nothing left to do.
LEMMA EndStep ==
  ASSUME NEW o \in {"none", "ok", "error"}, End(o)
  PROVE  /\ phase' = "ended" /\ result' = o /\ cert' = "none"
         /\ unseen' = {} /\ found' = {} /\ shown' \in [Targets -> Reading]
         /\ todo' = {} /\ doing' = {} /\ at' = 0 /\ copy' \in Reading
         /\ failed' = FALSE
  BY DEF End, Reading, Nothing, Certificates

-----------------------------------------------------------------------------
\* Begin starts with the upload, the listing or the configured targets.
LEMMA BeginStep == ASSUME DeploymentInv, Begin PROVE DeploymentInv'
<1> USE DEF DeploymentInv
<1>1. attempts' \in 0..MaxAttempts
  BY BoundsAssumption DEF Begin, TypeOK
<1>2. doing = {} /\ at = 0 /\ todo = {}
  BY DEF Begin, Bookkeeping
<1>3. TypeOK'
  BY <1>1, <1>2 DEF Begin, TypeOK, account, listing, update
<1>4. Bookkeeping'
  BY <1>2 DEF Begin, Bookkeeping, account, listing, update, Lists
<1>5. Confined'
  BY <1>2 DEF Begin, Confined, account, listing, update
<1> QED
  BY <1>3, <1>4, <1>5

\* The step after the upload keeps the invariant whatever else happens to cert.
LEMMA AfterUploadStep ==
  ASSUME DeploymentInv, phase = "upload", AfterUpload,
         cert' \in {"none", "stored", "empty"}, faults' \in 0..MaxFaults,
         disturbed' \in BOOLEAN,
         UNCHANGED <<route, wanted, account, update, failed, canceled, attempts, acts,
                     shifted, spoiled, halfway>>
  PROVE  DeploymentInv'
<1> USE DEF DeploymentInv
<1>1. spoiled = {} /\ doing = {} /\ at = 0
  BY DEF Bookkeeping
<1>2. TypeOK'
  BY <1>1 DEF AfterUpload, SetOut, StartListing, TypeOK, account, update
<1>3. Bookkeeping'
  BY <1>1 DEF AfterUpload, SetOut, StartListing, Bookkeeping, Lists, account, update
<1>4. Confined'
  BY <1>1 DEF AfterUpload, SetOut, StartListing, Confined, account, update
<1> QED
  BY <1>2, <1>3, <1>4

\* What a request does to the bounds.
LEMMA FaultsStep ==
  ASSUME TypeOK, GoesWrong \/ GoesWell
  PROVE  faults' \in 0..MaxFaults /\ disturbed' \in BOOLEAN
<1>1. MaxFaults \in Nat /\ faults \in 0..MaxFaults /\ canceled \in BOOLEAN /\ disturbed \in BOOLEAN
  BY BoundsAssumption DEF TypeOK
<1>2. CASE GoesWrong /\ canceled
  BY <1>1, <1>2 DEF GoesWrong
<1>3. CASE GoesWrong /\ ~canceled
  <2>1. faults < MaxFaults /\ faults' = faults + 1 /\ disturbed' = TRUE
    BY <1>3 DEF GoesWrong
  <2> QED
    BY <1>1, <2>1
<1>4. CASE GoesWell
  BY <1>1, <1>4 DEF GoesWell
<1> QED
  BY <1>2, <1>3, <1>4

LEMMA UploadStep == ASSUME DeploymentInv, Upload PROVE DeploymentInv'
<1>1. faults' \in 0..MaxFaults /\ disturbed' \in BOOLEAN
  BY FaultsStep DEF Upload, DeploymentInv
<1> QED
  BY <1>1, AfterUploadStep DEF Upload

\* The end of a deployment keeps the invariant.
LEMMA EndKeeps ==
  ASSUME DeploymentInv, NEW o \in {"none", "ok", "error"}, End(o),
         faults' \in 0..MaxFaults, disturbed' \in BOOLEAN, halfway' \in SUBSET Targets,
         UNCHANGED <<route, wanted, account, canceled, attempts, acts, shifted, chosen, spoiled>>
  PROVE  DeploymentInv'
<1> USE DEF DeploymentInv
<1>1. TypeOK'
  <2>1. Len(route.steps) \in Nat
    BY RouteShape DEF TypeOK
  <2>2. route' = route /\ at' = 0 /\ at' \in 0..Len(route'.steps) /\ doing' = {}
    <3>1. route' = route
      OBVIOUS
    <3>2. at' = 0 /\ doing' = {}
      BY EndStep
    <3> QED
      BY <2>1, <3>1, <3>2
  <2>3. /\ unseen' = {} /\ found' = {} /\ todo' = {}
        /\ shown' \in [Targets -> Reading] /\ copy' \in Reading
        /\ phase' = "ended" /\ cert' = "none" /\ failed' = FALSE
        /\ result' \in {"none", "ok", "error"}
    BY EndStep
  <2>4. UNCHANGED <<route, wanted, present, bound, settings, job, canceled,
                    attempts, acts, shifted, chosen, spoiled>>
    BY DEF account
  <2> QED
    BY <2>2, <2>3, <2>4 DEF TypeOK
<1>2. Bookkeeping'
  BY EndStep DEF Bookkeeping
<1>3. Confined'
  BY EndStep DEF Confined, account
<1> QED
  BY <1>1, <1>2, <1>3

LEMMA UploadFailsStep == ASSUME DeploymentInv, UploadFails PROVE DeploymentInv'
<1>1. faults' \in 0..MaxFaults /\ disturbed' \in BOOLEAN
  BY FaultsStep DEF UploadFails, DeploymentInv
<1>2. CASE End("error") /\ UNCHANGED chosen
  BY <1>1, <1>2, EndKeeps DEF UploadFails, DeploymentInv, TypeOK
<1>3. CASE cert' = "empty" /\ AfterUpload /\ UNCHANGED <<update, failed>>
  BY <1>1, <1>3, AfterUploadStep DEF UploadFails
<1> QED
  BY <1>2, <1>3 DEF UploadFails

-----------------------------------------------------------------------------
\* The targets chosen from a listing are meant, unless the pattern is not
\* looked at.
LEMMA ChosenConfined ==
  ASSUME DeploymentInv, phase = "list", NEW listed \in SUBSET Targets, NEW readings
  PROVE  /\ Chosen(listed, readings) \in SUBSET Targets
         /\ route.pick # "every" => Chosen(listed, readings) \subseteq wanted
<1>1. route.pick \in {"match", "named", "some", "every"}
  BY RouteShape DEF DeploymentInv, Bookkeeping, TypeOK, Lists
<1>2. wanted \in SUBSET Targets
  BY DEF DeploymentInv, TypeOK
<1> QED
  BY <1>1, <1>2 DEF Chosen, Asked

LEMMA ListPageStep == ASSUME DeploymentInv, ListPage PROVE DeploymentInv'
<1> USE DEF DeploymentInv
<1>1. faults' \in 0..MaxFaults /\ disturbed' \in BOOLEAN
  BY FaultsStep DEF ListPage
<1>2. PICK page \in SUBSET unseen :
        IF ~LastPage(page, unseen)
        THEN /\ unseen' = unseen \ page
             /\ found' = found \cup page
             /\ shown' = Shown(page)
             /\ UNCHANGED <<phase, cert, todo, update, failed, result, chosen>>
        ELSE LET listed == found \cup page
                 targets == Chosen(listed, Shown(page))
             IN  IF Asked(listed) = {} /\ route.none = "error"
                 THEN /\ End("error")
                      /\ UNCHANGED chosen
                 ELSE /\ phase' = IF route.upload = "late" THEN "upload" ELSE "update"
                      /\ unseen' = {}
                      /\ found' = {}
                      /\ shown' = IF Does("recall") THEN Shown(page)
                                                  ELSE [t \in Targets |-> Nothing]
                      /\ todo' = targets
                      /\ chosen' = IF route.upload = "late" THEN {} ELSE targets
                      /\ UNCHANGED <<cert, update, failed, result>>
  BY DEF ListPage
<1>3. /\ phase = "list" /\ doing = {} /\ at = 0 /\ spoiled = {} /\ Lists
      /\ UNCHANGED <<route, wanted, account, canceled, attempts, acts, shifted, spoiled, halfway>>
  BY DEF ListPage, Bookkeeping
<1>4. Shown(page) \in [Targets -> Reading] /\ [t \in Targets |-> Nothing] \in [Targets -> Reading]
  BY DEF Shown, TypeOK, Reading, Nothing, Certificates
<1>5. CASE ~LastPage(page, unseen)
  <2>1. /\ unseen' = unseen \ page /\ found' = found \cup page /\ shown' = Shown(page)
        /\ UNCHANGED <<phase, cert, todo, update, failed, result, chosen>>
    BY <1>2, <1>5
  <2>2. TypeOK'
    BY <1>1, <1>3, <1>4, <2>1 DEF TypeOK, account, update
  <2>3. Bookkeeping' /\ Confined'
    BY <1>3, <2>1 DEF Bookkeeping, Confined, Lists, account, update
  <2> QED
    BY <2>2, <2>3
<1>6. CASE LastPage(page, unseen) /\ End("error") /\ UNCHANGED chosen
  BY <1>1, <1>3, <1>6, EndKeeps DEF TypeOK
<1>7. CASE LastPage(page, unseen) /\ ~(End("error") /\ UNCHANGED chosen)
  <2> DEFINE targets == Chosen(found \cup page, Shown(page))
  <2>1. /\ phase' = (IF route.upload = "late" THEN "upload" ELSE "update")
        /\ unseen' = {} /\ found' = {}
        /\ shown' = (IF Does("recall") THEN Shown(page) ELSE [t \in Targets |-> Nothing])
        /\ todo' = targets
        /\ chosen' = (IF route.upload = "late" THEN {} ELSE targets)
        /\ UNCHANGED <<cert, update, failed, result>>
    BY <1>2, <1>7
  <2>2. targets \in SUBSET Targets /\ (route.pick # "every" => targets \subseteq wanted)
    BY <1>3, ChosenConfined DEF TypeOK
  <2> HIDE DEF targets
  <2>3. TypeOK'
    BY <1>1, <1>3, <1>4, <2>1, <2>2 DEF TypeOK, account, update
  <2>4. Bookkeeping'
    BY <1>3, <2>1 DEF Bookkeeping, Lists, account, update
  <2>5. Confined'
    BY <1>3, <2>1, <2>2 DEF Confined, account, update
  <2> QED
    BY <2>3, <2>4, <2>5
<1> QED
  BY <1>5, <1>6, <1>7

LEMMA ListingFailsStep == ASSUME DeploymentInv, ListingFails PROVE DeploymentInv'
<1>1. faults' \in 0..MaxFaults /\ disturbed' \in BOOLEAN
  BY FaultsStep DEF ListingFails, DeploymentInv
<1> QED
  BY <1>1, EndKeeps DEF ListingFails, history, DeploymentInv, TypeOK

-----------------------------------------------------------------------------
\* A group is taken from the targets still to be updated.
LEMMA NextRoundStep == ASSUME DeploymentInv, NextRound PROVE DeploymentInv'
<1> USE DEF DeploymentInv
<1>1. PICK group \in Groups : doing' = group /\ todo' = todo \ group
  BY DEF NextRound
<1>2. group \subseteq todo
  <2>1. route.loop = "each" => Groups = {{t} : t \in todo}
    BY DEF Groups
  <2>2. CASE route.loop = "each"
    BY <2>1, <2>2
  <2>3. CASE route.loop = "chunks"
    BY <2>3 DEF Groups
  <2>4. CASE route.loop = "batch"
    BY <2>4 DEF Groups
  <2> QED
    BY <2>2, <2>3, <2>4, RouteShape DEF TypeOK
<1>3. /\ phase = "update" /\ doing = {} /\ at = 0
      /\ UNCHANGED <<route, wanted, account, phase, cert, listing, at, copy, failed,
                     result, canceled, counters, disturbed, history>>
  BY DEF NextRound, Bookkeeping
<1>4. doing' # {} => at' < Len(route'.steps)
  <2>1. CASE route.steps = <<>>
    BY <1>1, <1>2, <1>3, <2>1, RouteShape DEF TypeOK, Confined
  <2>2. CASE route.steps # <<>>
    BY <1>3, <2>2, RouteShape DEF TypeOK
  <2> QED
    BY <2>1, <2>2
<1>5. TypeOK'
  BY <1>1, <1>2, <1>3, <1>4 DEF TypeOK, account, listing, counters, history
<1>6. Bookkeeping'
  BY <1>1, <1>2, <1>3 DEF Bookkeeping, Lists, history
<1>7. Confined'
  BY <1>1, <1>2, <1>3 DEF Confined, account
<1> QED
  BY <1>5, <1>6, <1>7

LEMMA LoopEndStep ==
  ASSUME DeploymentInv, LoopCanceled \/ Finish \/ Crash PROVE DeploymentInv'
<1>1. \E o \in {"none", "ok", "error"} : End(o)
  BY DEF LoopCanceled, Finish, Crash
<1>2. /\ UNCHANGED <<route, wanted, account, canceled, counters, disturbed, shifted, chosen, spoiled>>
      /\ halfway' \in SUBSET (halfway \cup doing)
  BY DEF LoopCanceled, Finish, Crash, history, LeftHalfway
<1>3. /\ faults' \in 0..MaxFaults /\ disturbed' \in BOOLEAN
      /\ halfway' \in SUBSET Targets
  BY <1>2 DEF DeploymentInv, TypeOK, counters
<1> QED
  BY <1>1, <1>2, <1>3, EndKeeps DEF counters

\* A step of an update, done or failed, keeps the invariant if what it does to
\* the account does.
LEMMA UpdateStep ==
  ASSUME DeploymentInv, Doing, StepFails \/ Misses \/ \E r \in Reading : StepDone(r),
         UNCHANGED Rest, faults' \in 0..MaxFaults, disturbed' \in BOOLEAN,
         present' \in SUBSET Targets,
         bound' \in [Targets -> SUBSET Certificates],
         settings' \in [Targets -> {"first", "edited"}],
         job' \in [Targets -> {"none", "running", "done", "failed"}],
         route.pick # "every" =>
           \A t \in Targets \ wanted : bound'[t] \subseteq {"old", "foreign"} /\ job'[t] = "none"
  PROVE  DeploymentInv'
<1> USE DEF DeploymentInv
<1>1. /\ UNCHANGED <<route, wanted, phase, cert, unseen, found, shown, todo, result,
                     canceled, attempts, acts, shifted, chosen>>
  BY DEF Rest, listing
<1>2. Len(route.steps) \in Nat /\ at \in 0..Len(route.steps) /\ at < Len(route.steps)
  BY RouteShape DEF TypeOK, Doing
<1>3. Nothing \in Reading
  BY DEF Nothing, Reading, Certificates
<1>4. /\ doing' \in SUBSET doing /\ at' \in 0..Len(route.steps) /\ copy' \in Reading
      /\ doing' # {} => at' < Len(route.steps)
      /\ doing' = {} => at' = 0
      /\ failed' \in BOOLEAN
      /\ spoiled' \subseteq spoiled \cup doing
      /\ halfway' \subseteq halfway \cup doing
  <2>1. CASE StepFails
    BY <1>2, <1>3, <2>1 DEF StepFails, RoundEnds, LeftHalfway
  <2>2. CASE Misses \/ \E r \in Reading : StepDone(r)
    <3>1. PICK r \in Reading : Advance(r)
      <4>1. [copy EXCEPT !.bound = @ \ {"old"}] \in Reading
        BY DEF TypeOK, Reading
      <4> QED
        BY <2>2, <4>1 DEF StepDone, Misses
    <3>2. failed' = failed /\ spoiled' = spoiled /\ halfway' \subseteq halfway \cup doing
      BY <2>2 DEF StepDone, Misses
    <3>3. CASE at + 1 = Len(route.steps)
      BY <1>2, <1>3, <3>1, <3>2, <3>3 DEF Advance, RoundEnds, TypeOK
    <3>4. CASE at + 1 # Len(route.steps)
      <4>1. at' = at + 1 /\ copy' = r /\ doing' = doing
        BY <3>1, <3>4 DEF Advance
      <4>2. at + 1 < Len(route.steps) /\ at + 1 \in 0..Len(route.steps)
        BY <1>2, <3>4
      <4> QED
        BY <3>2, <4>1, <4>2 DEF TypeOK, Doing
    <3> QED
      BY <3>3, <3>4
  <2> QED
    BY <2>1, <2>2
<1>5. phase = "update" /\ doing \subseteq chosen
  BY DEF Bookkeeping, Doing
<1>6. TypeOK'
  BY <1>1, <1>4, <1>5 DEF TypeOK
<1>7. Bookkeeping'
  BY <1>1, <1>4, <1>5 DEF Bookkeeping, Lists
<1>8. Confined'
  BY <1>1, <1>4 DEF Confined
<1> QED
  BY <1>6, <1>7, <1>8

\* A reading shows certificates that are there, and the settings as they are.
LEMMA ShowsSome ==
  ASSUME NEW t, NEW reading \in Shows(t)
  PROVE  /\ \E c \in SUBSET bound[t] : reading = [bound |-> c, settings |-> settings[t]]
         /\ Now \notin {"lookup", "readBound"} =>
              reading = [bound |-> bound[t], settings |-> settings[t]]
  BY DEF Shows

\* The steps that only look keep the account as it is.
LEMMA LookStep ==
  ASSUME DeploymentInv, Recall \/ Skip \/ Read \/ ReadFails \/ Find \/ FindFails \/ Omit \/ Await \/ AwaitFails
  PROVE  DeploymentInv'
<1>1. /\ Doing /\ UNCHANGED Rest /\ UNCHANGED account
      /\ GoesWell \/ GoesWrong
  BY DEF Recall, Skip, Read, ReadFails, Find, FindFails, Omit, Await, AwaitFails, GoesWell
<1>2. /\ faults' \in 0..MaxFaults /\ disturbed' \in BOOLEAN
      /\ present' \in SUBSET Targets
      /\ bound' \in [Targets -> SUBSET Certificates]
      /\ settings' \in [Targets -> {"first", "edited"}]
      /\ job' \in [Targets -> {"none", "running", "done", "failed"}]
      /\ route.pick # "every" =>
           \A t \in Targets \ wanted : bound'[t] \subseteq {"old", "foreign"} /\ job'[t] = "none"
  BY <1>1, FaultsStep DEF DeploymentInv, TypeOK, Confined, account
<1>3. /\ Nothing \in Reading /\ copy \in Reading /\ doing \subseteq Targets
      /\ \A t \in Targets : shown[t] \in Reading
      /\ \A t \in Targets : Shows(t) \subseteq Reading
  <2>1. /\ Nothing \in Reading /\ copy \in Reading /\ doing \subseteq Targets
        /\ \A t \in Targets : shown[t] \in Reading
    BY DEF DeploymentInv, TypeOK, Nothing, Reading, Certificates
  <2>2. \A t \in Targets : bound[t] \in SUBSET Certificates /\ settings[t] \in {"first", "edited"}
    BY DEF DeploymentInv, TypeOK
  <2>3. \A t \in Targets : Shows(t) \subseteq Reading
    BY <2>2, ShowsSome DEF Reading
  <2> QED
    BY <2>1, <2>3
<1>4. StepFails \/ Misses \/ (\E r \in Reading : StepDone(r))
      \/ (Skip /\ RoundEnds /\ UNCHANGED <<failed, spoiled, halfway>>)
  <2>1. CASE Recall
    BY <1>3, <2>1 DEF Recall
  <2>2. CASE Skip
    BY <1>3, <2>2 DEF Skip
  <2>3. CASE Read
    BY <1>3, <2>3 DEF Read
  <2>4. CASE ReadFails
    BY <1>3, <2>4 DEF ReadFails
  <2>5. CASE Await
    BY <1>3, <2>5 DEF Await
  <2>6. CASE AwaitFails
    BY <2>6 DEF AwaitFails
  <2>7. CASE Find \/ FindFails \/ Omit
    BY <1>3, <2>7 DEF Find, FindFails, Omit
  <2> QED
    BY <2>1, <2>2, <2>3, <2>4, <2>5, <2>6, <2>7
<1>5. CASE StepFails \/ Misses \/ \E r \in Reading : StepDone(r)
  BY <1>1, <1>2, <1>5, UpdateStep
<1>6. CASE RoundEnds /\ UNCHANGED <<failed, spoiled, halfway>>
  <2>1. /\ doing' = {} /\ at' = 0 /\ copy' \in Reading
        /\ failed' = failed /\ spoiled' = spoiled /\ halfway' = halfway
    BY <1>3, <1>6 DEF RoundEnds
  <2>2. /\ UNCHANGED <<route, wanted, phase, cert, unseen, found, shown, todo, result,
                       canceled, attempts, acts, shifted, chosen>>
    BY <1>1 DEF Rest, listing
  <2>3. phase = "update" /\ 0 \in 0..Len(route.steps)
    BY <1>1, RouteShape DEF DeploymentInv, TypeOK, Bookkeeping, Doing
  <2>4. TypeOK'
    BY <1>2, <2>1, <2>2, <2>3 DEF DeploymentInv, TypeOK
  <2>5. Bookkeeping' /\ Confined'
    BY <1>2, <2>1, <2>2, <2>3 DEF DeploymentInv, Bookkeeping, Confined, Lists
  <2> QED
    BY <2>4, <2>5 DEF DeploymentInv
<1> QED
  BY <1>4, <1>5, <1>6

\* What a change leaves in its target.
LEMMA BoundTyped ==
  ASSUME TypeOK, Now \in Changes, NEW t \in Targets
  PROVE  Bound(t) \in SUBSET Certificates /\ Settings(t) \in {"first", "edited"}
<1>1. /\ bound[t] \in SUBSET Certificates /\ copy.bound \in SUBSET Certificates
      /\ settings[t] \in {"first", "edited"} /\ copy.settings \in {"first", "edited"}
  BY DEF TypeOK, Reading
<1>2. Settings(t) \in {"first", "edited"}
  BY <1>1 DEF Settings
<1>3. /\ "new" \in Certificates /\ "mixed" \in Certificates
      /\ (copy.bound \ {"old"}) \cup {"new"} \in SUBSET Certificates
      /\ (bound[t] \ {"old"}) \cup {"new"} \in SUBSET Certificates
  BY <1>1 DEF Certificates
<1>4. Bound(t) \in SUBSET Certificates
  BY <1>1, <1>3 DEF Bound, Changes
<1> QED
  BY <1>2, <1>4

LEMMA ServedStep ==
  ASSUME DeploymentInv, Now \in Changes, NEW targets \in SUBSET doing, Served(targets)
  PROVE  /\ present' \in SUBSET Targets
         /\ bound' \in [Targets -> SUBSET Certificates]
         /\ settings' \in [Targets -> {"first", "edited"}]
         /\ job' \in [Targets -> {"none", "running", "done", "failed"}]
         /\ route.pick # "every" =>
              \A t \in Targets \ wanted : bound'[t] \subseteq {"old", "foreign"} /\ job'[t] = "none"
<1>1. targets \in SUBSET Targets /\ (route.pick # "every" => targets \subseteq wanted)
  BY DEF DeploymentInv, TypeOK, Confined
<1>2. \A t \in Targets : Bound(t) \in SUBSET Certificates /\ Settings(t) \in {"first", "edited"}
  BY BoundTyped DEF DeploymentInv
<1>3. /\ bound \in [Targets -> SUBSET Certificates]
      /\ settings \in [Targets -> {"first", "edited"}]
      /\ job \in [Targets -> {"none", "running", "done", "failed"}]
      /\ present \in SUBSET Targets
  BY DEF DeploymentInv, TypeOK
<1>4. \A t \in Targets \ targets : bound'[t] = bound[t] /\ job'[t] = job[t]
  BY DEF Served
<1>5. present' \in SUBSET Targets
  BY <1>1, <1>3 DEF Served
<1>6. bound' \in [Targets -> SUBSET Certificates]
  BY <1>2, <1>3 DEF Served
<1>7. settings' \in [Targets -> {"first", "edited"}]
  BY <1>2, <1>3 DEF Served
<1>8. job' \in [Targets -> {"none", "running", "done", "failed"}]
  BY <1>3 DEF Served
<1> QED
  BY <1>1, <1>4, <1>5, <1>6, <1>7, <1>8 DEF DeploymentInv, Confined

LEMMA ChangeStep ==
  ASSUME DeploymentInv, Change \/ ChangeFails PROVE DeploymentInv'
<1>1. /\ Doing /\ Now \in Changes /\ UNCHANGED Rest /\ (GoesWell \/ GoesWrong)
      /\ \E some \in SUBSET doing : Served(some)
      /\ StepFails \/ StepDone(copy)
  <2>1. CASE Change
    BY <2>1 DEF Change
  <2>2. CASE ChangeFails
    <3>1. PICK some \in SUBSET {t \in doing : Serves(t)} : Served(some)
      BY <2>2 DEF ChangeFails
    <3>2. some \in SUBSET doing
      OBVIOUS
    <3> QED
      BY <2>2, <3>1, <3>2 DEF ChangeFails
  <2> QED
    BY <2>1, <2>2
<1>2. copy \in Reading
  BY DEF DeploymentInv, TypeOK
<1>3. faults' \in 0..MaxFaults /\ disturbed' \in BOOLEAN
  BY <1>1, FaultsStep DEF DeploymentInv
<1>4. PICK some \in SUBSET doing : Served(some)
  BY <1>1
<1>5. /\ present' \in SUBSET Targets
      /\ bound' \in [Targets -> SUBSET Certificates]
      /\ settings' \in [Targets -> {"first", "edited"}]
      /\ job' \in [Targets -> {"none", "running", "done", "failed"}]
      /\ route.pick # "every" =>
           \A t \in Targets \ wanted : bound'[t] \subseteq {"old", "foreign"} /\ job'[t] = "none"
  BY <1>1, <1>4, ServedStep
<1>6. StepFails \/ \E r \in Reading : StepDone(r)
  BY <1>1, <1>2
<1> QED
  BY <1>1, <1>3, <1>5, <1>6, UpdateStep

-----------------------------------------------------------------------------
\* A job that ends was started by a deployment, on a target that is meant.
LEMMA JobEndsStep ==
  ASSUME DeploymentInv, NEW t \in Targets, JobEnds(t) PROVE DeploymentInv'
<1> USE DEF DeploymentInv
<1>1. /\ UNCHANGED <<route, wanted, present, settings, phase, cert, found, shown, todo,
                     doing, at, copy, failed, result, canceled, attempts, chosen, spoiled,
                     halfway, unseen, acts, shifted>>
  BY DEF JobEnds, Deployment, update
<1>2. faults' \in 0..MaxFaults /\ disturbed' \in BOOLEAN
  <2>1. MaxFaults \in Nat /\ faults \in 0..MaxFaults /\ disturbed \in BOOLEAN
    BY BoundsAssumption DEF TypeOK
  <2>2. CASE GoesWell
    BY <2>1, <2>2 DEF GoesWell
  <2>3. CASE faults < MaxFaults /\ faults' = faults + 1 /\ disturbed' = TRUE
    BY <2>1, <2>3
  <2> QED
    BY <2>2, <2>3 DEF JobEnds
<1>3. /\ bound' \in [Targets -> SUBSET Certificates]
      /\ job' \in [Targets -> {"none", "running", "done", "failed"}]
      /\ \A s \in Targets \ {t} : bound'[s] = bound[s] /\ job'[s] = job[s]
  BY DEF JobEnds, TypeOK, Certificates
<1>4. TypeOK'
  BY <1>1, <1>2, <1>3 DEF TypeOK
<1>5. Bookkeeping'
  BY <1>1 DEF Bookkeeping, Lists
<1>6. route.pick # "every" => t \in wanted
  BY DEF JobEnds, Confined
<1>7. Confined'
  BY <1>1, <1>3, <1>6 DEF Confined
<1> QED
  BY <1>4, <1>5, <1>7

\* The user may do anything to any target but give it the certificate.
LEMMA UserStep ==
  ASSUME DeploymentInv, NEW t \in Targets,
         UserRemoves(t) \/ UserEdits(t) \/ UserBinds(t)
  PROVE  DeploymentInv'
<1> USE DEF DeploymentInv
<1>1. /\ UNCHANGED <<route, wanted, faults, phase, cert, found, shown, todo,
                     doing, at, copy, failed, result, canceled, attempts, chosen, spoiled, halfway>>
      /\ acts' \in 0..MaxUserActions /\ disturbed' \in BOOLEAN
  <2>1. UserActs
    BY DEF UserRemoves, UserEdits, UserBinds
  <2>2. MaxUserActions \in Nat /\ acts \in 0..MaxUserActions
    BY BoundsAssumption DEF TypeOK
  <2> QED
    BY <2>1, <2>2 DEF UserActs, Deployment, update
<1>2. /\ present' \in SUBSET Targets /\ unseen' \in SUBSET Targets /\ shifted' \in BOOLEAN
      /\ settings' \in [Targets -> {"first", "edited"}]
      /\ bound' \in [Targets -> SUBSET Certificates]
      /\ job' \in [Targets -> {"none", "running", "done", "failed"}]
      /\ \A s \in Targets : bound'[s] \subseteq bound[s] \cup {"foreign"}
      /\ \A s \in Targets : job[s] = "none" => job'[s] = "none"
  <2>1. CASE UserRemoves(t)
    BY <2>1 DEF UserRemoves, TypeOK, Certificates
  <2>2. CASE UserEdits(t)
    BY <2>2 DEF UserEdits, TypeOK, Certificates
  <2>3. CASE UserBinds(t)
    BY <2>3 DEF UserBinds, TypeOK, Certificates
  <2> QED
    BY <2>1, <2>2, <2>3
<1>3. TypeOK'
  BY <1>1, <1>2 DEF TypeOK
<1>4. Bookkeeping'
  BY <1>1 DEF Bookkeeping, Lists
<1>5. Confined'
  BY <1>1, <1>2 DEF Confined
<1> QED
  BY <1>3, <1>4, <1>5

LEMMA CancelStep == ASSUME DeploymentInv, Cancel PROVE DeploymentInv'
<1> USE DEF DeploymentInv
<1>1. acts' \in 0..MaxUserActions
  BY BoundsAssumption DEF Cancel, TypeOK
<1>2. TypeOK'
  BY <1>1 DEF Cancel, TypeOK, account, listing, update, history
<1>3. Bookkeeping' /\ Confined'
  BY DEF Cancel, Bookkeeping, Confined, Lists, account, listing, update, history
<1> QED
  BY <1>2, <1>3

LEMMA NextInv == DeploymentInv /\ [Next]_vars => DeploymentInv'
<1> SUFFICES ASSUME DeploymentInv, [Next]_vars PROVE DeploymentInv'
  OBVIOUS
<1>1. CASE Begin
  BY <1>1, BeginStep
<1>2. CASE Program
  <2>1. CASE Upload \/ UploadFails \/ ListPage \/ ListingFails
    BY <2>1, UploadStep, UploadFailsStep, ListPageStep, ListingFailsStep
  <2>2. CASE NextRound \/ LoopCanceled \/ Finish
    BY <2>2, NextRoundStep, LoopEndStep
  <2>3. CASE Recall \/ Skip \/ Read \/ ReadFails \/ Find \/ FindFails \/ Omit \/ Await \/ AwaitFails
    BY <2>3, LookStep
  <2>4. CASE Change \/ ChangeFails
    BY <2>4, ChangeStep
  <2> QED
    BY <1>2, <2>1, <2>2, <2>3, <2>4 DEF Program
<1>3. CASE \E t \in Targets : JobEnds(t)
  BY <1>3, JobEndsStep
<1>4. CASE User
  BY <1>4, UserStep DEF User
<1>5. CASE Cancel
  BY <1>5, CancelStep
<1>6. CASE Crash
  BY <1>6, LoopEndStep
<1>7. CASE UNCHANGED vars
  BY <1>7 DEF vars, account, listing, update, counters, history, DeploymentInv, TypeOK,
              Bookkeeping, Confined, Lists
<1> QED
  BY <1>1, <1>2, <1>3, <1>4, <1>5, <1>6, <1>7 DEF Next

THEOREM DeploymentInvHolds == Spec => []DeploymentInv
<1> QED
  BY InitInv, NextInv, PTL DEF Spec

-----------------------------------------------------------------------------
\* The bookkeeping of Deploy and of its loops (aliyun_cdn.go, loop/forrange.go)
\* is typed for every route, page size and number of targets.
THEOREM TypeHolds == Spec => []TypeOK
<1>1. DeploymentInv => TypeOK
  BY DEF DeploymentInv
<1> QED
  BY <1>1, DeploymentInvHolds, PTL

\* Whatever route a deployer takes (deployer/providers), however its listing is
\* cut into pages, and however requests fail and deployments are repeated, the
\* targets its configuration does not mean keep their certificates.
THEOREM OthersAreLeftAloneHolds == Spec => []OthersAreLeftAlone
<1>1. DeploymentInv => OthersAreLeftAlone
  BY DEF DeploymentInv, Confined, OthersAreLeftAlone
<1> QED
  BY <1>1, DeploymentInvHolds, PTL

-----------------------------------------------------------------------------
(* What a change takes away *)

\* The certificate to be removed was replaced: its target has another one.
Attached ==
    Does("detach") /\ AddedIn(at) => \A t \in doing : bound[t] # {"old"}

\* Certificates for other names are where several are held only.
NoForeign ==
    ~TakesMany =>
        /\ "foreign" \notin copy.bound
        /\ \A t \in Targets : "foreign" \notin bound[t] \cup shown[t].bound

\* Only a route that creates jobs has any.
JobsAreSubmitted == ~Does("submit") => \A t \in Targets : job[t] = "none"

ChangeInv == DeploymentInv /\ Attached /\ NoForeign /\ JobsAreSubmitted

LEMMA InitChangeInv == Init => ChangeInv
<1> SUFFICES ASSUME Init PROVE ChangeInv
  OBVIOUS
<1>1. Attached
  BY DEF Init, Attached
<1>2. NoForeign
  BY DEF Init, NoForeign, Nothing
<1>3. JobsAreSubmitted
  BY DEF Init, JobsAreSubmitted
<1> QED
  BY <1>1, <1>2, <1>3, InitInv DEF ChangeInv

\* A route that detaches does so last; before the certificate is added it looks,
\* calls and adds it, and afterwards it looks up what to remove.
LEMMA LastDetaches ==
  ASSUME TypeOK, Doing, Now = "detach"
  PROVE  at + 1 = Len(route.steps) /\ AddedIn(at) /\ Does("detach")
<1>1. /\ route \in Routes /\ Len(route.steps) \in Nat /\ at \in Nat
      /\ at + 1 \in 1..Len(route.steps)
  BY RouteShape DEF TypeOK, Doing
<1>2. at + 1 = Len(route.steps) /\ Has(route, "attach") /\ Has(route, "detach")
  BY <1>1, RoutesAssumption DEF Now, Has
<1>3. PICK i \in 1..Len(route.steps) : route.steps[i] = "attach"
  BY <1>2 DEF Has
<1>4. i < Len(route.steps)
  BY <1>1, <1>2, <1>3, RoutesAssumption
<1> QED
  BY <1>1, <1>2, <1>3, <1>4 DEF AddedIn, Does

LEMMA DetachRoute ==
  ASSUME TypeOK, Doing, Does("detach")
  PROVE  /\ ~AddedIn(at) => Now \in {"read", "find", "skip", "call", "attach"}
         /\ AddedIn(at) => Now \in {"tryFind", "detach"}
         /\ at + 1 = Len(route.steps) <=> Now = "detach"
         /\ at = 0 => Now = "read"
<1>1. /\ route \in Routes /\ Len(route.steps) \in Nat /\ at \in Nat
      /\ at + 1 \in 1..Len(route.steps)
  BY RouteShape DEF TypeOK, Doing
<1>2. PICK d \in 1..Len(route.steps) : route.steps[d] = "detach"
  BY DEF Does, Has
<1>3. d = Len(route.steps) /\ route.steps[1] = "read" /\ Has(route, "attach")
  BY <1>1, <1>2, RoutesAssumption
<1>4. at + 1 = Len(route.steps) <=> Now = "detach"
  BY <1>1, <1>2, <1>3, LastDetaches DEF Now
<1>5. ASSUME ~AddedIn(at) PROVE Now \in {"read", "find", "skip", "call", "attach"}
  <2>1. PICK i \in 1..Len(route.steps) : route.steps[i] = "attach"
    BY <1>3 DEF Has
  <2>2. at + 1 = i \/ at + 1 \in 1..(i - 1)
    BY <1>1, <1>5, <2>1 DEF AddedIn
  <2>3. \A j \in 1..(i - 1) : route.steps[j] \in {"read", "find", "skip", "call"}
    BY <1>1, <2>1, RoutesAssumption DEF Does
  <2> QED
    BY <2>1, <2>2, <2>3 DEF Now
<1>6. ASSUME AddedIn(at) PROVE Now \in {"tryFind", "detach"}
  <2>1. PICK i \in 1..at : route.steps[i] = "attach"
    BY <1>6 DEF AddedIn
  <2>2. i \in 1..Len(route.steps)
    BY <1>1
  <2>3. \A j \in (i + 1)..(Len(route.steps) - 1) : route.steps[j] = "tryFind"
    BY <1>1, <2>1, <2>2, RoutesAssumption DEF Does
  <2>4. at + 1 = Len(route.steps) \/ at + 1 \in (i + 1)..(Len(route.steps) - 1)
    BY <1>1
  <2> QED
    BY <1>2, <1>3, <2>3, <2>4 DEF Now
<1> QED
  BY <1>3, <1>4, <1>5, <1>6 DEF Now

\* Outside the changes of an update.
LEMMA StillStep ==
  ASSUME ChangeInv, DeploymentInv', [Next]_vars, ~Change, ~ChangeFails
  PROVE  /\ route' = route
         /\ \A t \in Targets :
              \/ bound'[t] = bound[t] /\ settings'[t] \in {settings[t], "edited"}
              \/ t \notin present' /\ bound'[t] = {}
              \/ bound'[t] = bound[t] \cup {"foreign"} /\ settings'[t] = settings[t] /\ TakesMany
              \/ bound'[t] = {"new"} /\ settings'[t] = settings[t] /\ job[t] = "running"
<1> USE DEF ChangeInv, DeploymentInv
<1>1. CASE Begin \/ Program \/ Cancel \/ Crash \/ UNCHANGED vars
  <2>1. UNCHANGED <<route, account>>
    BY <1>1 DEF Begin, Program, Cancel, Crash, vars, Upload, UploadFails, ListPage,
       ListingFails, NextRound, LoopCanceled, Finish, Recall, Skip, Read, ReadFails, Find, FindFails, Omit,
       Await, AwaitFails, Rest
  <2> QED
    BY <2>1 DEF account
<1>2. ASSUME NEW s \in Targets, JobEnds(s)
      PROVE  /\ route' = route
             /\ \A t \in Targets :
                  \/ bound'[t] = bound[t] /\ settings'[t] = settings[t]
                  \/ bound'[t] = {"new"} /\ settings'[t] = settings[t] /\ job[t] = "running"
  BY <1>2 DEF JobEnds, TypeOK
<1>3. ASSUME NEW s \in Targets, UserRemoves(s) \/ UserEdits(s) \/ UserBinds(s)
      PROVE  /\ route' = route
             /\ \A t \in Targets :
                  \/ bound'[t] = bound[t] /\ settings'[t] \in {settings[t], "edited"}
                  \/ t \notin present' /\ bound'[t] = {}
                  \/ bound'[t] = bound[t] \cup {"foreign"} /\ settings'[t] = settings[t] /\ TakesMany
  <2>1. route' = route
    BY <1>3 DEF UserRemoves, UserEdits, UserBinds, UserActs
  <2>2. CASE UserRemoves(s)
    BY <2>1, <2>2 DEF UserRemoves, TypeOK
  <2>3. CASE UserEdits(s)
    BY <2>1, <2>3 DEF UserEdits, TypeOK
  <2>4. CASE UserBinds(s)
    BY <2>1, <2>4 DEF UserBinds, TypeOK
  <2> QED
    BY <1>3, <2>2, <2>3, <2>4
<1> QED
  BY <1>1, <1>2, <1>3 DEF Next, Program, User

\* A change of an update, served for some of its targets.
LEMMA ChangedStep ==
  ASSUME ChangeInv, Change \/ ChangeFails
  PROVE  /\ route' = route /\ Doing /\ Now \in Changes /\ at + 1 \in 1..Len(route.steps)
         /\ \/ doing' = {}
            \/ doing' = doing /\ at' = at + 1
               /\ \A t \in doing : t \in Targets /\ bound'[t] = Bound(t)
         /\ copy' \in {copy, Nothing} /\ shown' = shown
         /\ \A t \in Targets :
              \/ bound'[t] = bound[t] /\ settings'[t] = settings[t]
              \/ t \in doing /\ Serves(t) /\ bound'[t] = Bound(t) /\ settings'[t] = Settings(t)
<1> USE DEF ChangeInv, DeploymentInv
<1>1. route' = route /\ Doing /\ Now \in Changes /\ shown' = shown
  BY DEF Change, ChangeFails, Rest, listing
<1>2. at + 1 \in 1..Len(route.steps)
  BY <1>1, RouteShape DEF TypeOK, Doing
<1>3. bound \in [Targets -> SUBSET Certificates] /\ settings \in [Targets -> {"first", "edited"}]
  BY DEF TypeOK
<1>4. doing \subseteq Targets
  BY DEF TypeOK
<1>5. CASE Change
  <2>1. /\ \A t \in doing : Serves(t)
        /\ Served(doing) /\ StepDone(copy)
    BY <1>5 DEF Change
  <2>2. \A t \in Targets :
          /\ bound'[t] = IF t \in doing THEN Bound(t) ELSE bound[t]
          /\ settings'[t] = IF t \in doing THEN Settings(t) ELSE settings[t]
    BY <2>1 DEF Served
  <2>3. \/ doing' = {} /\ copy' = Nothing
        \/ doing' = doing /\ at' = at + 1 /\ copy' = copy
    BY <2>1 DEF StepDone, Advance, RoundEnds
  <2> QED
    BY <1>1, <1>2, <1>4, <2>1, <2>2, <2>3
<1>6. CASE ChangeFails
  <2>1. PICK some \in SUBSET {t \in doing : Serves(t)} : Served(some)
    BY <1>6 DEF ChangeFails
  <2>2. \A t \in Targets :
          /\ bound'[t] = IF t \in some THEN Bound(t) ELSE bound[t]
          /\ settings'[t] = IF t \in some THEN Settings(t) ELSE settings[t]
    BY <2>1 DEF Served
  <2>3. doing' = {} /\ copy' = Nothing
    BY <1>6 DEF ChangeFails, StepFails, RoundEnds
  <2>4. \A t \in some : t \in doing /\ Serves(t)
    BY <2>1
  <2> QED
    BY <1>1, <1>2, <2>2, <2>3, <2>4
<1> QED
  BY <1>5, <1>6

\* What an update has done and what it knows, outside its changes.
LEMMA LookedStep ==
  ASSUME ChangeInv, [Next]_vars, ~Change, ~ChangeFails
  PROVE  /\ \/ at' = 0
            \/ doing' = doing /\ at' = at
            \/ doing' = doing /\ at' = at + 1 /\ Doing /\ Now \notin Changes
         /\ \E known \in {copy, Nothing} \cup {shown[t] : t \in Targets}
                          \cup {[bound |-> bound[t], settings |-> settings[t]] : t \in Targets} :
              copy'.bound \subseteq known.bound
         /\ \A t \in Targets :
              shown'[t] \in {shown[t], Nothing, [bound |-> bound[t], settings |-> settings[t]]}
<1> USE DEF ChangeInv, DeploymentInv
<1> DEFINE Known == {copy, Nothing} \cup {shown[t] : t \in Targets}
                     \cup {[bound |-> bound[t], settings |-> settings[t]] : t \in Targets}
           Within == \E k \in Known : copy'.bound \subseteq k.bound
           ShownKept == \A t \in Targets :
              shown'[t] \in {shown[t], Nothing, [bound |-> bound[t], settings |-> settings[t]]}
<1>1. copy \in Known /\ Nothing \in Known /\ doing \subseteq Targets
  BY DEF TypeOK
<1>2. ASSUME NEW o, End(o) PROVE at' = 0 /\ Within /\ ShownKept
  BY <1>2 DEF End
<1>3. ASSUME UNCHANGED update, UNCHANGED shown
      PROVE  doing' = doing /\ at' = at /\ Within /\ ShownKept
  BY <1>1, <1>3 DEF update
<1>4. ASSUME NEW r, NEW k \in Known, r.bound \subseteq k.bound,
             Advance(r) \/ RoundEnds, Doing, UNCHANGED Rest
      PROVE  /\ at' = 0 \/ (doing' = doing /\ at' = at + 1)
             /\ Within /\ ShownKept
  BY <1>1, <1>4 DEF Advance, RoundEnds, Rest, listing
<1>5. CASE Begin \/ Cancel \/ UNCHANGED vars \/ (\E t \in Targets : JobEnds(t)) \/ User
  <2>1. CASE Begin
    <3>1. UNCHANGED update /\ UNCHANGED shown
      BY <2>1 DEF Begin, listing
    <3> QED
      BY <1>3, <3>1
  <2>2. CASE Cancel \/ UNCHANGED vars
    BY <1>3, <2>2 DEF Cancel, vars, listing
  <2>3. CASE (\E t \in Targets : JobEnds(t)) \/ User
    BY <1>3, <2>3 DEF JobEnds, User, UserRemoves, UserEdits, UserBinds, UserActs, Deployment
  <2> QED
    BY <1>5, <2>1, <2>2, <2>3
<1>6. CASE Upload \/ UploadFails
  <2>1. CASE \E o \in {"error"} : End(o)
    BY <1>2, <2>1
  <2>2. CASE AfterUpload /\ UNCHANGED update
    BY <1>3, <2>2 DEF AfterUpload, SetOut, StartListing
  <2> QED
    BY <1>6, <2>1, <2>2 DEF Upload, UploadFails
<1>7. CASE ListPage
  <2>1. PICK page \in SUBSET unseen :
        IF ~LastPage(page, unseen)
        THEN shown' = Shown(page) /\ UNCHANGED update
        ELSE \/ End("error")
             \/ /\ shown' = IF Does("recall") THEN Shown(page)
                                                 ELSE [t \in Targets |-> Nothing]
                /\ UNCHANGED update
    <3> DEFINE listed(p) == found \cup p
    <3>1. PICK page \in SUBSET unseen :
        IF ~LastPage(page, unseen)
        THEN /\ unseen' = unseen \ page
             /\ found' = found \cup page
             /\ shown' = Shown(page)
             /\ UNCHANGED <<phase, cert, todo, update, failed, result, chosen>>
        ELSE IF Asked(listed(page)) = {} /\ route.none = "error"
                THEN /\ End("error")
                     /\ UNCHANGED chosen
                ELSE /\ phase' = IF route.upload = "late" THEN "upload" ELSE "update"
                     /\ unseen' = {}
                     /\ found' = {}
                     /\ shown' = IF Does("recall") THEN Shown(page)
                                                 ELSE [t \in Targets |-> Nothing]
                     /\ todo' = Chosen(listed(page), Shown(page))
                     /\ chosen' = IF route.upload = "late" THEN {} ELSE Chosen(listed(page), Shown(page))
                     /\ UNCHANGED <<cert, update, failed, result>>
      BY <1>7 DEF ListPage
    <3>2. CASE LastPage(page, unseen)
      BY <3>1, <3>2
    <3>3. CASE ~LastPage(page, unseen)
      BY <3>1, <3>3
    <3> QED
      BY <3>2, <3>3
  <2>2. CASE End("error")
    BY <1>2, <2>2
  <2>3. CASE UNCHANGED update /\ shown' \in {Shown(page), [t \in Targets |-> Nothing]}
    <3>1. ShownKept
      BY <2>3 DEF Shown, TypeOK
    <3> QED
      BY <1>1, <2>3, <3>1 DEF update
  <2> QED
    BY <2>1, <2>2, <2>3
<1>8. CASE ListingFails \/ LoopCanceled \/ Finish \/ Crash
  BY <1>2, <1>8 DEF ListingFails, LoopCanceled, Finish, Crash
<1>9. CASE NextRound
  <2>1. at' = at /\ at = 0 /\ copy' = copy /\ shown' = shown
    BY <1>9 DEF NextRound, listing, Bookkeeping
  <2> QED
    BY <1>1, <2>1
<1>10. CASE Recall \/ Skip \/ Read \/ ReadFails \/ Find \/ FindFails \/ Await \/ AwaitFails
  <2>1. Doing /\ Now \notin Changes /\ UNCHANGED Rest
    BY <1>10 DEF Recall, Skip, Read, ReadFails, Find, FindFails, Await, AwaitFails, Changes, Reads,
       Finds
  <2>2. \E r, k : k \in Known /\ r.bound \subseteq k.bound /\ (Advance(r) \/ RoundEnds)
    <3>1. CASE Recall
      BY <1>1, <3>1 DEF Recall, StepDone
    <3>2. CASE Skip
      BY <1>1, <3>2 DEF Skip, StepDone
    <3>3. CASE Read
      <4>1. CASE \E r : r = Nothing /\ StepDone(r)
        BY <1>1, <4>1 DEF StepDone
      <4>2. CASE StepFails
        BY <1>1, <4>2 DEF StepFails
      <4>3. ASSUME NEW t \in doing, NEW r \in Shows(t), StepDone(r)
            PROVE  \E k \in Known : r.bound \subseteq k.bound
        <5>1. PICK c \in SUBSET bound[t] : r = [bound |-> c, settings |-> settings[t]]
          BY ShowsSome
        <5>2. [bound |-> bound[t], settings |-> settings[t]] \in Known
          BY <1>1
        <5> QED
          BY <5>1, <5>2
      <4> QED
        BY <3>3, <4>1, <4>2, <4>3 DEF Read, StepDone
    <3>4. CASE ReadFails
      BY <1>1, <3>4 DEF ReadFails, StepDone, StepFails
    <3>5. CASE Await \/ AwaitFails
      BY <1>1, <3>5 DEF Await, AwaitFails, StepDone, StepFails
    <3>6. CASE Find \/ FindFails
      <4>1. [copy EXCEPT !.bound = @ \ {"old"}].bound \subseteq copy.bound
        BY DEF TypeOK, Reading
      <4> QED
        BY <1>1, <3>6, <4>1 DEF Find, FindFails, Misses, StepDone, StepFails
    <3> QED
      BY <1>10, <3>1, <3>2, <3>3, <3>4, <3>5, <3>6
  <2>3. /\ at' = 0 \/ (doing' = doing /\ at' = at + 1)
        /\ Within /\ ShownKept
    <3> HIDE DEF Known, Within, ShownKept
    <3> QED
      BY <1>4, <2>1, <2>2
  <2> QED
    BY <2>1, <2>3
<1>11. CASE Omit
  <2>1. RoundEnds /\ UNCHANGED Rest
    BY <1>11, LastDetaches DEF Omit, NothingToDetach, StepDone, Advance
  <2> QED
    BY <1>1, <2>1 DEF RoundEnds, Rest, listing
<1> QED
  BY <1>5, <1>6, <1>7, <1>8, <1>9, <1>10, <1>11 DEF Next, Program

LEMMA AttachedStep == ASSUME ChangeInv, DeploymentInv', [Next]_vars PROVE Attached'
<1> USE DEF ChangeInv, DeploymentInv
<1>1. at \in Nat /\ at' \in Nat /\ doing \subseteq Targets
  BY RouteShape DEF TypeOK
<1>2. route' = route
  BY StillStep, ChangedStep
<1>3. SUFFICES ASSUME Does("detach"), NEW i \in 1..at', route.steps[i] = "attach", NEW t \in doing'
               PROVE  bound'[t] # {"old"}
  BY <1>2 DEF Attached, AddedIn, Does
<1>4. CASE ~Change /\ ~ChangeFails
  <2>1. at' # 0
    BY <1>1, <1>3
  <2>2. CASE doing' = doing /\ at' = at + 1 /\ Doing /\ Now \notin Changes
    <3>1. i \in 1..at
      BY <1>1, <1>3, <2>2 DEF Now, Changes
    <3>2. bound[t] # {"old"} /\ t \in Targets
      BY <1>1, <1>3, <2>2, <3>1 DEF Attached, AddedIn
    <3> QED
      BY <1>4, <3>2, StillStep
  <2>3. CASE doing' = doing /\ at' = at
    <3>1. bound[t] # {"old"} /\ t \in Targets
      BY <1>1, <1>3, <2>3 DEF Attached, AddedIn
    <3> QED
      BY <1>4, <3>1, StillStep
  <2> QED
    BY <1>4, <2>1, <2>2, <2>3, LookedStep
<1>5. CASE Change \/ ChangeFails
  <2>1. /\ Doing /\ Now \in Changes
        /\ doing' = doing /\ at' = at + 1 /\ t \in Targets /\ bound'[t] = Bound(t)
    BY <1>3, <1>5, ChangedStep
  <2>2. CASE i = at + 1
    <3>1. Now = "attach"
      BY <1>3, <2>2 DEF Now
    <3> QED
      BY <2>1, <3>1 DEF Bound
  <2>3. CASE i # at + 1
    <3>1. AddedIn(at)
      BY <1>1, <1>3, <2>1, <2>3 DEF AddedIn
    <3>2. Now = "detach"
      BY <1>3, <2>1, <3>1, DetachRoute DEF Changes
    <3>3. doing' = {}
      BY <1>5, <2>1, <3>2, LastDetaches
         DEF Change, ChangeFails, StepDone, StepFails, Advance, RoundEnds
    <3> QED
      BY <1>3, <3>3
  <2> QED
    BY <2>2, <2>3
<1> QED
  BY <1>4, <1>5

LEMMA NoForeignStep == ASSUME ChangeInv, DeploymentInv', [Next]_vars PROVE NoForeign'
<1> USE DEF ChangeInv, DeploymentInv
<1>1. route' = route
  BY StillStep, ChangedStep
<1>2. SUFFICES ASSUME ~TakesMany
               PROVE  /\ "foreign" \notin copy'.bound
                      /\ \A t \in Targets : "foreign" \notin bound'[t] \cup shown'[t].bound
  BY <1>1 DEF NoForeign, TakesMany
<1>3. /\ "foreign" \notin copy.bound /\ "foreign" \notin Nothing.bound
      /\ \A t \in Targets : "foreign" \notin bound[t] /\ "foreign" \notin shown[t].bound
  BY <1>2 DEF NoForeign, Nothing
<1>4. CASE ~Change /\ ~ChangeFails
  <2>1. \A t \in Targets : "foreign" \notin bound'[t]
    BY <1>2, <1>3, <1>4, StillStep
  <2>2. "foreign" \notin copy'.bound /\ \A t \in Targets : "foreign" \notin shown'[t].bound
    BY <1>3, <1>4, LookedStep
  <2> QED
    BY <2>1, <2>2
<1>5. CASE Change \/ ChangeFails
  <2>1. Now \in Changes /\ copy' \in {copy, Nothing} /\ shown' = shown
    BY <1>5, ChangedStep
  <2>2. ASSUME NEW t \in Targets PROVE "foreign" \notin bound'[t]
    <3>1. "foreign" \notin Bound(t)
      BY <1>3, <2>1 DEF Bound, Changes
    <3> QED
      BY <1>3, <1>5, <3>1, ChangedStep
  <2> QED
    BY <1>3, <2>1, <2>2
<1> QED
  BY <1>4, <1>5

LEMMA JobsStep == ASSUME ChangeInv, [Next]_vars PROVE JobsAreSubmitted'
<1> USE DEF ChangeInv, DeploymentInv
<1>1. route' = route
  <2>1. DeploymentInv'
    BY NextInv
  <2> QED
    BY <2>1, StillStep, ChangedStep
<1>2. SUFFICES ASSUME ~Does("submit"), NEW t \in Targets PROVE job'[t] = "none"
  BY <1>1 DEF JobsAreSubmitted, Does
<1>3. \A s \in Targets : job[s] = "none"
  BY <1>2 DEF JobsAreSubmitted
<1>4. CASE Begin \/ Program \/ Cancel \/ Crash \/ UNCHANGED vars
  <2>1. CASE Change \/ ChangeFails
    <3>1. Doing /\ Now # "submit"
      <4>1. at + 1 \in 1..Len(route.steps) /\ Doing
        BY <2>1, ChangedStep
      <4> QED
        BY <1>2, <4>1 DEF Does, Has, Now
    <3>2. \E some \in SUBSET Targets : Served(some)
      BY <2>1 DEF Change, ChangeFails, TypeOK
    <3> QED
      BY <1>3, <3>1, <3>2 DEF Served
  <2>2. CASE ~Change /\ ~ChangeFails
    <3>1. job' = job
      BY <1>4, <2>2 DEF Begin, Program, Cancel, Crash, vars, Upload, UploadFails, ListPage,
         ListingFails, NextRound, LoopCanceled, Finish, Recall, Skip, Read, ReadFails, Find, FindFails, Omit,
         Await, AwaitFails, Rest, account
    <3> QED
      BY <1>3, <3>1
  <2> QED
    BY <2>1, <2>2
<1>5. CASE (\E s \in Targets : JobEnds(s)) \/ User
  <2>1. \A s \in Targets : ~JobEnds(s)
    BY <1>3 DEF JobEnds
  <2>2. PICK s \in Targets : UserRemoves(s) \/ UserEdits(s) \/ UserBinds(s)
    BY <1>5, <2>1 DEF User
  <2> QED
    BY <1>3, <2>2 DEF UserRemoves, UserEdits, UserBinds, TypeOK
<1> QED
  BY <1>4, <1>5 DEF Next

LEMMA NextChangeInv == ChangeInv /\ [Next]_vars => ChangeInv'
BY NextInv, AttachedStep, NoForeignStep, JobsStep DEF ChangeInv

\* The step being done is one of the route's; one that writes back what was
\* read was preceded by the reading.
LEMMA NowReads ==
  ASSUME ChangeInv, Doing
  PROVE  /\ Does(Now)
         /\ Now \in WritesBack => \E i \in 1..at : route.steps[i] \in Reads \cup {"recall"}
         /\ Now = "detach" => \A t \in doing : bound[t] # {"old"}
<1>1. /\ route \in Routes /\ Len(route.steps) \in Nat /\ at \in Nat
      /\ at + 1 \in 1..Len(route.steps) /\ (at + 1) - 1 = at
  BY RouteShape DEF ChangeInv, DeploymentInv, TypeOK, Doing
<1>2. Does(Now)
  BY <1>1 DEF Does, Has, Now
<1>3. ASSUME Now \in WritesBack PROVE \E i \in 1..at : route.steps[i] \in Reads \cup {"recall"}
  BY <1>1, <1>3, RoutesAssumption DEF Now
<1>4. ASSUME Now = "detach" PROVE \A t \in doing : bound[t] # {"old"}
  BY <1>4, LastDetaches DEF ChangeInv, DeploymentInv, Attached
<1> QED
  BY <1>2, <1>3, <1>4

\* Whatever its route, an update that fails between two of its requests leaves
\* no listener, domain or site without a certificate, save where the old one
\* has to go first (linode_los.go): the removal of a replaced certificate
\* (aliyun_alb.go, ucloud_ualb.go) never takes the last one, and a list that is
\* written back (baiducloud_blb.go) only does if somebody else changed it.
THEOREM NeverBareHolds == Spec => NeverBare
<1>1. ChangeInv /\ ChangeInv' /\ [Next]_vars =>
        [\A t \in present \cap present' :
           bound[t] # {} /\ bound'[t] = {} =>
               Does("clear") \/ (Stale(t) /\ Now # "detach")]_vars
  <2> SUFFICES ASSUME ChangeInv, ChangeInv', [Next]_vars,
                      NEW t \in present \cap present', bound[t] # {}, bound'[t] = {}
               PROVE  Does("clear") \/ (Stale(t) /\ Now # "detach")
    OBVIOUS
  <2>1. t \in Targets /\ bound[t] \in SUBSET Certificates
    BY DEF ChangeInv, DeploymentInv, TypeOK
  <2>2. CASE ~Change /\ ~ChangeFails
    BY <2>1, <2>2, StillStep DEF ChangeInv
  <2>3. CASE Change \/ ChangeFails
    <3>1. Doing /\ Now \in Changes /\ t \in doing /\ bound'[t] = Bound(t)
      BY <2>1, <2>3, ChangedStep
    <3>2. CASE Now = "clear"
      BY <3>1, <3>2, NowReads
    <3>3. CASE Now = "detach"
      <4>1. bound[t] # {"old"}
        BY <3>1, <3>3, NowReads
      <4>2. bound[t] \ (copy.bound \cap {"old"}) = {}
        BY <3>1, <3>3 DEF Bound
      <4> QED
        BY <4>1, <4>2
    <3>4. CASE Now \in {"mergeAny", "writeAny"}
      <4>1. copy.bound = {}
        BY <3>1, <3>4 DEF Bound
      <4>2. \E i \in 1..at : route.steps[i] \in Reads \cup {"recall"}
        BY <3>1, <3>4, NowReads DEF WritesBack
      <4>3. copy # [bound |-> bound[t], settings |-> settings[t]]
        BY <4>1
      <4> QED
        BY <3>1, <3>4, <4>2, <4>3 DEF Stale
    <3>5. CASE Now \notin {"clear", "detach", "mergeAny", "writeAny"}
      BY <3>1, <3>5 DEF Bound, Changes
    <3> QED
      BY <3>2, <3>3, <3>4, <3>5
  <2> QED
    BY <2>2, <2>3
<1> QED
  BY <1>1, InitChangeInv, NextChangeInv, PTL DEF Spec, NeverBare

\* A certificate for other names, or a setting, that the reading of a target shows
\* survives its update, in one request or several: what is lost was changed
\* between the reading and the writing, or left out of the reading for not being
\* synced (aliyun_waf.go:291), and never under an ETag or a resource version
\* (aws_cloudfront.go, k8s_secret.go).  The TLS 1.3 setting of a default
\* certificate (aliyun_waf.go:351) is the exception: it is lost in any case.
THEOREM EditsAreLostToStaleReadingsOnlyHolds == Spec => EditsAreLostToStaleReadingsOnly
<1>1. ChangeInv /\ ChangeInv' /\ [Next]_vars =>
        [\A t \in present \cap present' :
           /\ "foreign" \in bound[t] /\ "foreign" \notin bound'[t] =>
                 Stale(t) /\ ~Does("cas")
           /\ settings[t] = "edited" /\ settings'[t] = "first" =>
                 \/ Stale(t) /\ ~Does("cas")
                 \/ t \in doing /\ Now = "reset"]_vars
  <2> SUFFICES ASSUME ChangeInv, ChangeInv', [Next]_vars, NEW t \in present \cap present',
                      \/ "foreign" \in bound[t] /\ "foreign" \notin bound'[t]
                      \/ /\ settings[t] = "edited" /\ settings'[t] = "first"
                         /\ ~(t \in doing /\ Now = "reset")
               PROVE  Stale(t) /\ ~Does("cas")
    OBVIOUS
  <2>1. t \in Targets /\ bound[t] \in SUBSET Certificates /\ settings[t] \in {"first", "edited"}
    BY DEF ChangeInv, DeploymentInv, TypeOK
  <2>2. "foreign" \in bound[t] => TakesMany
    BY <2>1 DEF ChangeInv, NoForeign
  <2>3. CASE ~Change /\ ~ChangeFails
    <3>1. CASE job[t] = "running"
      <4>1. Does("submit") /\ route \in Routes
        BY <2>1, <3>1 DEF ChangeInv, JobsAreSubmitted, DeploymentInv, TypeOK
      <4>2. ~TakesMany
        BY <4>1, RoutesAssumption DEF TakesMany, Does
      <4> QED
        BY <2>1, <2>2, <2>3, <4>2, StillStep DEF ChangeInv
    <3>2. CASE job[t] # "running"
      BY <2>1, <2>3, <3>2, StillStep DEF ChangeInv
    <3> QED
      BY <3>1, <3>2
  <2>4. CASE Change \/ ChangeFails
    <3>1. /\ Doing /\ Now \in Changes /\ t \in doing /\ Serves(t)
          /\ bound'[t] = Bound(t) /\ settings'[t] = Settings(t)
      BY <2>1, <2>4, ChangedStep
    <3>2. Does(Now) /\ route \in Routes
      BY <3>1, NowReads DEF ChangeInv, DeploymentInv, TypeOK
    <3>3. Now \in {"clear", "key", "crt"} => ~TakesMany
      BY <3>2, RoutesAssumption DEF TakesMany, HoldsSeveral, Does
    <3>4. Now \in WritesBack /\ copy # [bound |-> bound[t], settings |-> settings[t]]
      <4>1. CASE "foreign" \in bound[t] /\ "foreign" \notin bound'[t]
        <5>1. Now \notin {"clear", "key", "crt"}
          BY <2>2, <3>3, <4>1
        <5>2. CASE Now \in WritesBack
          <6>1. "foreign" \notin copy.bound
            BY <3>1, <4>1, <5>2 DEF Bound, WritesBack
          <6>2. copy # [bound |-> bound[t], settings |-> settings[t]]
            BY <4>1, <6>1
          <6> QED
            BY <5>2, <6>2
        <5>3. CASE Now \notin WritesBack
          BY <3>1, <4>1, <5>1, <5>3 DEF Bound, Changes, WritesBack
        <5> QED
          BY <5>2, <5>3
      <4>2. CASE settings[t] = "edited" /\ settings'[t] = "first" /\ Now # "reset"
        BY <3>1, <4>2 DEF Settings, WritesBack
      <4> QED
        BY <3>1, <4>1, <4>2
    <3>5. ~Does("cas")
      <4>1. Now # "cas"
        BY <3>1, <3>4 DEF Serves
      <4> QED
        BY <3>2, <3>4, <4>1, RoutesAssumption DEF Does
    <3> QED
      BY <3>1, <3>4, <3>5, NowReads DEF Stale
  <2> QED
    BY <2>3, <2>4
<1> QED
  BY <1>1, InitChangeInv, NextChangeInv, PTL DEF Spec, EditsAreLostToStaleReadingsOnly

-----------------------------------------------------------------------------
(* What an update that is done has achieved *)

\* A target that is gone has nothing; a job runs where there is a target, and
\* one that is done has put the certificate there.
JobsAndTargets ==
    \A t \in Targets :
        /\ t \notin present => bound[t] = {} /\ settings[t] = "first"
        /\ job[t] = "running" => t \in present
        /\ Does("submit") /\ t \in present /\ job[t] = "done" => "new" \in bound[t]

\* The targets of a round: one where they are updated one after the other.
OneAtATime == route.loop = "each" => \A s, t \in doing : s = t

\* A job that was submitted in this update is on its target, and has failed only
\* with a fault or the removal of the target.
Submitted ==
    (\E i \in 1..at : route.steps[i] = "submit") =>
        \A t \in doing : job[t] # "none" /\ (job[t] = "failed" => disturbed)

\* What the listing showed of the certificate is still so, of a target that is
\* still there.
ShownIsKept ==
    /\ \A t \in present : "new" \in shown[t].bound => "new" \in bound[t]
    /\ phase # "list" /\ ~Does("recall") => shown = [t \in Targets |-> Nothing]

\* So is what was just read; the certificate to be replaced is found by the
\* reading; and nothing has changed if nobody disturbed it.
ReadingIsKept ==
    /\ at > 0 /\ route.steps[at] \in Reads \cup {"recall", "find"} =>
         \A t \in doing \cap present : "new" \in copy.bound => "new" \in bound[t]
    /\ at > 0 /\ (\A j \in 1..at : route.steps[j] \in {"read", "skip"}) =>
         \A t \in doing : "old" \in bound[t] => "old" \in copy.bound
    /\ at > 0 /\ route.steps[at] \in {"read", "peek"} /\ ~Does("submit") /\ ~disturbed =>
         \A t \in doing : copy = [bound |-> bound[t], settings |-> settings[t]]

\* What an update leaves in its target, and the steps that bring it about.
Updated(t) ==
    \/ "new" \in bound[t]
    \/ Does("awaitAnyEnd")
    \/ EntriesOnly /\ "old" \notin bound[t]

Settles(n) ==
    \E i \in 1..n :
        /\ route.steps[i] \in Gives \cup ToEntries \cup {"await", "awaitAnyEnd"}
        /\ \A k \in (i + 1)..n : route.steps[k] \in {"call", "tryFind", "detach"}

StepsSettle == Settles(at) => \A t \in doing \cap present : Updated(t)

UpdateInv ==
    /\ ChangeInv /\ JobsAndTargets /\ OneAtATime /\ Submitted
    /\ ShownIsKept /\ ReadingIsKept /\ StepsSettle

\* What the assumptions say of the route being run.
LEMMA TheRoute ==
  ASSUME TypeOK
  PROVE  /\ route \in Routes /\ route.steps \in Seq(STRING) /\ Len(route.steps) \in Nat
         /\ at \in Nat /\ at \in 0..Len(route.steps)
         /\ doing # {} => at + 1 \in 1..Len(route.steps)
         /\ route.loop \in {"each", "chunks", "batch"}
         /\ \A s \in Reads \cup Finds \cup {"recall"} : Does(s) => route.loop = "each"
         /\ route.steps # <<>> => Settles(Len(route.steps))
  BY RouteShape, StepsAssumption DEF TypeOK, Does, Settles

\* What the step being done may follow, and go with.
LEMMA TheStep ==
  ASSUME TypeOK, Doing
  PROVE  /\ Does(Now) /\ Now = route.steps[at + 1]
         /\ Now \in Reads \cup Finds \cup {"recall"} => route.loop = "each"
         /\ Now = "skip" => at > 0 /\ route.steps[at] \in Reads \cup {"recall", "find"}
         /\ Now = "find" => at > 0 /\ route.steps[at] = "read"
         /\ Now = "cas" => at > 0 /\ route.steps[at] \in {"read", "peek"} /\ ~Does("submit")
         /\ Now \in {"replaceAny", "replaceOrFail", "place", "clear"} =>
              at > 0 /\ \A j \in 1..at : route.steps[j] \in {"read", "skip"}
         /\ Now \in {"await", "awaitAnyEnd"} => \E j \in 1..at : route.steps[j] = "submit"
         /\ Does("submit") =>
              Now \in {"call", "read", "glance", "skip", "submit", "await", "awaitAnyEnd"}
         /\ Does("recall") => Now \in {"recall", "skip", "set", "write", "merge"} /\ ~Does("peek")
         /\ Does("peek") => Now \in {"peek", "skip", "set", "cas"}
<1>1. /\ route \in Routes /\ at \in Nat /\ at + 1 \in 1..Len(route.steps) /\ (at + 1) - 1 = at
      /\ at + 1 > 1 => at > 0
      /\ Len(route.steps) \in Nat
  BY TheRoute DEF Doing
<1>2. Does(Now) /\ Now = route.steps[at + 1]
  BY <1>1 DEF Does, Has, Now
<1>3. /\ Now \in Reads \cup Finds \cup {"recall"} => route.loop = "each"
      /\ Does("submit") =>
           Now \in {"call", "read", "glance", "skip", "submit", "await", "awaitAnyEnd"}
      /\ Does("recall") => Now \in {"recall", "skip", "set", "write", "merge"}
      /\ Does("peek") => Now \in {"peek", "skip", "set", "cas"}
  BY <1>1, <1>2, StepsAssumption DEF Does
<1>4. /\ Now = "skip" => at > 0 /\ route.steps[at] \in Reads \cup {"recall", "find"}
      /\ Now = "find" => at > 0 /\ route.steps[at] = "read"
      /\ Now = "cas" => at > 0 /\ route.steps[at] \in {"read", "peek"}
      /\ Now \in {"replaceAny", "replaceOrFail", "place", "clear"} =>
           at > 0 /\ \A j \in 1..at : route.steps[j] \in {"read", "skip"}
      /\ Now \in {"await", "awaitAnyEnd"} => \E j \in 1..at : route.steps[j] = "submit"
  BY <1>1, <1>2, StepsAssumption, RoutesAssumption
<1>5. Now = "cas" => ~Does("submit")
  BY <1>3
<1>6. Does("recall") => ~Does("peek")
  BY <1>1, StepsAssumption DEF Does, Has
<1> QED BY <1>2, <1>3, <1>4, <1>5, <1>6

\* Who changes the account: an update, a job that ends, the user.
LEMMA AccountSteps ==
  ASSUME [Next]_vars
  PROVE  \/ UNCHANGED account
         \/ Change \/ ChangeFails
         \/ \E s \in Targets : JobEnds(s) \/ UserRemoves(s) \/ UserEdits(s) \/ UserBinds(s)
<1>1. CASE UNCHANGED vars
  BY <1>1 DEF vars
<1>2. CASE Begin \/ Cancel \/ Crash
  BY <1>2 DEF Begin, Cancel, Crash
<1>3. CASE Program
  BY <1>3 DEF Program, Upload, UploadFails, ListPage, ListingFails, NextRound, LoopCanceled,
     Finish, Recall, Skip, Read, ReadFails, Find, FindFails, Omit, Await, AwaitFails
<1> QED
  BY <1>1, <1>2, <1>3 DEF Next, User

\* A change is served for all targets of the round, or for some of them and the
\* update fails.
LEMMA ServedTargets ==
  ASSUME TypeOK, Change \/ ChangeFails
  PROVE  /\ Doing /\ Now \in Changes /\ UNCHANGED Rest
         /\ \E some \in SUBSET doing :
              /\ Served(some) /\ \A t \in some : Serves(t)
              /\ \/ Change /\ some = doing /\ StepDone(copy)
                 \/ ChangeFails /\ StepFails
<1>1. CASE Change
  BY <1>1 DEF Change
<1>2. CASE ChangeFails
  <2>1. PICK some \in SUBSET {t \in doing : Serves(t)} : Served(some)
    BY <1>2 DEF ChangeFails
  <2>2. some \in SUBSET doing /\ \A t \in some : Serves(t)
    OBVIOUS
  <2> QED
    BY <1>2, <2>1, <2>2 DEF ChangeFails
<1> QED
  BY <1>1, <1>2

LEMMA ServedEffect ==
  ASSUME NEW some \in SUBSET Targets, Served(some)
  PROVE  /\ present' = present \cup some
         /\ \A t \in Targets :
              /\ bound'[t] = IF t \in some THEN Bound(t) ELSE bound[t]
              /\ settings'[t] = IF t \in some THEN Settings(t) ELSE settings[t]
              /\ job'[t] = IF t \in some /\ Now = "submit" THEN "running" ELSE job[t]
  BY DEF Served

\* What the others do to a target.
LEMMA OthersEffect ==
  ASSUME TypeOK, NEW s \in Targets,
         JobEnds(s) \/ UserRemoves(s) \/ UserEdits(s) \/ UserBinds(s)
  PROVE  /\ UNCHANGED <<route, wanted, phase, cert, found, shown, todo, doing, at, copy, failed,
                        result, canceled, attempts, chosen, spoiled, halfway>>
         /\ disturbed => disturbed'
         /\ \A t \in Targets :
              \/ /\ t \in present <=> t \in present'
                 /\ bound'[t] = bound[t] /\ settings'[t] = settings[t] /\ job'[t] = job[t]
              \/ /\ t \in present <=> t \in present'
                 /\ settings'[t] = settings[t] /\ job[t] = "running"
                 /\ \/ bound'[t] = {"new"} /\ job'[t] = "done"
                    \/ bound'[t] = bound[t] /\ job'[t] = "failed" /\ disturbed'
              \/ /\ t \in present /\ t \notin present' /\ disturbed'
                 /\ bound'[t] = {} /\ settings'[t] = "first"
                 /\ job'[t] = IF job[t] = "running" THEN "failed" ELSE job[t]
              \/ /\ t \in present /\ t \in present' /\ disturbed' /\ job'[t] = job[t]
                 /\ \/ bound'[t] = bound[t]
                    \/ bound'[t] = bound[t] \cup {"foreign"} /\ settings'[t] = settings[t]
<1>1. CASE JobEnds(s)
  <2>1. /\ UNCHANGED <<route, wanted, present, settings, phase, cert, found, shown, todo, doing,
                       at, copy, failed, result, canceled, attempts, chosen, spoiled, halfway>>
        /\ disturbed => disturbed'
    BY <1>1 DEF JobEnds, Deployment, update, GoesWell
  <2> QED BY <1>1, <2>1 DEF JobEnds, TypeOK
<1>2. CASE UserRemoves(s) \/ UserEdits(s) \/ UserBinds(s)
  <2>1. /\ UNCHANGED <<route, wanted, phase, cert, found, shown, todo, doing, at, copy, failed,
                       result, canceled, attempts, chosen, spoiled, halfway>>
        /\ disturbed'
    BY <1>2 DEF UserRemoves, UserEdits, UserBinds, UserActs, Deployment, update
  <2>2. CASE UserRemoves(s)
    BY <2>1, <2>2 DEF UserRemoves, TypeOK
  <2>3. CASE UserEdits(s)
    BY <2>1, <2>3 DEF UserEdits, TypeOK
  <2>4. CASE UserBinds(s)
    BY <2>1, <2>4 DEF UserBinds, TypeOK
  <2> QED BY <1>2, <2>2, <2>3, <2>4
<1> QED BY <1>1, <1>2

LEMMA RouteStays == ASSUME ChangeInv, [Next]_vars PROVE route' = route /\ wanted' = wanted
<1>1. DeploymentInv'
  BY NextInv DEF ChangeInv
<1>2. route' = route
  BY <1>1, StillStep, ChangedStep
<1>3. wanted' = wanted
  <2>1. CASE Program
    BY <2>1 DEF Program, Upload, UploadFails, ListPage, ListingFails, NextRound, LoopCanceled,
       Finish, Recall, Skip, Read, ReadFails, Find, FindFails, Omit, Await, AwaitFails, Change, ChangeFails, Rest
  <2>2. CASE (\E t \in Targets : JobEnds(t)) \/ User
    BY <2>2 DEF JobEnds, User, UserRemoves, UserEdits, UserBinds, UserActs
  <2> QED BY <2>1, <2>2 DEF Next, Begin, Cancel, Crash, vars
<1> QED BY <1>2, <1>3

LEMMA JobsAndTargetsStep ==
  ASSUME ChangeInv, JobsAndTargets, [Next]_vars PROVE JobsAndTargets'
<1> USE DEF ChangeInv, DeploymentInv
<1>1. route' = route
  BY RouteStays
<1>2. CASE UNCHANGED account
  BY <1>1, <1>2 DEF JobsAndTargets, Does, account
<1>3. ASSUME NEW s \in Targets, JobEnds(s) \/ UserRemoves(s) \/ UserEdits(s) \/ UserBinds(s)
      PROVE  JobsAndTargets'
  BY <1>1, <1>3, OthersEffect DEF JobsAndTargets, Does
<1>4. CASE Change \/ ChangeFails
  <2>1. PICK some \in SUBSET doing : Served(some) /\ \A t \in some : Serves(t)
    BY <1>4, ServedTargets
  <2>2. /\ Doing /\ Now \in Changes /\ some \in SUBSET Targets
        /\ present' = present \cup some
    BY <1>4, <2>1, ServedTargets, ServedEffect DEF TypeOK
  <2>3. \A t \in Targets :
          /\ bound'[t] = IF t \in some THEN Bound(t) ELSE bound[t]
          /\ settings'[t] = IF t \in some THEN Settings(t) ELSE settings[t]
          /\ job'[t] = IF t \in some /\ Now = "submit" THEN "running" ELSE job[t]
    BY <2>1, <2>2, ServedEffect
  <2>4. Does("submit") => Now \in {"call", "submit"} /\ ~Does("peek")
    BY <2>2, TheStep DEF Changes
  <2>5. ASSUME Does("submit"), NEW t \in some PROVE t \in present /\ Bound(t) = bound[t]
    BY <2>1, <2>4, <2>5 DEF Serves, Bound
  <2>6. ASSUME NEW t \in Targets
        PROVE  /\ t \notin present' => bound'[t] = {} /\ settings'[t] = "first"
               /\ job'[t] = "running" => t \in present'
               /\ Does("submit") /\ t \in present' /\ job'[t] = "done" => "new" \in bound'[t]
    <3>1. CASE t \notin some
      BY <2>2, <2>3, <3>1 DEF JobsAndTargets
    <3>2. CASE t \in some
      BY <2>2, <2>3, <2>5, <3>2 DEF JobsAndTargets
    <3> QED BY <3>1, <3>2
  <2> QED BY <1>1, <2>6 DEF JobsAndTargets, Does
<1> QED BY <1>2, <1>3, <1>4, AccountSteps

\* A step that looks and finds, with what it keeps of it.
Looks ==
    /\ UNCHANGED account /\ Now \notin Changes /\ (disturbed => disturbed')
    /\ \/ Now = "recall" /\ \E t \in doing : copy' = shown[t]
       \/ Now = "skip" /\ copy' = copy
       \/ Now \in Reads /\ \E t \in doing \cap present : copy' \in Shows(t)
       \/ Now \in {"peek", "lookup"} /\ copy' = Nothing /\ \E t \in doing : t \notin present
       \/ Now = "glance" /\ copy' = Nothing
       \/ Now \in Finds /\ copy' = copy
       \/ /\ Now \in Finds /\ copy' = [copy EXCEPT !.bound = @ \ {"old"}]
          /\ "old" \in copy.bound => doing \subseteq halfway'
       \/ /\ Now \in {"await", "awaitAnyEnd"} /\ copy' = copy
          /\ \A t \in doing : job[t] # "running" /\ (Now = "await" => job[t] # "failed")

\* A step that has looked at what is there, or waited for it.
Looked ==
    /\ UNCHANGED account /\ Now \notin Gives \cup ToEntries
    /\ Now \in {"await", "awaitAnyEnd"} =>
         \A t \in doing : job[t] # "running" /\ (Now = "await" => job[t] # "failed")

\* The user, or a job that ends.
Others(s) == JobEnds(s) \/ UserRemoves(s) \/ UserEdits(s) \/ UserBinds(s)

\* An update is over or yet to start, waits while others act, or does one more step.
LEMMA UpdateSteps ==
  ASSUME ChangeInv, [Next]_vars
  PROVE  \/ at' = 0
         \/ /\ UNCHANGED <<update, shown>> /\ (disturbed => disturbed')
            /\ UNCHANGED account \/ \E s \in Targets : Others(s)
         \/ /\ Doing /\ doing' = doing /\ at' = at + 1 /\ UNCHANGED shown
            /\ \/ Looks
               \/ Change /\ Served(doing) /\ UNCHANGED disturbed
<1> USE DEF ChangeInv, DeploymentInv
<1>1. ASSUME NEW o, End(o) PROVE at' = 0
  BY <1>1 DEF End
<1>2. CASE Upload \/ UploadFails \/ ListPage \/ ListingFails \/ Begin
  <2>1. doing = {} /\ at = 0
    BY <1>2 DEF Upload, UploadFails, ListPage, ListingFails, Begin, Bookkeeping
  <2>2. CASE Upload \/ UploadFails \/ Begin \/ ListingFails
    BY <1>1, <2>1, <2>2
       DEF Upload, UploadFails, Begin, ListingFails, AfterUpload, SetOut, StartListing, update
  <2>3. CASE ListPage
    <3>1. ~Change /\ ~ChangeFails /\ ~Doing
      BY <2>1 DEF Change, ChangeFails, Doing
    <3> QED BY <2>1, <3>1, LookedStep
  <2> QED BY <1>2, <2>2, <2>3
<1>3. CASE LoopCanceled \/ Finish \/ Crash
  BY <1>1, <1>3 DEF LoopCanceled, Finish, Crash
<1>4. CASE NextRound
  BY <1>4 DEF NextRound, Bookkeeping
<1>5. CASE Cancel \/ UNCHANGED vars
  BY <1>5 DEF Cancel, vars, listing
<1>6. CASE \E s \in Targets : Others(s)
  <2>1. PICK s \in Targets : Others(s)
    BY <1>6
  <2> QED BY <2>1, OthersEffect DEF Others, update
<1>7. ASSUME NEW r, Advance(r) PROVE at' = 0 \/ (at' = at + 1 /\ copy' = r /\ doing' = doing)
  BY <1>7 DEF Advance, RoundEnds
<1>8. ASSUME StepFails PROVE at' = 0
  BY <1>8 DEF StepFails, RoundEnds
<1>9. CASE Change \/ ChangeFails
  <2>1. CASE Change
    BY <1>7, <2>1 DEF Change, Rest, listing, GoesWell, StepDone
  <2>2. CASE ChangeFails
    BY <1>8, <2>2 DEF ChangeFails
  <2> QED BY <1>9, <2>1, <2>2
<1>10. CASE Recall \/ Skip \/ Read \/ ReadFails \/ Find \/ FindFails \/ Await \/ AwaitFails
  <2>1. /\ Doing /\ Now \notin Changes /\ UNCHANGED <<account, shown>> /\ (disturbed => disturbed')
    BY <1>10 DEF Recall, Skip, Read, ReadFails, Find, FindFails, Await, AwaitFails, Changes, Reads,
       Finds, Rest, listing, GoesWell, GoesWrong
  <2>2. CASE Recall
    BY <1>7, <2>1, <2>2 DEF Recall, Looks, StepDone
  <2>3. CASE Skip
    BY <1>7, <2>1, <2>3 DEF Skip, Looks, RoundEnds, StepDone
  <2>4. CASE Read
    <3>1. CASE StepFails
      BY <1>8, <3>1
    <3>2. ASSUME NEW t \in doing, IsThere(t), NEW r \in Shows(t), Advance(r)
          PROVE  at' = 0 \/ (at' = at + 1 /\ doing' = doing /\ Looks)
      <4>1. t \in doing \cap present /\ Now \in Reads
        BY <2>4, <3>2 DEF IsThere, Read
      <4> QED BY <1>7, <2>1, <3>2, <4>1 DEF Looks
    <3>3. ASSUME NEW t \in doing, ~IsThere(t), Now \in {"peek", "glance", "lookup"}, Advance(Nothing)
          PROVE  at' = 0 \/ (at' = at + 1 /\ doing' = doing /\ Looks)
      <4>1. t \notin present
        BY <3>3 DEF IsThere
      <4> QED BY <1>7, <2>1, <3>3, <4>1 DEF Looks
    <3> QED BY <2>1, <2>4, <3>1, <3>2, <3>3 DEF Read, StepDone
  <2>5. CASE ReadFails
    BY <1>7, <1>8, <2>1, <2>5 DEF ReadFails, Looks, StepDone
  <2>6. CASE Await
    BY <1>7, <1>8, <2>1, <2>6 DEF Await, Looks, StepDone
  <2>7. CASE AwaitFails
    BY <1>8, <2>7 DEF AwaitFails
  <2>8. CASE Find \/ FindFails
    <3>1. Now \in Finds /\ (StepDone(copy) \/ Misses \/ StepFails)
      BY <2>8 DEF Find, FindFails
    <3>2. CASE StepDone(copy)
      BY <1>7, <2>1, <3>1, <3>2 DEF Looks, StepDone
    <3>3. CASE Misses
      <4>1. "old" \in copy.bound => doing \subseteq halfway'
        BY <3>3 DEF Misses
      <4>2. Advance([copy EXCEPT !.bound = @ \ {"old"}])
        BY <3>3 DEF Misses
      <4> QED BY <1>7, <2>1, <3>1, <4>1, <4>2 DEF Looks
    <3> QED BY <1>8, <3>1, <3>2, <3>3
  <2> QED BY <1>10, <2>2, <2>3, <2>4, <2>5, <2>6, <2>7, <2>8
<1>11. CASE Omit
  BY <1>11, LastDetaches DEF Omit, NothingToDetach, StepDone, Advance, RoundEnds
<1> QED
  BY <1>2, <1>3, <1>4, <1>5, <1>6, <1>9, <1>10, <1>11 DEF Next, Program, User, Others

LEMMA OneAtATimeStep ==
  ASSUME ChangeInv, OneAtATime, [Next]_vars PROVE OneAtATime'
<1> USE DEF ChangeInv, DeploymentInv
<1>1. SUFFICES ASSUME route.loop = "each" PROVE \A s, t \in doing' : s = t
  BY RouteStays DEF OneAtATime
<1>2. CASE NextRound
  <2>1. Groups = {{t} : t \in todo}
    BY <1>1 DEF Groups
  <2> QED BY <1>2, <2>1 DEF NextRound
<1>3. CASE ~NextRound
  <2>1. doing' \subseteq doing
    <3>1. ASSUME NEW o, End(o) PROVE doing' = {}
      BY <3>1 DEF End
    <3>2. ASSUME NEW r, Advance(r) \/ RoundEnds PROVE doing' \subseteq doing
      BY <3>2 DEF Advance, RoundEnds
    <3>3. CASE Upload \/ UploadFails \/ ListPage \/ ListingFails \/ Begin
      <4>1. CASE Upload \/ UploadFails \/ ListingFails \/ Begin
        BY <3>1, <4>1 DEF Upload, UploadFails, Begin, ListingFails, update
      <4>2. CASE ListPage
        BY <3>1, <4>2 DEF ListPage, update
      <4> QED BY <3>3, <4>1, <4>2
    <3>4. CASE LoopCanceled \/ Finish \/ Crash
      BY <3>1, <3>4 DEF LoopCanceled, Finish, Crash
    <3>5. CASE Cancel \/ UNCHANGED vars
      BY <3>5 DEF Cancel, vars, update
    <3>6. CASE \E s \in Targets : Others(s)
      BY <3>6, OthersEffect DEF Others
    <3>7. CASE Recall \/ Skip \/ Read \/ ReadFails \/ Find \/ FindFails \/ Omit \/ Await \/ AwaitFails \/ Change \/ ChangeFails
      BY <3>2, <3>7 DEF Recall, Skip, Read, ReadFails, Find, FindFails, Omit, Await, AwaitFails,
         Change, ChangeFails, StepDone, StepFails, Misses
    <3> QED
      BY <1>3, <3>3, <3>4, <3>5, <3>6, <3>7 DEF Next, Program, User, Others
  <2> QED BY <1>1, <2>1 DEF OneAtATime
<1> QED BY <1>2, <1>3

LEMMA SubmittedStep ==
  ASSUME ChangeInv, Submitted, [Next]_vars PROVE Submitted'
<1> USE DEF ChangeInv, DeploymentInv
<1>1. route' = route /\ at \in Nat
  BY RouteStays, TheRoute
<1>2. SUFFICES ASSUME NEW i \in 1..at', route.steps[i] = "submit", NEW t \in doing'
               PROVE  job'[t] # "none" /\ (job'[t] = "failed" => disturbed')
  BY <1>1 DEF Submitted
<1>3. CASE at' = 0
  BY <1>2, <1>3
<1>4. CASE UNCHANGED update /\ (disturbed => disturbed')
           /\ (UNCHANGED account \/ \E s \in Targets : Others(s))
  <2>1. /\ t \in doing /\ i \in 1..at /\ t \in Targets
        /\ job[t] # "none" /\ (job[t] = "failed" => disturbed)
    BY <1>2, <1>4 DEF Submitted, update, TypeOK
  <2>2. CASE UNCHANGED account
    BY <1>4, <2>1, <2>2 DEF account
  <2>3. ASSUME NEW s \in Targets, Others(s) PROVE job'[t] # "none" /\ (job'[t] = "failed" => disturbed')
    BY <1>4, <2>1, <2>3, OthersEffect DEF Others
  <2> QED BY <1>4, <2>2, <2>3
<1>5. CASE /\ Doing /\ doing' = doing /\ at' = at + 1
           /\ Looks \/ (Change /\ Served(doing) /\ UNCHANGED disturbed)
  <2>1. t \in doing /\ t \in Targets /\ (i \in 1..at \/ i = at + 1)
    BY <1>1, <1>2, <1>5 DEF TypeOK
  <2>2. i \in 1..at => job[t] # "none" /\ (job[t] = "failed" => disturbed)
    BY <1>2, <2>1 DEF Submitted
  <2>3. CASE Looks
    <3>1. i # at + 1
      BY <1>2, <2>3 DEF Looks, Now, Changes
    <3> QED BY <2>1, <2>2, <2>3, <3>1 DEF Looks, account
  <2>4. CASE Served(doing) /\ UNCHANGED disturbed
    <3>1. job'[t] = IF Now = "submit" THEN "running" ELSE job[t]
      BY <2>1, <2>4 DEF Served
    <3>2. i = at + 1 => Now = "submit"
      BY <1>2 DEF Now
    <3> QED BY <2>1, <2>2, <2>4, <3>1, <3>2
  <2> QED BY <1>5, <2>3, <2>4
<1> QED BY <1>3, <1>4, <1>5, UpdateSteps

\* No step takes the certificate off a target whose route takes its readings from
\* the listing, and none does during a listing.
LEMMA ShownIsKeptStep ==
  ASSUME ChangeInv, ShownIsKept, [Next]_vars PROVE ShownIsKept'
<1> USE DEF ChangeInv, DeploymentInv
<1>1. route' = route
  BY RouteStays
<1>2. "new" \notin Nothing.bound /\ \A t \in Targets : [u \in Targets |-> Nothing][t] = Nothing
  BY DEF Nothing
<1>3. CASE shown' = [t \in Targets |-> Nothing]
  <2>1. present' \subseteq Targets
    BY NextInv DEF TypeOK
  <2> QED BY <1>2, <1>3, <2>1 DEF ShownIsKept
<1>4. ASSUME NEW s \in Targets, Others(s) PROVE ShownIsKept'
  <2>1. UNCHANGED <<shown, phase>>
    BY <1>4, OthersEffect DEF Others
  <2>2. \A t \in Targets : t \in present' =>
          t \in present /\ ("new" \in bound[t] => "new" \in bound'[t])
    BY <1>4, OthersEffect DEF Others
  <2>3. present' \subseteq Targets
    BY NextInv DEF TypeOK
  <2> QED BY <1>1, <2>1, <2>2, <2>3 DEF ShownIsKept, Does
<1>5. CASE UNCHANGED <<account, shown>> /\ (phase = "list" => phase' = "list")
  <2>1. UNCHANGED <<present, bound, shown, route>>
    BY <1>1, <1>5 DEF account
  <2> QED BY <1>5, <2>1 DEF ShownIsKept, Does
<1>6. CASE ListPage
  <2>1. /\ UNCHANGED account /\ phase = "list"
        /\ \E page \in SUBSET unseen :
             \/ shown' = [t \in Targets |-> Nothing]
             \/ shown' = Shown(page) /\ (phase' = "list" \/ Does("recall"))
    BY <1>6 DEF ListPage, End
  <2>2. CASE shown' = [t \in Targets |-> Nothing]
    BY <1>3, <2>2
  <2>3. ASSUME NEW page \in SUBSET unseen, shown' = Shown(page), phase' = "list" \/ Does("recall")
        PROVE  ShownIsKept'
    <3>1. UNCHANGED <<present, bound, route>> /\ present \subseteq Targets
      BY <1>1, <2>1 DEF account, TypeOK
    <3>2. ASSUME NEW t \in present, "new" \in shown'[t].bound PROVE "new" \in bound[t]
      BY <2>3, <3>1, <3>2 DEF Shown, ShownIsKept
    <3> QED BY <2>3, <3>1, <3>2 DEF ShownIsKept, Does
  <2> QED BY <2>1, <2>2, <2>3
<1>7. CASE Change \/ ChangeFails
  <2>1. PICK some \in SUBSET doing : Served(some) /\ \A t \in some : Serves(t)
    BY <1>7, ServedTargets
  <2>2. /\ Doing /\ Now \in Changes /\ some \in SUBSET Targets /\ phase = "update"
        /\ present' = present \cup some /\ shown' = shown
    BY <1>7, <2>1, ServedTargets, ServedEffect DEF TypeOK, Rest, listing, Bookkeeping, Doing
  <2>3. \A t \in Targets : bound'[t] = IF t \in some THEN Bound(t) ELSE bound[t]
    BY <2>1, <2>2, ServedEffect
  <2>4. CASE Does("recall")
    <3>1. Now \in {"set", "write", "merge"} /\ ~Does("peek")
      BY <2>2, <2>4, TheStep DEF Changes, DeploymentInv
    <3>2. \A t \in some : t \in present /\ "new" \in Bound(t)
      BY <2>1, <3>1 DEF Serves, Bound
    <3> QED BY <1>1, <2>2, <2>3, <2>4, <3>2 DEF ShownIsKept, TypeOK, Does
  <2>5. CASE ~Does("recall")
    BY <1>3, <2>2, <2>5 DEF ShownIsKept
  <2> QED BY <2>4, <2>5
<1>8. CASE ListingFails \/ LoopCanceled \/ Finish \/ Crash
  BY <1>3, <1>8 DEF ListingFails, LoopCanceled, Finish, Crash, End
<1>9. CASE Upload \/ UploadFails
  <2>1. /\ UNCHANGED account /\ phase = "upload"
        /\ shown' = [t \in Targets |-> Nothing] \/ shown' = shown
    BY <1>9 DEF Upload, UploadFails, AfterUpload, SetOut, StartListing, End
  <2> QED BY <1>3, <1>5, <2>1
<1>10. CASE Begin \/ NextRound \/ Cancel \/ UNCHANGED vars
            \/ Recall \/ Skip \/ Read \/ ReadFails \/ Find \/ FindFails \/ Omit \/ Await \/ AwaitFails
  <2>1. UNCHANGED <<account, shown>> /\ (phase = "list" => phase' = "list")
    BY <1>10 DEF Begin, NextRound, Cancel, vars, listing, Recall, Skip, Read, ReadFails, Find, FindFails, Omit, Await,
       AwaitFails, Rest
  <2> QED BY <1>5, <2>1
<1> QED
  BY <1>4, <1>6, <1>7, <1>8, <1>9, <1>10 DEF Next, Program, User, Others

\* What others do to a target that was read.
LEMMA OthersKeep ==
  ASSUME TypeOK, NEW t \in Targets, UNCHANGED account \/ \E s \in Targets : Others(s)
  PROVE  /\ t \in present' => t \in present
         /\ t \in present' /\ "new" \in bound[t] => "new" \in bound'[t]
         /\ "old" \in bound'[t] => "old" \in bound[t]
         /\ job[t] # "running" /\ ~disturbed' => bound'[t] = bound[t] /\ settings'[t] = settings[t]
<1>1. CASE UNCHANGED account
  BY <1>1 DEF account
<1>2. ASSUME NEW s \in Targets, Others(s)
      PROVE  /\ t \in present' => t \in present
             /\ t \in present' /\ "new" \in bound[t] => "new" \in bound'[t]
             /\ "old" \in bound'[t] => "old" \in bound[t]
             /\ job[t] # "running" /\ ~disturbed' => bound'[t] = bound[t] /\ settings'[t] = settings[t]
  BY <1>2, OthersEffect DEF Others
<1> QED BY <1>1, <1>2

LEMMA ReadingIsKeptStep ==
  ASSUME ChangeInv, JobsAndTargets, OneAtATime, ShownIsKept, ReadingIsKept, [Next]_vars
  PROVE  ReadingIsKept'
<1> USE DEF ChangeInv, DeploymentInv
<1>1. route' = route /\ at \in Nat /\ doing \subseteq Targets
  BY RouteStays, TheRoute DEF TypeOK
<1>2. CASE at' = 0
  BY <1>2 DEF ReadingIsKept
<1>3. CASE /\ UNCHANGED <<update, shown>> /\ (disturbed => disturbed')
           /\ UNCHANGED account \/ \E s \in Targets : Others(s)
  <2>1. UNCHANGED <<doing, at, copy, route>>
    BY <1>1, <1>3 DEF update
  <2>2. ASSUME at > 0, route.steps[at] \in Reads \cup {"recall", "find"}, NEW t \in doing \cap present',
               "new" \in copy.bound
        PROVE  "new" \in bound'[t]
    BY <1>1, <1>3, <2>2, OthersKeep DEF ReadingIsKept
  <2>3. ASSUME at > 0, \A j \in 1..at : route.steps[j] \in {"read", "skip"}, NEW t \in doing,
               "old" \in bound'[t]
        PROVE  "old" \in copy.bound
    BY <1>1, <1>3, <2>3, OthersKeep DEF ReadingIsKept
  <2>4. ASSUME at > 0, route.steps[at] \in {"read", "peek"}, ~Does("submit"), ~disturbed',
               NEW t \in doing
        PROVE  copy = [bound |-> bound'[t], settings |-> settings'[t]]
    <3>1. job[t] = "none" /\ ~disturbed
      BY <1>1, <1>3, <2>4 DEF JobsAreSubmitted
    <3>2. bound'[t] = bound[t] /\ settings'[t] = settings[t]
      BY <1>1, <1>3, <2>4, <3>1, OthersKeep
    <3> QED BY <2>4, <3>1, <3>2 DEF ReadingIsKept
  <2> QED BY <2>1, <2>2, <2>3, <2>4 DEF ReadingIsKept, Does
<1>4. CASE Doing /\ doing' = doing /\ at' = at + 1 /\ Looks
  <2>1. /\ UNCHANGED <<present, bound, settings, route, doing>> /\ (disturbed => disturbed')
        /\ route.steps[at'] = Now
    BY <1>1, <1>4 DEF Looks, account, Now
  <2>2. Now \in Reads \cup Finds \cup {"recall"} => \A t, u \in doing : t = u
    BY <1>4, TheStep DEF OneAtATime
  <2>3. ASSUME Now \in Reads \cup {"recall", "find"}, NEW t \in doing \cap present,
               "new" \in copy'.bound
        PROVE  "new" \in bound[t]
    <3>1. CASE Now \in Reads
      <4>1. PICK u \in doing : copy' \in Shows(u)
        BY <1>4, <2>3, <3>1 DEF Looks, Reads, Finds, Nothing
      <4>2. copy'.bound \subseteq bound[u]
        BY <4>1, ShowsSome
      <4> QED BY <2>2, <2>3, <3>1, <4>2
    <3>2. CASE Now = "recall"
      BY <1>1, <1>4, <2>2, <2>3, <3>2 DEF Looks, Reads, Finds, ShownIsKept
    <3>3. CASE Now = "find"
      <4>1. at > 0 /\ route.steps[at] \in Reads
        BY <1>4, <3>3, TheStep DEF Reads
      <4>2. copy' = copy \/ copy' = [copy EXCEPT !.bound = @ \ {"old"}]
        BY <1>4, <3>3 DEF Looks, Reads
      <4>3. "new" \in copy.bound
        BY <2>3, <4>2 DEF TypeOK, Reading
      <4> QED BY <2>3, <4>1, <4>3 DEF ReadingIsKept
    <3> QED BY <2>3, <3>1, <3>2, <3>3
  <2>4. ASSUME \A j \in 1..at' : route.steps[j] \in {"read", "skip"}, NEW t \in doing,
               "old" \in bound[t]
        PROVE  "old" \in copy'.bound
    <3>1. Now \in {"read", "skip"} /\ \A j \in 1..at : route.steps[j] \in {"read", "skip"}
      BY <1>1, <1>4, <2>1, <2>4
    <3>2. CASE Now = "read"
      <4>1. PICK u \in doing : copy' \in Shows(u)
        BY <1>4, <3>2 DEF Looks, Finds
      <4> QED BY <2>2, <2>4, <3>2, <4>1, ShowsSome DEF Reads
    <3>3. CASE Now = "skip"
      <4>1. at > 0 /\ copy' = copy
        BY <1>4, <3>3, TheStep DEF Looks, Reads, Finds
      <4> QED BY <2>4, <3>1, <4>1 DEF ReadingIsKept
    <3> QED BY <3>1, <3>2, <3>3
  <2>5. ASSUME Now \in {"read", "peek"}, NEW t \in doing
        PROVE  copy' = [bound |-> bound[t], settings |-> settings[t]]
    <3>1. CASE \E u \in doing \cap present : copy' \in Shows(u)
      BY <2>2, <2>5, <3>1, ShowsSome DEF Reads
    <3>2. CASE copy' = Nothing /\ \E u \in doing : u \notin present
      BY <1>1, <2>2, <2>5, <3>2 DEF Reads, JobsAndTargets, Nothing
    <3> QED BY <1>4, <2>5, <3>1, <3>2 DEF Looks, Finds
  <2> QED BY <1>1, <2>1, <2>3, <2>4, <2>5 DEF ReadingIsKept, Does
<1>5. CASE Doing /\ doing' = doing /\ at' = at + 1 /\ Change
  <2>1. Now \notin Reads \cup {"recall", "find", "read", "skip", "peek"}
    BY <1>5 DEF Change, Changes, Reads
  <2>2. at' \in 1..at' /\ route'.steps[at'] = Now
    BY <1>1, <1>5 DEF Now
  <2> QED BY <2>1, <2>2 DEF ReadingIsKept
<1> QED BY <1>2, <1>3, <1>4, <1>5, UpdateSteps

\* The step that settles an update has done so when it is done.
LEMMA StepSettles ==
  ASSUME UpdateInv, Doing, UNCHANGED route, Looked \/ (Change /\ Served(doing)), Settles(at + 1)
  PROVE  \A t \in doing \cap present' : Updated(t)'
<1> USE DEF UpdateInv, ChangeInv, DeploymentInv
<1>1. /\ at \in Nat /\ doing \subseteq Targets /\ Does(Now) /\ Now = route.steps[at + 1]
      /\ \A s : Does(s)' <=> Does(s)
  BY TheRoute, TheStep DEF TypeOK, Does
<1>2. \/ Now \in Gives \cup ToEntries \cup {"await", "awaitAnyEnd"}
      \/ Now \in {"call", "tryFind", "detach"} /\ Settles(at)
  <2>1. PICK i \in 1..(at + 1) :
          /\ route.steps[i] \in Gives \cup ToEntries \cup {"await", "awaitAnyEnd"}
          /\ \A k \in (i + 1)..(at + 1) : route.steps[k] \in {"call", "tryFind", "detach"}
    BY DEF Settles
  <2>2. CASE i = at + 1
    BY <1>1, <2>1, <2>2
  <2>3. CASE i # at + 1
    <3>1. i \in 1..at /\ at + 1 \in (i + 1)..(at + 1)
      BY <1>1, <2>3
    <3>2. \A k \in (i + 1)..at : route.steps[k] \in {"call", "tryFind", "detach"}
      BY <1>1, <2>1
    <3> QED BY <1>1, <2>1, <3>1, <3>2 DEF Settles
  <2> QED BY <2>2, <2>3
<1>3. CASE Looked
  <2>1. CASE Settles(at)
    BY <1>1, <1>3, <2>1 DEF StepsSettle, Looked, account, Updated, EntriesOnly
  <2>2. CASE Now = "awaitAnyEnd"
    BY <1>1, <2>2 DEF Updated
  <2>3. CASE Now = "await"
    <3>1. PICK j \in 1..at : route.steps[j] = "submit"
      BY <2>3, TheStep
    <3>2. Does("submit")
      BY <1>1, <3>1, TheRoute DEF Does, Has
    <3>3. \A t \in doing : job[t] = "done"
      BY <1>1, <1>3, <2>3, <3>1 DEF Submitted, Looked, TypeOK
    <3>4. \A t \in doing \cap present : "new" \in bound[t]
      BY <1>1, <3>2, <3>3 DEF JobsAndTargets
    <3> QED BY <1>3, <3>4 DEF Updated, Looked, account
  <2> QED BY <1>2, <1>3, <2>1, <2>2, <2>3 DEF Looked
<1>4. CASE Change /\ Served(doing)
  <2>1. /\ \A t \in doing : Serves(t)
        /\ \A t \in doing : bound'[t] = Bound(t)
        /\ Now \in Changes
    BY <1>1, <1>4 DEF Change, Served
  <2>2. CASE Now \in Gives
    BY <2>1, <2>2 DEF Gives, Bound, Serves, Updated
  <2>3. CASE Now \in {"mergeAny", "writeAny"}
    <3>1. EntriesOnly'
      BY <1>1, <2>3 DEF EntriesOnly
    <3>2. \A t \in doing : "new" \in Bound(t) \/ "old" \notin Bound(t)
      BY <2>3 DEF Bound
    <3> QED BY <2>1, <3>1, <3>2 DEF Updated
  <2>4. CASE Now = "replaceAny"
    <3>1. EntriesOnly'
      BY <1>1, <2>4 DEF EntriesOnly
    <3>2. \A t \in doing : "old" \in bound[t] => "old" \in copy.bound
      BY <2>4, TheStep DEF ReadingIsKept
    <3>3. \A t \in doing : "new" \in Bound(t) \/ "old" \notin Bound(t)
      BY <2>4, <3>2 DEF Bound, HasEntry
    <3> QED BY <2>1, <3>1, <3>3 DEF Updated
  <2>5. CASE Now \in {"call", "tryFind", "detach"} /\ Settles(at)
    <3>1. ~Does("peek")
      BY <2>5, TheStep
    <3>2. \A t \in doing : t \in present /\ Updated(t)
      BY <2>1, <3>1, <2>5 DEF Serves, StepsSettle
    <3>3. \A t \in doing : /\ "new" \in bound[t] => "new" \in bound'[t]
                           /\ "old" \in bound'[t] => "old" \in bound[t]
      BY <2>1, <2>5 DEF Bound, Changes
    <3> QED BY <3>2, <3>3 DEF Updated, EntriesOnly, Does
  <2>6. Now \notin {"await", "awaitAnyEnd"}
    BY <2>1 DEF Changes
  <2> QED BY <1>2, <2>2, <2>3, <2>4, <2>5, <2>6 DEF ToEntries
<1> QED BY <1>3, <1>4

\* Others leave it so.
LEMMA OthersLeaveUpdated ==
  ASSUME TypeOK, NEW t \in Targets, UNCHANGED account \/ \E s \in Targets : Others(s),
         UNCHANGED route, t \in present', Updated(t)
  PROVE  t \in present /\ Updated(t)'
  BY OthersKeep DEF Updated, EntriesOnly, Does

LEMMA StepsSettleStep ==
  ASSUME UpdateInv, [Next]_vars PROVE StepsSettle'
<1> USE DEF UpdateInv, ChangeInv, DeploymentInv
<1>1. route' = route /\ at \in Nat /\ doing \subseteq Targets
  BY RouteStays, TheRoute DEF TypeOK
<1>2. CASE at' = 0
  BY <1>2 DEF StepsSettle, Settles
<1>3. CASE /\ UNCHANGED <<update, shown>> /\ (disturbed => disturbed')
           /\ UNCHANGED account \/ \E s \in Targets : Others(s)
  <2>1. UNCHANGED <<doing, at, route>>
    BY <1>1, <1>3 DEF update
  <2>2. ASSUME Settles(at), NEW t \in doing \cap present' PROVE Updated(t)'
    <3>1. t \in Targets /\ t \in present
      BY <1>1, <1>3, <2>2, OthersKeep
    <3>2. Updated(t)
      BY <2>2, <3>1 DEF StepsSettle
    <3> QED BY <1>1, <1>3, <2>2, <3>1, <3>2, OthersLeaveUpdated
  <2> QED BY <2>1, <2>2 DEF StepsSettle, Settles
<1>4. CASE Doing /\ doing' = doing /\ at' = at + 1 /\ (Looks \/ (Change /\ Served(doing)))
  <2>1. Settles(at)' <=> Settles(at + 1)
    BY <1>1, <1>4 DEF Settles
  <2>2. Looks => Looked
    BY DEF Looks, Looked, Reads, Finds, Gives, ToEntries, Changes
  <2> QED BY <1>1, <1>4, <2>1, <2>2, StepSettles DEF StepsSettle
<1> QED BY <1>2, <1>3, <1>4, UpdateSteps

LEMMA InitUpdateInv == Init => UpdateInv
<1> SUFFICES ASSUME Init PROVE UpdateInv
  OBVIOUS
<1>1. ChangeInv
  BY InitChangeInv
<1>2. JobsAndTargets /\ OneAtATime /\ Submitted /\ ReadingIsKept /\ StepsSettle
  BY DEF Init, JobsAndTargets, OneAtATime, Submitted, ReadingIsKept, StepsSettle
<1>3. ShownIsKept
  BY DEF Init, ShownIsKept, Nothing
<1> QED BY <1>1, <1>2, <1>3 DEF UpdateInv

LEMMA NextUpdateInv == UpdateInv /\ [Next]_vars => UpdateInv'
BY NextChangeInv, JobsAndTargetsStep, OneAtATimeStep, SubmittedStep, ShownIsKeptStep,
   ReadingIsKeptStep, StepsSettleStep DEF UpdateInv

-----------------------------------------------------------------------------
(* What the loop has achieved *)

\* The loop: the errors it joins, what is left of it, and that every target it
\* has done with, and the failed ones apart, is updated: until the deployment is
\* over and afterwards, unless it was broken off.
Loop ==
    /\ phase \in {"idle", "upload", "list"} => chosen = {}
    /\ spoiled # {} /\ phase = "update" => failed
    /\ phase # "update" => ~failed
    /\ phase # "ended" => result = "none"
    /\ todo \cap doing = {} /\ spoiled \cap (todo \cup doing) = {}
    /\ phase = "update" =>
         \A t \in (chosen \ (todo \cup doing \cup spoiled)) \cap present : Updated(t)
    /\ phase = "ended" /\ result # "none" /\ ~canceled =>
         \A t \in (chosen \ spoiled) \cap present : Updated(t)
    /\ phase = "ended" /\ result = "ok" => \A t \in chosen \cap present : Updated(t)

\* One step of the update of a round.
UpdatesOn == Recall \/ Skip \/ Read \/ ReadFails \/ Find \/ FindFails \/ Omit \/ Change \/ ChangeFails \/ Await \/ AwaitFails

\* It concerns the targets of the round only; it goes on, is done with them, or
\* fails.
LEMMA RoundSteps ==
  ASSUME UpdateInv, UpdatesOn
  PROVE  /\ Doing /\ UNCHANGED Rest
         /\ \A t \in Targets \ doing : (t \in present' <=> t \in present) /\ bound'[t] = bound[t]
         /\ \/ doing' = doing /\ failed' = failed /\ spoiled' = spoiled
            \/ /\ doing' = {} /\ failed' = failed /\ spoiled' = spoiled
               /\ \A t \in doing \cap present' : Updated(t)'
            \/ doing' = {} /\ failed' = TRUE /\ spoiled' = spoiled \cup doing
<1> USE DEF UpdateInv, ChangeInv, DeploymentInv
<1> DEFINE Goes == doing' = doing /\ failed' = failed /\ spoiled' = spoiled
           Done == /\ doing' = {} /\ failed' = failed /\ spoiled' = spoiled
                   /\ \A t \in doing \cap present' : Updated(t)'
           Fails == doing' = {} /\ failed' = TRUE /\ spoiled' = spoiled \cup doing
<1>1. Doing /\ UNCHANGED Rest
  BY DEF UpdatesOn, Recall, Skip, Read, ReadFails, Find, FindFails, Omit, Change, ChangeFails, Await, AwaitFails
<1>2. \A t \in Targets \ doing : (t \in present' <=> t \in present) /\ bound'[t] = bound[t]
  <2>1. CASE UNCHANGED account
    BY <2>1 DEF account
  <2>2. CASE Change \/ ChangeFails
    <3>1. PICK some \in SUBSET doing : Served(some)
      BY <2>2, ServedTargets
    <3>2. some \in SUBSET Targets
      BY <3>1 DEF TypeOK
    <3> QED BY <3>1, <3>2, ServedEffect
  <2> QED BY <2>1, <2>2 DEF UpdatesOn, Recall, Skip, Read, ReadFails, Find, FindFails, Omit, Await, AwaitFails
<1>3. ASSUME StepFails PROVE Fails
  BY <1>3 DEF StepFails, RoundEnds
<1>4. ASSUME NEW r, Advance(r), UNCHANGED <<failed, spoiled>>, Looked \/ (Change /\ Served(doing))
      PROVE  Goes \/ Done
  <2>1. CASE at + 1 # Len(route.steps)
    BY <1>4, <2>1 DEF Advance
  <2>2. CASE at + 1 = Len(route.steps)
    <3>1. Settles(at + 1) /\ UNCHANGED route
      BY <1>1, <2>2, TheRoute DEF Doing, Rest
    <3>2. \A t \in doing \cap present' : Updated(t)'
      BY <1>1, <1>4, <3>1, StepSettles
    <3> QED BY <1>4, <2>2, <3>2 DEF Advance, RoundEnds
  <2> QED BY <2>1, <2>2
<1> SUFFICES Goes \/ Done \/ Fails
  BY <1>1, <1>2
<1> HIDE DEF Goes, Done, Fails
<1>5. CASE Recall
  BY <1>4, <1>5 DEF Recall, Looked, Gives, ToEntries, StepDone
<1>6. CASE Skip
  <2>1. CASE cert = "stored" /\ "new" \in copy.bound
    <3>1. \A t \in doing \cap present : "new" \in bound[t]
      BY <1>6, <2>1, TheStep DEF Skip, ReadingIsKept
    <3> QED BY <1>6, <2>1, <3>1 DEF Skip, RoundEnds, Updated, account, Done
  <2>2. CASE ~(cert = "stored" /\ "new" \in copy.bound)
    BY <1>4, <1>6, <2>2 DEF Skip, Looked, Gives, ToEntries, StepDone
  <2> QED BY <2>1, <2>2
<1>7. CASE Read \/ ReadFails
  BY <1>3, <1>4, <1>7 DEF Read, ReadFails, Looked, Gives, ToEntries, Reads, StepDone
<1>8. CASE Change
  BY <1>4, <1>8 DEF Change, StepDone
<1>9. CASE ChangeFails \/ AwaitFails
  BY <1>3, <1>9 DEF ChangeFails, AwaitFails
<1>10. CASE Await
  BY <1>3, <1>4, <1>10 DEF Await, Looked, Gives, ToEntries, StepDone
<1>11. CASE Find \/ FindFails
  BY <1>3, <1>4, <1>11 DEF Find, FindFails, Finds, Looked, Gives, ToEntries, StepDone, Misses
<1>12. CASE Omit
  BY <1>4, <1>12 DEF Omit, NothingToDetach, Looked, Gives, ToEntries, StepDone
<1> QED
  BY <1>5, <1>6, <1>7, <1>8, <1>9, <1>10, <1>11, <1>12 DEF UpdatesOn

\* Before the updates nothing is chosen; they start with what is.
LEMMA StartSteps ==
  ASSUME UpdateInv, Loop, Begin \/ Upload \/ UploadFails \/ ListPage \/ ListingFails
  PROVE  /\ UNCHANGED account
         /\ \/ /\ doing' = {} /\ failed' = FALSE /\ spoiled' = {} /\ result' = "none"
               /\ \/ phase' \in {"upload", "list"} /\ chosen' = {}
                  \/ phase' = "update" /\ chosen' = todo'
            \/ End("error") /\ UNCHANGED <<chosen, spoiled, canceled>> /\ chosen = {}
<1> USE DEF UpdateInv, ChangeInv, DeploymentInv
<1>1. UNCHANGED account /\ doing = {} /\ failed = FALSE
  BY DEF Begin, Upload, UploadFails, ListPage, ListingFails, Bookkeeping, Loop, TypeOK
<1>2. CASE Begin
  BY <1>1, <1>2 DEF Begin, update
<1>3. phase \in {"upload", "list"} => chosen = {} /\ spoiled = {} /\ result = "none"
  BY DEF Loop, TypeOK
<1>4. ASSUME AfterUpload, phase = "upload", UNCHANGED <<update, failed, spoiled, halfway>>
      PROVE  /\ doing' = {} /\ failed' = FALSE /\ spoiled' = {} /\ result' = "none"
             /\ \/ phase' \in {"upload", "list"} /\ chosen' = {}
                \/ phase' = "update" /\ chosen' = todo'
  BY <1>1, <1>3, <1>4 DEF AfterUpload, SetOut, StartListing, update
<1>5. CASE Upload
  BY <1>1, <1>4, <1>5 DEF Upload
<1>6. CASE UploadFails
  BY <1>1, <1>3, <1>4, <1>6 DEF UploadFails
<1>7. CASE ListingFails
  BY <1>1, <1>3, <1>7 DEF ListingFails, history
<1>8. CASE ListPage
  <2>1. phase = "list" /\ UNCHANGED <<canceled, spoiled, halfway>>
    BY <1>8 DEF ListPage
  <2>2. \/ UNCHANGED <<phase, update, failed, result, chosen>>
        \/ End("error") /\ UNCHANGED chosen
        \/ /\ phase' = (IF route.upload = "late" THEN "upload" ELSE "update")
           /\ chosen' = (IF route.upload = "late" THEN {} ELSE todo')
           /\ UNCHANGED <<update, failed, result>>
    BY <1>8 DEF ListPage
  <2> QED BY <1>1, <1>3, <2>1, <2>2 DEF update
<1> QED BY <1>2, <1>5, <1>6, <1>7, <1>8

\* The other ends: the loop is over, broken off, or crashes.
LEMMA EndSteps ==
  ASSUME LoopCanceled \/ Finish \/ Crash
  PROVE  /\ UNCHANGED <<account, chosen, spoiled, canceled>>
         /\ \/ End("error") /\ canceled
            \/ End("none")
            \/ /\ phase = "update" /\ doing = {} /\ todo = {}
               /\ End(IF failed THEN "error" ELSE "ok")
  BY DEF LoopCanceled, Finish, Crash, counters, history

\* What the loop keeps while nobody but others act.
LEMMA RestSteps ==
  ASSUME UpdateInv, (\E s \in Targets : Others(s)) \/ Cancel \/ UNCHANGED vars
  PROVE  /\ UNCHANGED <<phase, todo, doing, chosen, spoiled, failed, result>>
         /\ canceled => canceled'
         /\ UNCHANGED account \/ \E s \in Targets : Others(s)
<1> USE DEF UpdateInv, ChangeInv, DeploymentInv
<1>1. CASE \E s \in Targets : Others(s)
  BY <1>1, OthersEffect DEF Others
<1>2. CASE Cancel \/ UNCHANGED vars
  BY <1>2 DEF Cancel, vars, update, history
<1> QED BY <1>1, <1>2

LEMMA NextCases ==
  ASSUME [Next]_vars
  PROVE  \/ Begin \/ Upload \/ UploadFails \/ ListPage \/ ListingFails
         \/ NextRound
         \/ UpdatesOn
         \/ LoopCanceled \/ Finish \/ Crash
         \/ (\E s \in Targets : Others(s)) \/ Cancel \/ UNCHANGED vars
  BY DEF Next, Program, User, Others, UpdatesOn

LEMMA GroupsOfTodo == ASSUME TypeOK, NEW group \in Groups PROVE group \subseteq todo
<1>1. CASE route.loop = "each"
  <2>1. Groups = {{t} : t \in todo}
    BY <1>1 DEF Groups
  <2> QED BY <2>1
<1>2. CASE route.loop = "chunks"
  BY <1>2 DEF Groups
<1>3. CASE route.loop = "batch"
  BY <1>3 DEF Groups
<1> QED BY <1>1, <1>2, <1>3, TheRoute

LEMMA LoopStep == ASSUME UpdateInv, Loop, [Next]_vars PROVE Loop'
<1> USE DEF UpdateInv, ChangeInv, DeploymentInv
<1>1. route' = route
  BY RouteStays
<1>2. \A t \in Targets : (Updated(t) /\ bound'[t] = bound[t]) => Updated(t)'
  BY <1>1 DEF Updated, EntriesOnly, Does
<1>3. /\ chosen \subseteq Targets /\ spoiled \subseteq Targets
      /\ todo \subseteq Targets /\ doing \subseteq Targets
  BY DEF TypeOK
<1>4. CASE Begin \/ Upload \/ UploadFails \/ ListPage \/ ListingFails
  <2>1. CASE End("error") /\ UNCHANGED <<chosen, spoiled, canceled>> /\ chosen = {}
    BY <2>1 DEF End, Loop
  <2>2. CASE /\ doing' = {} /\ failed' = FALSE /\ spoiled' = {} /\ result' = "none"
             /\ \/ phase' \in {"upload", "list"} /\ chosen' = {}
                \/ phase' = "update" /\ chosen' = todo'
    BY <2>2 DEF Loop
  <2> QED BY <1>4, <2>1, <2>2, StartSteps
<1>5. CASE NextRound
  <2>1. PICK group \in Groups : doing' = group /\ todo' = todo \ group
    BY <1>5 DEF NextRound
  <2>2. /\ phase = "update" /\ doing = {}
        /\ UNCHANGED <<account, phase, failed, result, chosen, spoiled, halfway>>
    BY <1>5 DEF NextRound, history
  <2>3. \A t \in Targets : Updated(t) => Updated(t)'
    BY <1>2, <2>2 DEF account
  <2> QED BY <1>3, <2>1, <2>2, <2>3, GroupsOfTodo DEF Loop, account
<1>6. CASE UpdatesOn
  <2>1. phase = "update"
    BY <1>6, RoundSteps DEF Bookkeeping, Doing
  <2>2. UNCHANGED <<phase, todo, result, chosen>>
    BY <1>6, RoundSteps DEF Rest
  <2>3. \A t \in Targets \ doing : (t \in present' <=> t \in present) /\ bound'[t] = bound[t]
    BY <1>6, RoundSteps
  <2>4. \A t \in (chosen \ (todo \cup doing \cup spoiled)) \cap present' : Updated(t)'
    BY <1>2, <1>3, <2>1, <2>3 DEF Loop
  <2>5. CASE doing' = doing /\ failed' = failed /\ spoiled' = spoiled
    BY <2>1, <2>2, <2>4, <2>5 DEF Loop
  <2>6. CASE /\ doing' = {} /\ failed' = failed /\ spoiled' = spoiled
             /\ \A t \in doing \cap present' : Updated(t)'
    BY <2>1, <2>2, <2>4, <2>6 DEF Loop
  <2>7. CASE doing' = {} /\ failed' = TRUE /\ spoiled' = spoiled \cup doing
    BY <2>1, <2>2, <2>4, <2>7 DEF Loop
  <2> QED BY <1>6, <2>5, <2>6, <2>7, RoundSteps
<1>7. CASE LoopCanceled \/ Finish \/ Crash
  <2>1. UNCHANGED <<account, chosen, spoiled, canceled>>
    BY <1>7, EndSteps
  <2>2. \A t \in Targets : Updated(t) => Updated(t)'
    BY <1>2, <2>1 DEF account
  <2>3. CASE End("error") /\ canceled
    BY <2>1, <2>3 DEF End, Loop
  <2>4. CASE End("none")
    BY <2>4 DEF End, Loop
  <2>5. CASE /\ phase = "update" /\ doing = {} /\ todo = {}
             /\ End(IF failed THEN "error" ELSE "ok")
    <3>1. \A t \in (chosen \ spoiled) \cap present' : Updated(t)'
      BY <1>3, <2>1, <2>2, <2>5 DEF Loop, account
    <3>2. ~failed => spoiled = {}
      BY <2>5 DEF Loop
    <3>3. /\ phase' = "ended" /\ failed' = FALSE /\ todo' = {} /\ doing' = {}
          /\ result' = IF failed THEN "error" ELSE "ok"
      BY <2>5 DEF End
    <3> QED BY <2>1, <3>1, <3>2, <3>3 DEF Loop
  <2> QED BY <1>7, <2>3, <2>4, <2>5, EndSteps
<1>8. CASE (\E s \in Targets : Others(s)) \/ Cancel \/ UNCHANGED vars
  <2>1. /\ UNCHANGED <<phase, todo, doing, chosen, spoiled, failed, result>>
        /\ canceled => canceled'
        /\ UNCHANGED account \/ \E s \in Targets : Others(s)
    BY <1>8, RestSteps
  <2>2. \A t \in Targets : t \in present' /\ Updated(t) => Updated(t)'
    BY <1>1, <2>1, OthersLeaveUpdated, OthersKeep DEF Updated
  <2>3. \A t \in Targets : t \in present' => t \in present
    BY <2>1, OthersKeep
  <2> QED BY <1>3, <2>1, <2>2, <2>3 DEF Loop
<1> QED BY <1>4, <1>5, <1>6, <1>7, <1>8, NextCases

-----------------------------------------------------------------------------
(* What the listing has shown *)

\* A target the service hides for being bound to the certificate already.
Hidden(t) == route.bound = "hidden" /\ "new" \in bound[t]

\* Every target that is there is shown or still to be shown; after the listing,
\* if it went to its end, those that are meant are chosen or have the
\* certificate.
AllListed ==
    /\ phase = "list" /\ ~shifted => \A t \in present : t \in unseen \cup found \/ Hidden(t)
    /\ ~shifted /\ route.list # "grow" =>
         /\ phase = "upload" /\ route.upload = "late" =>
              \A t \in wanted \cap present : t \in todo \/ "new" \in bound[t]
         /\ phase = "update" \/ result = "ok" =>
              \A t \in wanted \cap present : t \in chosen \/ "new" \in bound[t]

\* A listing that does not count by a growing page size ends with all it has.
LEMMA LastPageIsRest ==
  ASSUME TypeOK, NEW page \in SUBSET unseen, Cardinality(page) \in Fresh(Cardinality(unseen)),
         LastPage(page, unseen), route.list # "grow"
  PROVE  page = unseen
<1>1. IsFiniteSet(unseen)
  BY TargetsAssumption, FS_Subset DEF TypeOK
<1>2. /\ Cardinality(unseen) \in Nat /\ Cardinality(page) \in Nat
      /\ Cardinality(page) = Cardinality(unseen) => page = unseen
      /\ page = {} => Cardinality(page) = 0
      /\ Cardinality(unseen) = 0 => unseen = {}
  BY <1>1, FS_Subset, FS_CardinalityType, FS_EmptySet
<1>3. PageSize \in Nat \ {0}
  BY BoundsAssumption
<1>4. CASE route.list = "once"
  BY <1>2, <1>4 DEF Fresh
<1>5. CASE route.list = "token"
  BY <1>5 DEF LastPage
<1>6. CASE route.list \notin {"once", "token"} /\ (route.list = "pages" \/ found = {})
  BY <1>2, <1>3, <1>6 DEF Fresh, LastPage
<1>7. CASE route.list \notin {"once", "token", "pages"} /\ found # {}
  <2>1. route.list = "slide" /\ page = {}
    BY <1>7 DEF LastPage
  <2> QED BY <1>2, <1>7, <2>1 DEF Fresh
<1> QED BY <1>4, <1>5, <1>6, <1>7

\* What is chosen of a listing that shows all.
LEMMA ChosenIsAll ==
  ASSUME UpdateInv, phase = "list", AllListed, ~shifted, route.list # "grow",
         NEW page \in SUBSET unseen, Cardinality(page) \in Fresh(Cardinality(unseen)),
         LastPage(page, unseen), NEW t \in wanted \cap present
  PROVE  t \in Chosen(found \cup page, Shown(page)) \/ "new" \in bound[t]
<1> USE DEF UpdateInv, ChangeInv, DeploymentInv
<1>1. page = unseen /\ t \in Targets
  BY LastPageIsRest DEF TypeOK
<1>2. CASE t \notin found \cup page
  BY <1>1, <1>2 DEF AllListed, Hidden
<1>3. CASE t \in found \cup page
  <2>1. route.bound = "dropped" /\ "new" \in Shown(page)[t].bound => "new" \in bound[t]
    BY <1>1 DEF Shown, ShownIsKept
  <2>2. t \in Asked(found \cup page)
    BY <1>3 DEF Asked
  <2> QED BY <2>1, <2>2 DEF Chosen
<1> QED BY <1>2, <1>3

\* Others take off the listing what is gone, or are noticed.
LEMMA OthersShow ==
  ASSUME TypeOK, NEW s \in Targets, Others(s), ~shifted'
  PROVE  ~shifted /\ found' = found /\ \A t \in unseen : t \in present' => t \in unseen'
<1>1. CASE UserRemoves(s)
  BY <1>1 DEF UserRemoves, UserActs, Deployment, TypeOK
<1>2. CASE JobEnds(s) \/ UserEdits(s) \/ UserBinds(s)
  BY <1>2 DEF JobEnds, UserEdits, UserBinds, UserActs, Deployment
<1> QED BY <1>1, <1>2 DEF Others

LEMMA ListedStep == ASSUME UpdateInv, Loop, AllListed, [Next]_vars PROVE AllListed'
<1> USE DEF UpdateInv, ChangeInv, DeploymentInv
<1>1. route' = route /\ wanted' = wanted /\ wanted \subseteq Targets
  BY RouteStays DEF TypeOK
<1> DEFINE Started == /\ result' = "none"
                      /\ phase' = "list" =>
                           /\ unseen' = {t \in present : route.bound = "hidden" => "new" \notin bound[t]}
                      /\ phase' = "upload" => route.upload # "late"
                      /\ phase' = "update" => chosen' = wanted
           Ended == /\ phase' \notin {"list", "upload", "update"}
                    /\ result' = "ok" => phase = "update" /\ UNCHANGED <<chosen, shifted>>
<1>2. CASE UNCHANGED account /\ Started
  BY <1>1, <1>2 DEF AllListed, Hidden, account
<1>3. CASE UNCHANGED account /\ Ended
  BY <1>1, <1>3 DEF AllListed, account
<1>4. ASSUME NEW o, End(o), UNCHANGED <<account, chosen, shifted>>, o = "ok" => phase = "update"
      PROVE  Ended
  BY <1>4 DEF End
<1>5. CASE Begin
  <2>1. UNCHANGED account /\ Started
    BY <1>5, StepsAssumption DEF Begin, Lists, TypeOK
  <2> QED BY <1>2, <2>1
<1>6. phase = "upload" => result = "none"
  BY DEF Loop
<1>7. ASSUME AfterUpload, phase = "upload", UNCHANGED <<account, shifted, result>>
      PROVE  AllListed'
  <2>1. CASE route.upload = "late" /\ SetOut(todo)
    BY <1>1, <1>6, <1>7, <2>1 DEF SetOut, AllListed, account
  <2>2. CASE route.upload # "late" /\ StartListing
    BY <1>2, <1>6, <1>7, <2>2 DEF StartListing
  <2>3. CASE route.upload # "late" /\ SetOut(wanted)
    BY <1>2, <1>6, <1>7, <2>3 DEF SetOut
  <2> QED BY <1>7, <2>1, <2>2, <2>3 DEF AfterUpload
<1>8. CASE Upload
  BY <1>7, <1>8 DEF Upload, AfterUpload, SetOut, StartListing
<1>9. CASE UploadFails
  <2>1. UNCHANGED <<account, shifted>> /\ phase = "upload"
    BY <1>9 DEF UploadFails
  <2>2. CASE End("error") /\ UNCHANGED chosen
    BY <1>3, <1>4, <2>1, <2>2
  <2>3. CASE AfterUpload
    BY <1>7, <2>1, <2>3 DEF AfterUpload, SetOut, StartListing
  <2> QED BY <1>9, <2>2, <2>3 DEF UploadFails
<1>10. CASE ListingFails
  BY <1>3, <1>4, <1>10 DEF ListingFails, history
<1>11. CASE ListPage
  <2>1. /\ phase = "list" /\ result = "none" /\ UNCHANGED <<account, shifted>>
        /\ unseen \subseteq Targets
    BY <1>11 DEF ListPage, Loop, TypeOK
  <2>2. PICK page \in SUBSET unseen :
          /\ Cardinality(page) \in Fresh(Cardinality(unseen))
          /\ \/ /\ unseen' = unseen \ page /\ found' = found \cup page
                /\ UNCHANGED <<phase, result>>
             \/ End("error") /\ UNCHANGED chosen
             \/ /\ LastPage(page, unseen)
                /\ phase' = (IF route.upload = "late" THEN "upload" ELSE "update")
                /\ todo' = Chosen(found \cup page, Shown(page))
                /\ chosen' = (IF route.upload = "late" THEN {} ELSE todo')
                /\ UNCHANGED result
    BY <1>11 DEF ListPage
  <2>3. CASE unseen' = unseen \ page /\ found' = found \cup page /\ UNCHANGED <<phase, result>>
    BY <1>1, <2>1, <2>2, <2>3 DEF AllListed, Hidden, account
  <2>4. CASE End("error") /\ UNCHANGED chosen
    BY <1>3, <1>4, <2>1, <2>4
  <2>5. CASE /\ LastPage(page, unseen)
             /\ phase' = (IF route.upload = "late" THEN "upload" ELSE "update")
             /\ todo' = Chosen(found \cup page, Shown(page))
             /\ chosen' = (IF route.upload = "late" THEN {} ELSE todo')
             /\ UNCHANGED result
    <3>1. ~shifted /\ route.list # "grow" =>
            \A t \in wanted \cap present : t \in todo' \/ "new" \in bound[t]
      BY <2>1, <2>2, <2>5, ChosenIsAll
    <3> QED BY <1>1, <2>1, <2>5, <3>1 DEF AllListed, account
  <2> QED BY <2>2, <2>3, <2>4, <2>5
<1>12. CASE NextRound
  <2>1. /\ phase = "update" /\ UNCHANGED <<account, phase, result, chosen, shifted>>
    BY <1>12 DEF NextRound, history
  <2> QED BY <1>1, <2>1 DEF AllListed, account
<1>13. CASE UpdatesOn
  <2>1. phase = "update" /\ doing \subseteq chosen
    BY <1>13, RoundSteps DEF Bookkeeping, Doing
  <2>2. UNCHANGED <<phase, result, chosen, shifted>>
    BY <1>13, RoundSteps DEF Rest
  <2>3. \A t \in Targets \ doing : (t \in present' <=> t \in present) /\ bound'[t] = bound[t]
    BY <1>13, RoundSteps
  <2> QED BY <1>1, <2>1, <2>2, <2>3 DEF AllListed
<1>14. CASE LoopCanceled \/ Finish \/ Crash
  <2>1. UNCHANGED <<account, chosen, shifted>>
    BY <1>14 DEF LoopCanceled, Finish, Crash, history
  <2>2. Ended
    BY <1>4, <1>14, <2>1 DEF LoopCanceled, Finish, Crash
  <2> QED BY <1>3, <2>1, <2>2
<1>15. CASE (\E s \in Targets : Others(s)) \/ Cancel \/ UNCHANGED vars
  <2>1. /\ UNCHANGED <<phase, todo, chosen, result>>
        /\ UNCHANGED account \/ \E s \in Targets : Others(s)
    BY <1>15, RestSteps
  <2>2. ~shifted' => ~shifted /\ found' = found /\ \A t \in unseen : t \in present' => t \in unseen'
    BY <1>15, OthersShow DEF Cancel, vars, listing, history
  <2>3. \A t \in Targets : t \in present' => t \in present /\ ("new" \in bound[t] => "new" \in bound'[t])
    BY <2>1, OthersKeep
  <2>4. present' \subseteq Targets /\ present \subseteq Targets
    BY NextInv DEF TypeOK
  <2> QED BY <1>1, <2>1, <2>2, <2>3, <2>4 DEF AllListed, Hidden
<1> QED BY <1>5, <1>8, <1>9, <1>10, <1>11, <1>12, <1>13, <1>14, <1>15, NextCases

-----------------------------------------------------------------------------
(* The certificate and the one it replaces *)

\* What is to be removed was read, or has been passed over.
ReplacedIsRead ==
    Does("detach") /\ at > 0 =>
        \A t \in doing : "old" \in bound[t] => "old" \in copy.bound \/ t \in halfway

\* A route that clears has removed the old certificate; none but a list that was
\* read before brings it back.
ClearedFirst ==
    ~Does("append") /\ (\E i \in 1..at : route.steps[i] = "clear") =>
        \A t \in doing : "old" \notin bound[t]

\* The certificate stands next to the old one only between the addition of the
\* one and the removal of the other, or where an update ended between them.
BothHalfway ==
    ~Keeps =>
        \A t \in Targets : {"new", "old"} \subseteq bound[t] =>
            t \in halfway \/ (t \in doing /\ Does("detach") /\ AddedIn(at))

RetireInv == ReplacedIsRead /\ ClearedFirst /\ BothHalfway

LEMMA HalfwayGrows == ASSUME [Next]_vars PROVE halfway \subseteq halfway'
<1>1. ASSUME StepFails \/ Misses \/ (\E r : StepDone(r)) PROVE halfway \subseteq halfway'
  BY <1>1 DEF StepFails, Misses, StepDone, LeftHalfway
<1>2. CASE Recall \/ Skip \/ Read \/ ReadFails \/ Find \/ FindFails \/ Omit \/ Await \/ AwaitFails
           \/ Change \/ ChangeFails
  BY <1>1, <1>2 DEF Recall, Skip, Read, ReadFails, Find, FindFails, Omit, Await, AwaitFails,
     Change, ChangeFails
<1>3. CASE Crash
  BY <1>3 DEF Crash, LeftHalfway
<1>4. CASE (\E t \in Targets : JobEnds(t)) \/ User
  BY <1>4 DEF JobEnds, User, UserRemoves, UserEdits, UserBinds, UserActs, Deployment
<1>5. CASE \/ Begin \/ Upload \/ UploadFails \/ ListPage \/ ListingFails
           \/ NextRound \/ LoopCanceled \/ Finish \/ Cancel \/ UNCHANGED vars
  BY <1>5 DEF Begin, Upload, UploadFails, ListPage, ListingFails, NextRound, LoopCanceled, Finish,
     Cancel, vars, history
<1> QED BY <1>2, <1>3, <1>4, <1>5 DEF Next, Program

\* A change that goes on keeps what was read.
LEMMA ChangeKeepsCopy == ASSUME TypeOK, Change, at' = at + 1 PROVE copy' = copy
<1>1. at \in Nat
  BY TheRoute
<1> QED BY <1>1 DEF Change, StepDone, Advance, RoundEnds

LEMMA ReplacedIsReadStep == ASSUME UpdateInv, ReplacedIsRead, [Next]_vars PROVE ReplacedIsRead'
<1> USE DEF UpdateInv, ChangeInv, DeploymentInv
<1>1. route' = route /\ at \in Nat /\ doing \subseteq Targets /\ halfway \subseteq halfway'
  BY RouteStays, TheRoute, HalfwayGrows DEF TypeOK
<1>2. SUFFICES ASSUME Does("detach"), at' > 0, NEW t \in doing', "old" \in bound'[t]
               PROVE  "old" \in copy'.bound \/ t \in halfway'
  BY <1>1 DEF ReplacedIsRead, Does
<1>3. CASE at' = 0
  BY <1>2, <1>3
<1>4. CASE UNCHANGED update /\ (UNCHANGED account \/ \E s \in Targets : Others(s))
  <2>1. UNCHANGED <<doing, at, copy>> /\ t \in Targets
    BY <1>1, <1>2, <1>4 DEF update
  <2>2. "old" \in bound[t]
    BY <1>2, <1>4, <2>1, OthersKeep
  <2> QED BY <1>1, <1>2, <2>1, <2>2 DEF ReplacedIsRead
<1>5. CASE Doing /\ doing' = doing /\ at' = at + 1 /\ Looks
  <2>1. /\ Now \in {"read", "find", "skip", "tryFind"}
        /\ at = 0 => Now = "read"
    BY <1>2, <1>5, DetachRoute DEF Looks, Changes
  <2>2. bound' = bound /\ t \in doing
    BY <1>2, <1>5 DEF Looks, account
  <2>3. CASE Now = "read"
    <3>1. PICK u \in doing : copy' \in Shows(u)
      BY <1>5, <2>3 DEF Looks, Finds
    <3>2. u = t
      BY <1>5, <2>2, <2>3, TheStep DEF OneAtATime, Reads
    <3>3. copy'.bound = bound[t]
      BY <2>3, <3>1, <3>2, ShowsSome
    <3> QED BY <1>2, <2>2, <3>3
  <2>4. CASE Now # "read"
    <3>1. "old" \in copy.bound \/ t \in halfway
      BY <1>1, <1>2, <2>1, <2>2, <2>4 DEF ReplacedIsRead
    <3>2. copy' = copy \/ ("old" \in copy.bound => doing \subseteq halfway')
      BY <1>5, <2>1, <2>4 DEF Looks, Reads
    <3> QED BY <1>1, <2>2, <3>1, <3>2
  <2> QED BY <2>3, <2>4
<1>6. CASE Doing /\ doing' = doing /\ at' = at + 1 /\ Change /\ Served(doing)
  <2>1. Now \in {"call", "attach", "detach"} /\ at > 0
    BY <1>1, <1>2, <1>6, DetachRoute DEF Change, Changes
  <2>2. copy' = copy
    BY <1>6, ChangeKeepsCopy
  <2>3. "old" \in bound[t]
    <3>1. bound'[t] = Bound(t)
      BY <1>1, <1>2, <1>6 DEF Served
    <3> QED BY <1>2, <2>1, <3>1 DEF Bound
  <2> QED BY <1>1, <1>2, <1>6, <2>1, <2>2, <2>3 DEF ReplacedIsRead
<1> QED BY <1>3, <1>4, <1>5, <1>6, UpdateSteps

LEMMA ClearedFirstStep == ASSUME UpdateInv, ClearedFirst, [Next]_vars PROVE ClearedFirst'
<1> USE DEF UpdateInv, ChangeInv, DeploymentInv
<1>1. route' = route /\ at \in Nat /\ doing \subseteq Targets
  BY RouteStays, TheRoute DEF TypeOK
<1>2. SUFFICES ASSUME ~Does("append"), NEW i \in 1..at', route.steps[i] = "clear", NEW t \in doing'
               PROVE  "old" \notin bound'[t]
  BY <1>1 DEF ClearedFirst, Does
<1>3. CASE at' = 0
  BY <1>2, <1>3
<1>4. CASE UNCHANGED update /\ (UNCHANGED account \/ \E s \in Targets : Others(s))
  <2>1. UNCHANGED <<doing, at>> /\ t \in Targets
    BY <1>1, <1>4 DEF update
  <2>2. "old" \notin bound[t]
    BY <1>2, <2>1 DEF ClearedFirst
  <2> QED BY <1>4, <2>1, <2>2, OthersKeep
<1>5. CASE Doing /\ doing' = doing /\ at' = at + 1 /\ Looks
  <2>1. i \in 1..at
    BY <1>1, <1>2, <1>5 DEF Looks, Now, Changes
  <2> QED BY <1>2, <1>5, <2>1 DEF ClearedFirst, Looks, account
<1>6. CASE Doing /\ doing' = doing /\ at' = at + 1 /\ Change /\ Served(doing)
  <2>1. /\ bound'[t] = Bound(t) /\ t \in doing
        /\ Now \in Changes \ {"append"}
    <3>1. Does(Now)
      BY <1>6, TheStep
    <3> QED BY <1>1, <1>2, <1>6, <3>1 DEF Served, Change
  <2>2. CASE i = at + 1
    <3>1. Now = "clear"
      BY <1>2, <2>2 DEF Now
    <3>2. "old" \in bound[t] => "old" \in copy.bound
      BY <1>6, <2>1, <3>1, TheStep DEF ReadingIsKept
    <3> QED BY <2>1, <3>1, <3>2 DEF Bound
  <2>3. CASE i # at + 1
    <3>1. "old" \notin bound[t]
      BY <1>1, <1>2, <1>6, <2>1, <2>3 DEF ClearedFirst
    <3> QED BY <2>1, <3>1 DEF Bound, Changes
  <2> QED BY <2>2, <2>3
<1> QED BY <1>3, <1>4, <1>5, <1>6, UpdateSteps

\* Between the two an update goes on, or leaves its targets halfway, or with one
\* of them.
LEMMA RoundLeaves ==
  ASSUME UpdateInv, ReplacedIsRead, UpdatesOn, Does("detach"), AddedIn(at), [Next]_vars
  PROVE  \/ doing' = doing /\ at' = at + 1
         \/ doing \subseteq halfway'
         \/ \A t \in doing : t \in halfway' \/ "old" \notin bound'[t]
<1> USE DEF UpdateInv, ChangeInv, DeploymentInv
<1>1. /\ Doing /\ at \in Nat /\ doing \subseteq Targets /\ at > 0 /\ AddedIn(at + 1)
      /\ Now \in {"tryFind", "detach"} /\ (at + 1 = Len(route.steps) <=> Now = "detach")
      /\ halfway \subseteq halfway'
  <2>1. Doing /\ at \in Nat /\ doing \subseteq Targets /\ halfway \subseteq halfway'
    BY RoundSteps, TheRoute, HalfwayGrows DEF TypeOK
  <2>2. at > 0 /\ AddedIn(at + 1)
    BY <2>1 DEF AddedIn
  <2> QED BY <2>1, <2>2, DetachRoute
<1>2. ASSUME StepFails PROVE doing \subseteq halfway'
  BY <1>1, <1>2 DEF StepFails, LeftHalfway
<1>3. CASE ~Omit /\ ~Change /\ ~ChangeFails
  <2>1. Find \/ FindFails
    BY <1>1, <1>3 DEF UpdatesOn, Recall, Skip, Read, ReadFails, Reads, Await, AwaitFails
  <2>2. StepFails \/ \E r : Advance(r)
    BY <2>1 DEF Find, FindFails, StepDone, Misses
  <2>3. Now # "detach"
    BY <2>1 DEF Find, FindFails, Finds
  <2> QED BY <1>1, <1>2, <2>2, <2>3 DEF Advance
<1>4. CASE Omit
  <2>1. "old" \notin copy.bound /\ bound' = bound
    BY <1>4 DEF Omit, NothingToDetach, account
  <2> QED BY <1>1, <2>1 DEF ReplacedIsRead
<1>5. CASE Change
  <2>1. Now = "detach" /\ "old" \in copy.bound /\ Served(doing)
    BY <1>1, <1>5 DEF Change, NothingToDetach, Changes
  <2>2. \A t \in doing : bound'[t] = Bound(t)
    BY <1>1, <2>1 DEF Served
  <2> QED BY <2>1, <2>2 DEF Bound
<1>6. CASE ChangeFails
  BY <1>2, <1>6 DEF ChangeFails
<1> QED BY <1>3, <1>4, <1>5, <1>6

\* The certificate comes next to the old one only by being added before it is
\* removed.
LEMMA AddedNext ==
  ASSUME UpdateInv, RetireInv, ~Keeps, Change \/ ChangeFails, NEW t \in Targets,
         {"new", "old"} \subseteq bound'[t], ~({"new", "old"} \subseteq bound[t])
  PROVE  t \in doing /\ Now = "attach" /\ Does("detach")
<1> USE DEF UpdateInv, ChangeInv, DeploymentInv, RetireInv
<1>1. /\ Doing /\ Now \in Changes /\ t \in doing /\ bound'[t] = Bound(t)
  BY ChangedStep
<1>2. Does(Now) /\ ~Does("append")
  BY <1>1, TheStep DEF Keeps
<1>3. Now = "place" /\ "old" \in bound[t] => "old" \in copy.bound
  BY <1>1, TheStep DEF ReadingIsKept
<1>4. Now = "attach"
  BY <1>1, <1>2, <1>3 DEF Bound, Changes
<1>5. Does("detach") \/ Does("clear")
  BY <1>2, <1>4 DEF Keeps
<1>6. ASSUME Does("clear") PROVE FALSE
  <2>1. /\ route \in Routes /\ at \in Nat /\ at + 1 \in 1..Len(route.steps) /\ (at + 1) - 1 = at
    BY <1>1, TheRoute DEF Doing
  <2>2. \E j \in 1..at : route.steps[j] = "clear"
    BY <1>4, <1>6, <2>1, RoutesAssumption DEF Now, Does
  <2>3. "old" \notin bound[t]
    BY <1>1, <1>2, <2>2 DEF ClearedFirst
  <2> QED BY <1>1, <1>4, <2>3 DEF Bound
<1> QED BY <1>1, <1>4, <1>5, <1>6

LEMMA BothHalfwayStep == ASSUME UpdateInv, RetireInv, [Next]_vars PROVE BothHalfway'
<1> USE DEF UpdateInv, ChangeInv, DeploymentInv, RetireInv
<1>1. route' = route /\ at \in Nat /\ halfway \subseteq halfway'
  BY RouteStays, TheRoute, HalfwayGrows
<1>2. SUFFICES ASSUME ~Keeps, NEW t \in Targets, {"new", "old"} \subseteq bound'[t]
               PROVE  t \in halfway' \/ (t \in doing' /\ Does("detach") /\ AddedIn(at'))
  BY <1>1 DEF BothHalfway, Keeps, Does, AddedIn
<1>3. {"new", "old"} \subseteq bound[t] =>
        t \in halfway \/ (t \in doing /\ Does("detach") /\ AddedIn(at))
  BY <1>2 DEF BothHalfway
<1>4. CASE Begin \/ Upload \/ UploadFails \/ ListPage \/ ListingFails \/ NextRound
           \/ LoopCanceled \/ Finish
  <2>1. doing = {} /\ UNCHANGED account
    BY <1>4 DEF Begin, Upload, UploadFails, ListPage, ListingFails, NextRound, LoopCanceled, Finish,
       Bookkeeping
  <2> QED BY <1>1, <1>2, <1>3, <2>1 DEF account
<1>5. CASE Cancel \/ UNCHANGED vars
  BY <1>1, <1>2, <1>3, <1>5 DEF Cancel, vars, account, update
<1>6. CASE \E s \in Targets : Others(s)
  <2>1. PICK s \in Targets : Others(s)
    BY <1>6
  <2>2. UNCHANGED <<doing, at>> /\ {"new", "old"} \subseteq bound[t]
    BY <1>2, <2>1, OthersEffect DEF Others
  <2> QED BY <1>1, <1>3, <2>2
<1>7. CASE Crash
  BY <1>1, <1>2, <1>3, <1>7 DEF Crash, LeftHalfway, account
<1>8. CASE UpdatesOn
  <2>1. CASE t \in doing /\ Does("detach") /\ AddedIn(at)
    <3>1. AddedIn(at + 1)
      BY <1>1, <2>1 DEF AddedIn
    <3> QED BY <1>2, <1>8, <2>1, <3>1, RoundLeaves
  <2>2. CASE {"new", "old"} \subseteq bound[t] /\ ~(t \in doing /\ Does("detach") /\ AddedIn(at))
    BY <1>1, <1>3, <2>2
  <2>3. CASE ~({"new", "old"} \subseteq bound[t])
    <3>1. Change \/ ChangeFails
      BY <1>2, <1>8, <2>3 DEF UpdatesOn, Recall, Skip, Read, ReadFails, Find, FindFails, Omit, Await,
         AwaitFails, account
    <3>2. t \in doing /\ Now = "attach" /\ Does("detach")
      BY <1>2, <2>3, <3>1, AddedNext
    <3>3. at + 1 # Len(route.steps) /\ Doing
      BY <3>2, DetachRoute DEF Doing
    <3>4. AddedIn(at + 1)
      BY <1>1, <3>2 DEF AddedIn, Now
    <3>5. CASE Change
      BY <3>2, <3>3, <3>4, <3>5 DEF Change, StepDone, Advance
    <3>6. CASE ChangeFails
      BY <3>2, <3>4, <3>6 DEF ChangeFails, StepFails, LeftHalfway
    <3> QED BY <3>1, <3>5, <3>6
  <2> QED BY <2>1, <2>2, <2>3
<1> QED BY <1>4, <1>5, <1>6, <1>7, <1>8, NextCases

LEMMA RetireInvStep == ASSUME UpdateInv, RetireInv, [Next]_vars PROVE RetireInv'
BY ReplacedIsReadStep, ClearedFirstStep, BothHalfwayStep DEF RetireInv

-----------------------------------------------------------------------------
(* Why a deployment fails *)

\* Cancellations, removals during the listing and lost identifiers disturb; the
\* certificate is stored before the first target is updated; the listing is
\* forgotten when it is used; without one the targets are the configured ones.
Causes ==
    /\ canceled \/ shifted \/ cert = "empty" => disturbed
    /\ phase = "update" \/ (phase = "list" /\ route.upload # "late") => cert # "none"
    /\ phase # "list" => unseen = {} /\ found = {}
    /\ ~Lists => todo \cup doing \subseteq wanted

\* What the listing shows and what is chosen from it is there.
Found ==
    ~disturbed /\ Lists =>
      /\ unseen \cup found \subseteq present
      /\ route.pick # "some" => todo \cup doing \subseteq present

\* An update fails, though nobody disturbed it, for a target that is not there,
\* or that is without an entry or without a certificate.
Lacking(t) ==
    \/ Does("replaceOrFail") /\ "old" \notin bound[t]
    \/ Does("readBound") /\ bound[t] = {}

Missing ==
    failed /\ ~disturbed =>
        \/ ~Does("peek") /\ ~(wanted \subseteq present)
        \/ \E t \in spoiled : Lacking(t)

\* How a deployment starts: with an upload, the listing or the targets.
LEMMA StartsWith ==
  ASSUME UpdateInv, Loop, Causes, Begin \/ Upload \/ (UploadFails /\ ~End("error"))
  PROVE  /\ UNCHANGED <<account, doing>> /\ doing = {} /\ found' = {}
         /\ Begin => ~disturbed' /\ ~canceled' /\ ~shifted' /\ todo = {}
         /\ ~Begin => UNCHANGED <<canceled, shifted>> /\ (disturbed => disturbed')
         /\ cert' \in {"none", "stored"} \/ (cert' = "empty" /\ disturbed')
         /\ \/ phase' = "upload" /\ unseen' = {} /\ todo' = todo
            \/ /\ phase' = "list" /\ unseen' \subseteq present /\ todo' = todo
               /\ cert' # "none" \/ route.upload = "late"
            \/ /\ phase' = "update" /\ unseen' = {} /\ cert' # "none"
               /\ (todo' = todo /\ Lists) \/ (todo' = wanted /\ ~Lists)
<1> USE DEF UpdateInv, ChangeInv, DeploymentInv
<1>1. doing = {} /\ phase # "list" /\ unseen = {} /\ found = {}
  BY DEF Begin, Upload, UploadFails, Bookkeeping, Causes
<1>2. route.upload = "late" => Lists
  BY StepsAssumption DEF TypeOK, Lists
<1>3. CASE Begin
  BY <1>1, <1>2, <1>3 DEF Begin, update, listing, Bookkeeping
<1>4. ASSUME AfterUpload, UNCHANGED account, cert' # "none"
      PROVE  /\ found' = {}
             /\ \/ /\ phase' = "list" /\ unseen' \subseteq present /\ todo' = todo
                \/ /\ phase' = "update" /\ unseen' = {}
                   /\ (todo' = todo /\ Lists) \/ (todo' = wanted /\ ~Lists)
  BY <1>1, <1>2, <1>4 DEF AfterUpload, SetOut, StartListing
<1>5. CASE Upload
  <2>1. phase = "upload"
    BY <1>5 DEF Upload
  <2> QED BY <1>1, <1>4, <1>5, <2>1 DEF Upload, update, GoesWell, Begin
<1>6. CASE UploadFails /\ ~End("error")
  <2>1. phase = "upload" /\ cert' = "empty" /\ AfterUpload /\ disturbed'
    BY <1>6 DEF UploadFails, GoesWrong
  <2> QED BY <1>1, <1>4, <1>6, <2>1 DEF UploadFails, update, Begin
<1> QED BY <1>3, <1>5, <1>6

\* The rest of a page's answer.
LEMMA PageShows ==
  ASSUME UpdateInv, ListPage, ~End("error")
  PROVE  /\ UNCHANGED <<account, doing, cert, canceled, shifted, disturbed, failed>>
         /\ phase = "list" /\ doing = {} /\ Lists
         /\ \/ /\ unseen' \cup found' \subseteq unseen \cup found /\ UNCHANGED <<phase, todo>>
            \/ /\ unseen' = {} /\ found' = {}
               /\ phase' = IF route.upload = "late" THEN "upload" ELSE "update"
               /\ route.pick # "some" => todo' \subseteq unseen \cup found
<1> USE DEF UpdateInv, ChangeInv, DeploymentInv
<1>1. /\ UNCHANGED <<account, canceled, shifted, disturbed>>
      /\ phase = "list" /\ doing = {} /\ Lists
  BY DEF ListPage, GoesWell, Bookkeeping
<1>2. PICK page \in SUBSET unseen :
        \/ /\ unseen' = unseen \ page /\ found' = found \cup page
           /\ UNCHANGED <<phase, cert, todo, update, failed>>
        \/ End("error")
        \/ /\ phase' = (IF route.upload = "late" THEN "upload" ELSE "update")
           /\ unseen' = {} /\ found' = {}
           /\ todo' = Chosen(found \cup page, Shown(page))
           /\ UNCHANGED <<cert, update, failed>>
  BY DEF ListPage
<1>3. route.pick # "some" => Chosen(found \cup page, Shown(page)) \subseteq unseen \cup found
  BY DEF Chosen, Asked
<1> QED BY <1>1, <1>2, <1>3 DEF update

\* The end, in error or not.
LEMMA EndsWith ==
  ASSUME NEW o, End(o)
  PROVE  /\ phase' = "ended" /\ cert' = "none" /\ ~failed' /\ result' = o
         /\ unseen' = {} /\ found' = {} /\ todo' = {} /\ doing' = {}
  BY DEF End

LEMMA FailingKeeps ==
  ASSUME [Next]_vars,
         ((UploadFails \/ ListPage) /\ End("error")) \/ ListingFails \/ LoopCanceled \/ Finish \/ Crash
  PROVE  UNCHANGED <<account, canceled, shifted>> /\ (disturbed => disturbed')
  BY DEF UploadFails, ListPage, ListingFails, LoopCanceled, Finish, Crash, GoesWell, GoesWrong,
     counters, history

LEMMA CausesStep == ASSUME UpdateInv, Loop, Causes, [Next]_vars PROVE Causes'
<1> USE DEF UpdateInv, ChangeInv, DeploymentInv
<1>1. route' = route /\ wanted' = wanted
  BY RouteStays
<1>2. CASE Begin \/ Upload \/ (UploadFails /\ ~End("error"))
  BY <1>1, <1>2, StartsWith DEF Causes, Lists
<1>3. CASE ListPage /\ ~End("error")
  BY <1>1, <1>3, PageShows DEF Causes, Lists
<1>4. CASE \/ (UploadFails \/ ListPage) /\ End("error")
           \/ ListingFails \/ LoopCanceled \/ Finish \/ Crash
  <2>1. \E o : End(o)
    BY <1>4 DEF ListingFails, LoopCanceled, Finish, Crash
  <2> QED BY <1>4, <2>1, EndsWith, FailingKeeps DEF Causes
<1>5. CASE NextRound
  <2>1. /\ UNCHANGED <<phase, cert, listing, canceled, disturbed, history>> /\ doing = {}
        /\ \E group \in Groups : doing' = group /\ todo' = todo \ group
    BY <1>5 DEF NextRound
  <2> QED BY <1>1, <2>1, GroupsOfTodo DEF Causes, Lists, listing, history
<1>6. CASE UpdatesOn
  <2>1. UNCHANGED <<phase, cert, listing, todo, canceled, shifted>> /\ doing' \subseteq doing
    BY <1>6, RoundSteps DEF Rest
  <2>2. disturbed => disturbed'
    BY <1>6 DEF UpdatesOn, Recall, Skip, Read, ReadFails, Find, FindFails, Omit, Change, ChangeFails, Await, AwaitFails,
       GoesWell, GoesWrong
  <2> QED BY <1>1, <2>1, <2>2 DEF Causes, Lists, listing
<1>7. CASE \E s \in Targets : Others(s)
  <2>1. PICK s \in Targets : Others(s)
    BY <1>7
  <2>2. /\ UNCHANGED <<phase, cert, found, todo, doing, canceled>> /\ (disturbed => disturbed')
    BY <2>1, OthersEffect DEF Others
  <2>3. unseen' \subseteq unseen /\ (shifted' => shifted \/ disturbed')
    BY <2>1 DEF Others, JobEnds, UserRemoves, UserEdits, UserBinds, UserActs
  <2> QED BY <1>1, <2>2, <2>3 DEF Causes, Lists
<1>8. CASE Cancel \/ UNCHANGED vars
  BY <1>8 DEF Cancel, vars, listing, update, history, Causes, Lists
<1> QED BY <1>2, <1>3, <1>4, <1>5, <1>6, <1>7, <1>8, NextCases

\* The targets stay through an update; only one that looks whether there is one
\* creates it.
LEMMA UpdatesKeepTargets ==
  ASSUME TypeOK, UpdatesOn
  PROVE  /\ present \subseteq present' /\ (disturbed => disturbed')
         /\ ~Does("peek") => present' = present
<1>1. disturbed => disturbed'
  BY DEF UpdatesOn, Recall, Skip, Read, ReadFails, Find, FindFails, Omit, Change, ChangeFails, Await, AwaitFails,
     GoesWell, GoesWrong
<1>2. CASE Change \/ ChangeFails
  <2>1. PICK some \in SUBSET doing : Served(some) /\ \A u \in some : Serves(u)
    BY <1>2, ServedTargets
  <2>2. some \in SUBSET Targets /\ present' = present \cup some
    BY <2>1, ServedEffect DEF TypeOK
  <2>3. ~Does("peek") => some \subseteq present
    BY <2>1 DEF Serves
  <2> QED BY <1>1, <2>2, <2>3
<1>3. CASE UNCHANGED account
  BY <1>1, <1>3 DEF account
<1> QED BY <1>2, <1>3 DEF UpdatesOn, Recall, Skip, Read, ReadFails, Find, FindFails, Omit, Await, AwaitFails

LEMMA FoundStep == ASSUME UpdateInv, Loop, Causes, Found, [Next]_vars PROVE Found'
<1> USE DEF UpdateInv, ChangeInv, DeploymentInv
<1>1. route' = route /\ (Lists' <=> Lists)
  BY RouteStays DEF Lists
<1>2. CASE Begin \/ Upload \/ (UploadFails /\ ~End("error"))
  <2>1. present' = present /\ doing' = {} /\ found' = {} /\ unseen' \subseteq present
    BY <1>2, StartsWith DEF account
  <2>2. Lists => todo' = todo
    BY <1>2, StartsWith
  <2>3. todo = {} \/ (disturbed => disturbed')
    BY <1>2, StartsWith
  <2> QED BY <1>1, <2>1, <2>2, <2>3 DEF Found
<1>3. CASE ListPage /\ ~End("error")
  BY <1>1, <1>3, PageShows DEF Found, account
<1>4. CASE \/ (UploadFails \/ ListPage) /\ End("error")
           \/ ListingFails \/ LoopCanceled \/ Finish \/ Crash
  <2>1. \E o : End(o)
    BY <1>4 DEF ListingFails, LoopCanceled, Finish, Crash
  <2> QED BY <2>1, EndsWith DEF Found
<1>5. CASE NextRound
  <2>1. /\ UNCHANGED <<account, listing, disturbed>> /\ doing = {}
        /\ \E group \in Groups : doing' = group /\ todo' = todo \ group
    BY <1>5 DEF NextRound
  <2> QED BY <1>1, <2>1, GroupsOfTodo DEF Found, listing, account
<1>6. CASE UpdatesOn
  <2>1. UNCHANGED <<listing, todo>> /\ doing' \subseteq doing
    BY <1>6, RoundSteps DEF Rest
  <2> QED BY <1>1, <1>6, <2>1, UpdatesKeepTargets DEF Found, listing
<1>7. CASE \E s \in Targets : Others(s)
  <2>1. PICK s \in Targets : Others(s)
    BY <1>7
  <2>2. /\ UNCHANGED <<found, todo, doing>> /\ (disturbed => disturbed')
        /\ ~disturbed' => \A t \in Targets : t \in present => t \in present'
    BY <2>1, OthersEffect DEF Others
  <2>3. unseen' \subseteq unseen /\ present \subseteq Targets
    BY <2>1 DEF Others, JobEnds, UserRemoves, UserEdits, UserBinds, UserActs, TypeOK
  <2> QED BY <1>1, <2>2, <2>3 DEF Found
<1>8. CASE Cancel \/ UNCHANGED vars
  BY <1>1, <1>8 DEF Cancel, vars, account, listing, update, Found
<1> QED BY <1>2, <1>3, <1>4, <1>5, <1>6, <1>7, <1>8, NextCases

\* An update that fails though nobody disturbs it.
LEMMA FailsFor ==
  ASSUME UpdateInv, Causes, Found, UpdatesOn, ~failed, failed', ~disturbed'
  PROVE  (~Does("peek") /\ ~(wanted \subseteq present)) \/ \E t \in spoiled' : Lacking(t)'
<1> USE DEF UpdateInv, ChangeInv, DeploymentInv
<1>1. Doing /\ ~disturbed /\ phase = "update" /\ Does(Now) /\ doing \subseteq Targets
  BY RoundSteps, UpdatesKeepTargets, TheStep DEF Bookkeeping, Doing, TypeOK
<1>2. ASSUME NEW t \in doing, t \notin present, ~Does("peek")
      PROVE  ~Does("peek") /\ ~(wanted \subseteq present)
  <2>1. Lists => route.pick \in {"match", "named", "some", "every"}
    BY RouteShape DEF TypeOK, Lists
  <2>2. t \in wanted
    BY <1>1, <1>2, <2>1 DEF Found, Causes, Confined
  <2> QED BY <1>2, <2>2
<1>3. CASE Read
  <2>1. PICK t \in doing : ~IsThere(t) /\ Now \in {"read", "readBound"} /\ StepFails
    BY <1>3 DEF Read, StepDone
  <2>2. ~Does("peek")
    BY <1>1, <2>1, TheStep
  <2>3. CASE t \notin present
    BY <1>2, <2>2, <2>3
  <2>4. CASE Now = "readBound" /\ bound[t] = {}
    <3>1. t \in spoiled' /\ bound'[t] = {} /\ Does("readBound")'
      BY <1>1, <1>3, <2>1, <2>4, RoundSteps DEF Read, StepFails, account, Rest, Does
    <3> QED BY <3>1 DEF Lacking
  <2> QED BY <2>1, <2>3, <2>4 DEF IsThere
<1>4. CASE ChangeFails
  <2>1. PICK t \in doing : ~Serves(t)
    BY <1>4 DEF ChangeFails, GoesWrong
  <2>2. cert = "stored"
    BY <1>1 DEF Causes, TypeOK
  <2>3. Now = "cas" => copy = [bound |-> bound[t], settings |-> settings[t]]
    BY <1>1, TheStep DEF ReadingIsKept
  <2>4. CASE ~(t \in present \/ Does("peek"))
    BY <1>2, <2>4
  <2>5. CASE Now = "replaceOrFail" /\ ~HasEntry(t)
    <3>1. "old" \notin bound[t]
      BY <1>1, <2>5, TheStep DEF ReadingIsKept, HasEntry
    <3>2. bound'[t] = bound[t]
      BY <1>1, <1>4, <2>1, ChangedStep
    <3>3. t \in spoiled' /\ Does("replaceOrFail")'
      BY <1>1, <1>4, <2>5, RoundSteps DEF ChangeFails, StepFails, Rest, Does
    <3> QED BY <3>1, <3>2, <3>3 DEF Lacking
  <2> QED BY <2>1, <2>2, <2>3, <2>4, <2>5 DEF Serves
<1>5. CASE Await
  <2>1. PICK t \in doing : Now = "await" /\ job[t] = "failed"
    BY <1>5 DEF Await, StepDone
  <2> QED BY <1>1, <2>1, TheStep DEF Submitted
<1>6. CASE Recall \/ Skip \/ Omit \/ Find
  BY <1>6 DEF Recall, Skip, Omit, Find, StepDone, Misses
<1>7. CASE ReadFails \/ AwaitFails \/ FindFails
  BY <1>7 DEF ReadFails, AwaitFails, FindFails, GoesWrong
<1>8. CASE Change
  BY <1>8 DEF Change, StepDone
<1> QED BY <1>3, <1>4, <1>5, <1>6, <1>7, <1>8 DEF UpdatesOn

\* Nobody gives such a target a certificate without disturbing it.
LEMMA OthersLeaveLacking ==
  ASSUME UpdateInv, NEW t \in Targets, UNCHANGED route, ~disturbed',
         UNCHANGED account \/ \E s \in Targets : Others(s), Lacking(t)
  PROVE  Lacking(t)'
<1> USE DEF UpdateInv, ChangeInv, DeploymentInv
<1>1. CASE Does("replaceOrFail") /\ "old" \notin bound[t]
  BY <1>1, OthersKeep DEF Lacking, Does
<1>2. CASE Does("readBound") /\ bound[t] = {}
  <2>1. ~Does("submit")
    BY <1>2, StepsAssumption DEF TypeOK, Does, Has
  <2>2. job[t] = "none"
    BY <2>1 DEF JobsAreSubmitted
  <2> QED BY <1>2, <2>2, OthersKeep DEF Lacking, Does
<1> QED BY <1>1, <1>2 DEF Lacking

LEMMA MissingStep ==
  ASSUME UpdateInv, Loop, Causes, Found, Missing, [Next]_vars PROVE Missing'
<1> USE DEF UpdateInv, ChangeInv, DeploymentInv
<1>1. route' = route /\ wanted' = wanted
  BY RouteStays
<1>2. CASE Begin \/ Upload \/ UploadFails \/ ListPage \/ ListingFails \/ LoopCanceled \/ Finish \/ Crash
  <2>1. ~failed'
    BY <1>2, StartSteps, EndSteps DEF End
  <2> QED BY <2>1 DEF Missing
<1>3. CASE UpdatesOn
  <2>1. SUFFICES ASSUME failed', ~disturbed'
                 PROVE  \/ ~Does("peek") /\ ~(wanted \subseteq present)
                        \/ \E t \in spoiled' : Lacking(t)'
    BY <1>1, <1>3, UpdatesKeepTargets DEF Missing, Does
  <2>2. ~disturbed
    BY <1>3, <2>1, UpdatesKeepTargets
  <2>3. CASE ~failed
    BY <1>3, <2>1, <2>3, FailsFor
  <2>4. CASE failed /\ ~(~Does("peek") /\ ~(wanted \subseteq present))
    <3>1. PICK t \in spoiled : Lacking(t)
      BY <2>2, <2>4 DEF Missing
    <3>2. t \in Targets \ doing
      BY <3>1 DEF Loop, TypeOK
    <3>3. bound'[t] = bound[t] /\ t \in spoiled'
      BY <1>3, <3>1, <3>2, RoundSteps
    <3> QED BY <1>1, <3>1, <3>3 DEF Lacking, Does
  <2> QED BY <2>3, <2>4
<1>4. CASE (\E s \in Targets : Others(s)) \/ Cancel \/ UNCHANGED vars
  <2>1. /\ UNCHANGED <<failed, spoiled>> /\ (disturbed => disturbed')
        /\ UNCHANGED account \/ \E s \in Targets : Others(s)
    <3>1. disturbed => disturbed'
      BY <1>4, OthersEffect DEF Others, Cancel, vars
    <3> QED BY <1>4, <3>1, RestSteps
  <2>2. \A t \in Targets : t \in present' => t \in present
    BY <2>1, OthersKeep
  <2>3. present' \subseteq Targets /\ spoiled \subseteq Targets
    BY NextInv DEF TypeOK
  <2>4. ~disturbed' => \A t \in Targets : Lacking(t) => Lacking(t)'
    BY <1>1, <2>1, OthersLeaveLacking
  <2> QED BY <1>1, <2>1, <2>2, <2>3, <2>4 DEF Missing, Does
<1>5. CASE NextRound
  <2>1. UNCHANGED <<account, failed, spoiled, disturbed>>
    BY <1>5 DEF NextRound, history
  <2> QED BY <1>1, <2>1 DEF Missing, Lacking, Does, account
<1> QED BY <1>2, <1>3, <1>4, <1>5, NextCases

\* A listing that shows nothing to update, though nobody disturbs it.
LEMMA NothingListed ==
  ASSUME UpdateInv, Causes, AllListed, ListPage, End("error"), ~disturbed
  PROVE  \/ ~(wanted \subseteq present)
         \/ wanted = {}
         \/ present = {}
         \/ route.list = "grow"
         \/ route.bound = "hidden" /\ \A t \in wanted : "new" \in bound[t]
<1> USE DEF UpdateInv, ChangeInv, DeploymentInv
<1>1. phase = "list" /\ phase' = "ended" /\ ~shifted /\ Lists
  BY EndsWith DEF ListPage, Causes, Bookkeeping
<1>2. PICK page \in SUBSET unseen :
        /\ Cardinality(page) \in Fresh(Cardinality(unseen))
        /\ LastPage(page, unseen)
        /\ Asked(found \cup page) = {}
  BY <1>1 DEF ListPage
<1>3. route.list = "grow" \/ page = unseen
  BY <1>2, LastPageIsRest
<1>4. \A t \in present : t \in unseen \cup found \/ Hidden(t)
  BY <1>1 DEF AllListed
<1>5. route.list = "grow" \/ (unseen \cup found) \cap wanted = {}
  BY <1>2, <1>3 DEF Asked
<1> QED BY <1>4, <1>5 DEF Hidden

LEMMA SucceedsStep ==
  ASSUME UpdateInv, Loop, AllListed, Causes, Missing, UndisturbedDeploymentSucceeds, [Next]_vars
  PROVE  UndisturbedDeploymentSucceeds'
<1> USE DEF UpdateInv, ChangeInv, DeploymentInv
<1>1. route' = route /\ wanted' = wanted /\ wanted \subseteq Targets
  BY RouteStays DEF TypeOK
<1>2. CASE result' # "error" \/ disturbed'
  BY <1>2 DEF UndisturbedDeploymentSucceeds
<1>3. CASE Begin \/ Upload \/ UploadFails \/ ListPage \/ ListingFails
  <2>1. UNCHANGED account /\ (result' = "none" \/ End("error"))
    BY <1>3, StartSteps
  <2>2. CASE End("error") /\ ListPage
    <3>1. disturbed => disturbed'
      BY <2>2, FailingKeeps
    <3> QED BY <1>1, <1>2, <2>1, <2>2, <3>1, NothingListed
            DEF UndisturbedDeploymentSucceeds, account, Does
  <2>3. CASE End("error") /\ (UploadFails \/ ListingFails)
    BY <1>2, <2>3 DEF UploadFails, ListingFails, GoesWrong
  <2>4. CASE End("error") /\ (Begin \/ Upload)
    BY <1>2, <2>4 DEF Begin, Upload, AfterUpload, SetOut, StartListing, End
  <2> QED BY <1>2, <1>3, <2>1, <2>2, <2>3, <2>4
<1>4. CASE UpdatesOn \/ NextRound
  <2>1. phase = "update" /\ result' = result
    BY <1>4, RoundSteps DEF NextRound, Rest, Bookkeeping, Doing
  <2> QED BY <1>2, <2>1 DEF Loop
<1>5. CASE LoopCanceled \/ Finish \/ Crash
  <2>1. /\ UNCHANGED <<account, disturbed>>
        /\ \/ End("error") /\ canceled
           \/ End("none")
           \/ End(IF failed THEN "error" ELSE "ok")
    BY <1>5, EndSteps DEF LoopCanceled, Finish, Crash
  <2>2. CASE canceled
    BY <1>2, <2>1, <2>2 DEF Causes
  <2>3. CASE failed
    <3>1. UNCHANGED spoiled
      BY <1>5, EndSteps
    <3> QED BY <1>1, <1>2, <2>1, <2>3, <3>1
            DEF Missing, Lacking, UndisturbedDeploymentSucceeds, account, Does
  <2>4. CASE ~failed /\ ~canceled
    BY <1>2, <2>1, <2>4, EndsWith
  <2> QED BY <2>2, <2>3, <2>4
<1>6. CASE \E s \in Targets : Others(s)
  <2>1. PICK s \in Targets : Others(s)
    BY <1>6
  <2>2. /\ UNCHANGED <<result, spoiled>> /\ (disturbed => disturbed')
        /\ ~disturbed' => \A t \in Targets : t \in present <=> t \in present'
    BY <2>1, OthersEffect DEF Others
  <2>3. present' \subseteq Targets /\ present \subseteq Targets /\ spoiled \subseteq Targets
    BY NextInv DEF TypeOK
  <2>4. ~disturbed' => \A t \in Targets : "new" \in bound[t] => "new" \in bound'[t]
    BY <1>6, <2>2, OthersKeep DEF JobsAndTargets
  <2>5. ~disturbed' => \A t \in Targets : Lacking(t) => Lacking(t)'
    BY <1>1, <1>6, OthersLeaveLacking
  <2> HIDE DEF UpdateInv, ChangeInv, DeploymentInv
  <2>6. SUFFICES ASSUME result = "error", ~disturbed, ~disturbed' PROVE UndisturbedDeploymentSucceeds'
    BY <2>2 DEF UndisturbedDeploymentSucceeds
  <2>7. CASE \E t \in spoiled : Lacking(t)
    BY <1>1, <2>2, <2>3, <2>5, <2>6, <2>7 DEF UndisturbedDeploymentSucceeds, Lacking, Does
  <2>8. CASE ~ \E t \in spoiled : Lacking(t)
    BY <1>1, <2>2, <2>3, <2>4, <2>6, <2>8 DEF UndisturbedDeploymentSucceeds, Lacking, Does
  <2> QED BY <2>7, <2>8
<1>7. CASE Cancel \/ UNCHANGED vars
  BY <1>1, <1>7 DEF Cancel, vars, account, history, UndisturbedDeploymentSucceeds, Does
<1> QED BY <1>3, <1>4, <1>5, <1>6, <1>7, NextCases

-----------------------------------------------------------------------------
(* The inductive invariant of how an attempt ends: the update invariant, the   *)
(* place of the loop over targets, and where an error can come from.           *)
OutcomeInv ==
    /\ UpdateInv /\ Loop /\ AllListed /\ RetireInv
    /\ Causes /\ Found /\ Missing /\ UndisturbedDeploymentSucceeds

LEMMA OutcomeInvHolds == Spec => []OutcomeInv
<1>1. Init => OutcomeInv
  <2> SUFFICES ASSUME Init PROVE OutcomeInv
    OBVIOUS
  <2>1. UpdateInv
    BY InitUpdateInv
  <2>2. Loop /\ AllListed
    BY DEF Init, Loop, AllListed
  <2>3. RetireInv
    BY DEF Init, RetireInv, ReplacedIsRead, ClearedFirst, BothHalfway
  <2>4. Causes /\ Found /\ Missing /\ UndisturbedDeploymentSucceeds
    BY DEF Init, Causes, Found, Missing, UndisturbedDeploymentSucceeds
  <2> QED BY <2>1, <2>2, <2>3, <2>4 DEF OutcomeInv
<1>2. OutcomeInv /\ [Next]_vars => OutcomeInv'
  BY NextUpdateInv, LoopStep, ListedStep, RetireInvStep, CausesStep, FoundStep, MissingStep,
     SucceedsStep DEF OutcomeInv
<1> QED BY <1>1, <1>2, PTL DEF Spec

\* Deploy that answers no error has put the certificate on all it was to: the
\* listing shows every target there is, those with the certificate already
\* apart; the loop goes through all that were chosen; and an update that is done
\* has given the certificate, or has seen that its target has it.
THEOREM SuccessServesNewHolds == Spec => []SuccessServesNew
<1>1. OutcomeInv => SuccessServesNew
  <2> SUFFICES ASSUME OutcomeInv, result = "ok", NEW t \in wanted \cap present,
                      ~shifted, route.list # "grow"
               PROVE  Updated(t)
    BY DEF SuccessServesNew, Updated
  <2>1. t \in chosen \/ "new" \in bound[t]
    BY DEF OutcomeInv, AllListed
  <2>2. phase = "ended"
    BY DEF OutcomeInv, Loop
  <2> QED BY <2>1, <2>2 DEF OutcomeInv, Loop, Updated
<1> QED BY <1>1, OutcomeInvHolds, PTL

\* Whatever a route does between adding the certificate and removing the one it
\* replaces (aliyun_alb.go, ucloud_ualb.go), and whatever it leaves alone because
\* it found the certificate bound, a deployment that answers no error leaves both
\* only where an update, this one's or an earlier one's, ended between the two or
\* passed the old one over.
THEOREM SuccessRetiresOldHolds == Spec => []SuccessRetiresOld
<1>1. OutcomeInv => SuccessRetiresOld
  <2> SUFFICES ASSUME OutcomeInv, result = "ok", ~Keeps, NEW t \in (wanted \cap present) \ halfway
               PROVE  ~({"new", "old"} \subseteq bound[t])
    BY DEF SuccessRetiresOld
  <2>1. doing = {} /\ t \in Targets
    BY DEF OutcomeInv, Loop, UpdateInv, ChangeInv, DeploymentInv, Bookkeeping, TypeOK
  <2> QED BY <2>1 DEF OutcomeInv, RetireInv, BothHalfway
<1> QED BY <1>1, OutcomeInvHolds, PTL

\* The loop collects the errors and goes on: what it does not report as failed is
\* updated.
THEOREM OneFailureSparesTheRestHolds == Spec => []OneFailureSparesTheRest
<1>1. OutcomeInv => OneFailureSparesTheRest
  BY DEF OutcomeInv, Loop, Updated, OneFailureSparesTheRest
<1> QED BY <1>1, OutcomeInvHolds, PTL

\* An error has a cause: a request that went wrong, something the user did, or a
\* target that is missing, without an entry or (aliyun_waf.go) a certificate.
THEOREM UndisturbedDeploymentSucceedsHolds == Spec => []UndisturbedDeploymentSucceeds
<1>1. OutcomeInv => UndisturbedDeploymentSucceeds
  BY DEF OutcomeInv
<1> QED BY <1>1, OutcomeInvHolds, PTL
=============================================================================
