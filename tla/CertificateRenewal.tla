------------------------- MODULE CertificateRenewal -------------------------
(***************************************************************************)
(* The certificates of one workflow, apply -> deploy -> notify, over many  *)
(* runs: what the nodes read of earlier runs to decide what they may skip  *)
(* (internal/workflow/engine/executor_biz*.go), the rows they save         *)
(* (internal/repository/certificate.go, workflow_output.go), and what      *)
(* changes these rows meanwhile: revocations, retention, a crash.          *)
(*                                                                         *)
(* Each run has one executor.  Runs follow one another, but Cancel frees   *)
(* the workflow while the executor of the canceled run is still inside a   *)
(* node, so that executors may overlap.                                    *)
(*                                                                         *)
(* The time a row is created at is the number of rows saved before it: no  *)
(* two rows have the same.                                                 *)
(***************************************************************************)
EXTENDS Integers, Sequences

CONSTANTS
  Runs,           \* the runs that may ever be started: numbers, in start order
  ApplyConfigs,   \* the apply node's configurations that ask for different certificates
  DeployConfigs,  \* the deploy node's: [provider, place, skipOnLastSucceeded]
  Events,         \* bound: the kinds of events that disturb the runs
  MaxCerts,       \* bound: certificates requested
  MaxEvents       \* bound: how many events happen

ASSUME RunsAssumption == Runs \subseteq Nat \ {0}
ASSUME BoundsAssumption == MaxCerts \in Nat /\ MaxEvents \in Nat

Certs == 1..MaxCerts
NoCert == 0
NoRun == 0

\* place is the access record and the provider's own configuration.
Target(config) == <<config.provider, config.place>>
Targets == {Target(config) : config \in DeployConfigs}

VARIABLES
  graph,         \* the configurations of the nodes of the workflow's graph
  row,           \* each run's row in collection workflow_run
  ended,         \* the rows that have an endedAt, in its order
  exec,          \* each run's executor
  certs,         \* the rows of collection certificate
  issued,        \* how many of them have been saved
  due,           \* the certificates less than SkipBeforeExpiryDays from their end
  applyOutputs,  \* the rows of collection workflow_output of the apply node
  deployOutputs, \* and of the deploy node
  clock,         \* how many rows have been saved
  deployed,      \* the certificate each target has
  revoking,      \* the RevokeCertificate request, if any
  events         \* the number of events so far

runVars == <<row, ended>>
rowVars == <<certs, issued, applyOutputs, deployOutputs, clock>>
userVars == <<graph, due, revoking>>
vars == <<runVars, exec, rowVars, deployed, userVars, events>>

Graphs == [apply : ApplyConfigs, deploy : DeployConfigs]
RowCopy == [id : {NoCert} \cup Certs, run : {NoRun} \cup Runs,
            renewed : BOOLEAN, revoked : BOOLEAN]
NoCopy == [id |-> NoCert, run |-> NoRun, renewed |-> FALSE, revoked |-> FALSE]
NoRow == [run |-> NoRun, config |-> "none", at |-> 0, renewed |-> FALSE,
          revoked |-> FALSE, gone |-> TRUE]

\* graph is the run's own; last the run of the last output and same whether its
\* node was configured alike; old the copy of the last certificate; cert the apply
\* node's output; skips the values of the variables node.skipped.
ExecState ==
  [pc : {"idle", "apply", "decide", "request", "renew", "save", "deploy",
         "deploying", "record", "notify", "over"},
   stopped : BOOLEAN, graph : Graphs, last : {NoRun} \cup Runs, same : BOOLEAN,
   old : RowCopy, cert : {NoCert} \cup Certs, skips : SUBSET BOOLEAN,
   notice : {"none", "sent", "skipped"}]
IdleExec ==
  [pc |-> "idle", stopped |-> FALSE, graph |-> graph, last |-> NoRun, same |-> FALSE,
   old |-> NoCopy, cert |-> NoCert, skips |-> {}, notice |-> "none"]

RowState == {"none", "active", "canceled", "ended", "gone"}
CertRow == [run : {NoRun} \cup Runs, config : ApplyConfigs \cup {"none"}, at : Nat,
            renewed : BOOLEAN, revoked : BOOLEAN, gone : BOOLEAN]
ApplyOutput == [run : Runs, config : ApplyConfigs, at : Nat]
DeployOutput == [run : Runs, config : DeployConfigs, at : Nat]

TypeOK ==
  /\ graph \in Graphs
  /\ row \in [Runs -> RowState]
  /\ ended \in Seq(Runs)
  /\ exec \in [Runs -> ExecState]
  /\ certs \in [Certs -> CertRow]
  /\ issued \in 0..MaxCerts
  /\ due \subseteq Certs
  /\ applyOutputs \subseteq ApplyOutput
  /\ deployOutputs \subseteq DeployOutput
  /\ clock \in Nat
  /\ deployed \in [Targets -> {NoCert} \cup Certs]
  /\ revoking \in RowCopy
  /\ events \in 0..MaxEvents

Init ==
  /\ graph \in Graphs
  /\ row = [r \in Runs |-> "none"]
  /\ ended = <<>>
  /\ exec = [r \in Runs |-> IdleExec]
  /\ certs = [c \in Certs |-> NoRow]
  /\ issued = 0 /\ due = {}
  /\ applyOutputs = {} /\ deployOutputs = {} /\ clock = 0
  /\ deployed = [t \in Targets |-> NoCert]
  /\ revoking = NoCopy
  /\ events = 0

-----------------------------------------------------------------------------
(* Rows and executors. *)

Fresh(r) == row[r] # "gone"

\* Queries sort by creation time and take the first row.
Latest(o, outputs) == \A p \in outputs : p.at <= o.at
Saved(r) == {c \in Certs : certs[c].run = r /\ ~certs[c].gone}

\* A row is saved as a whole, from a copy read earlier; that fails once the run the
\* copy names has been deleted.
CopyOf(c) == [id |-> c, run |-> certs[c].run, renewed |-> certs[c].renewed,
              revoked |-> certs[c].revoked]
SaveCopy(copy) ==
  certs' = IF certs[copy.id].gone \/ certs[copy.id].run # copy.run THEN certs
           ELSE [certs EXCEPT ![copy.id].renewed = copy.renewed,
                              ![copy.id].revoked = copy.revoked]

Event(kind) == kind \in Events /\ events < MaxEvents /\ events' = events + 1

\* The run keeps its own copy of the graph.
StartRun(r) ==
  /\ exec[r].pc = "idle"
  /\ \A s \in Runs : s < r => exec[s].pc = "over" \/ exec[s].stopped
  /\ row' = [row EXCEPT ![r] = "active"]
  /\ exec' = [exec EXCEPT ![r].pc = "apply", ![r].graph = graph]
  /\ UNCHANGED <<ended, rowVars, deployed, userVars, events>>

\* The engine enters a node only after it has looked at the run's context.
Enters(r, node) == exec[r].pc = node /\ ~exec[r].stopped

\* The executor ends with the run's last save.  A run that ends with the error of
\* a context is canceled and gets no endedAt.
Over(r, status) ==
  /\ exec' = [exec EXCEPT ![r].pc = "over"]
  /\ row' = IF Fresh(r) THEN [row EXCEPT ![r] = status] ELSE row
  /\ ended' = IF Fresh(r) /\ status = "ended" THEN Append(ended, r) ELSE ended

NoticeCancel(r) ==
  /\ exec[r].pc \in {"apply", "deploy", "notify"} /\ exec[r].stopped
  /\ Over(r, "canceled")
  /\ UNCHANGED <<rowVars, deployed, userVars, events>>

\* A node returns an error, which may be that of a context: the run's own, or one
\* that timed out inside the node.
Fail(r) == \E status \in {"ended", "canceled"} : Over(r, status)

-----------------------------------------------------------------------------
(* The apply node. *)

Found(r, o, same) ==
  exec' = [exec EXCEPT ![r].pc = "decide", ![r].last = o.run, ![r].same = same]

\* Mutant: the oldest output is taken for the last.
ApplyLookupOldest(r) ==
  /\ Enters(r, "apply")
  /\ \/ applyOutputs = {} /\ exec' = [exec EXCEPT ![r].pc = "decide"]
     \/ \E o \in applyOutputs :
          /\ \A p \in applyOutputs : o.at <= p.at
          /\ Found(r, o, o.config = exec[r].graph.apply)
  /\ UNCHANGED <<runVars, rowVars, deployed, userVars, events>>

\* Mutant: the configurations are not compared.
ApplyLookupUncompared(r) ==
  /\ Enters(r, "apply")
  /\ \/ applyOutputs = {} /\ exec' = [exec EXCEPT ![r].pc = "decide"]
     \/ \E o \in applyOutputs : Latest(o, applyOutputs) /\ Found(r, o, TRUE)
  /\ UNCHANGED <<runVars, rowVars, deployed, userVars, events>>

\* The node's last output is read, whichever run saved it.
ApplyLookup(r) ==
  /\ Enters(r, "apply")
  /\ \/ applyOutputs = {} /\ exec' = [exec EXCEPT ![r].pc = "decide"]
     \/ \E o \in applyOutputs :
          Latest(o, applyOutputs) /\ Found(r, o, o.config = exec[r].graph.apply)
  /\ UNCHANGED <<runVars, rowVars, deployed, userVars, events>>

\* The certificate saved by that run is read, and used again if it will do.
ApplyDecide(r) ==
  /\ exec[r].pc = "decide"
  /\ \/ /\ exec[r].last = NoRun \/ Saved(exec[r].last) = {}
        /\ exec' = [exec EXCEPT ![r].pc = "request", ![r].skips = {FALSE}]
     \/ \E c \in Saved(exec[r].last) :
          /\ exec[r].last # NoRun /\ \A d \in Saved(exec[r].last) : d <= c
          /\ exec' = IF exec[r].same /\ ~certs[c].revoked /\ c \notin due
               THEN [exec EXCEPT ![r].pc = "deploy", ![r].cert = c, ![r].skips = {TRUE}]
               ELSE [exec EXCEPT ![r].pc = "request", ![r].skips = {FALSE},
                       ![r].old = CopyOf(c)]
  /\ UNCHANGED <<runVars, rowVars, deployed, userVars, events>>

\* The CA issues a certificate, in place of the old one if that was asked for (ARI)
\* and it agrees, and its row is saved, which fails if the run's row is gone.
RequestCertificate(r) ==
  /\ exec[r].pc = "request" /\ issued < MaxCerts /\ Fresh(r)
  /\ LET c == issued + 1 IN
     /\ issued' = c /\ clock' = clock + 1
     /\ certs' = [certs EXCEPT ![c] =
          [run |-> r, config |-> exec[r].graph.apply, at |-> clock, renewed |-> FALSE,
           revoked |-> FALSE, gone |-> FALSE]]
     /\ \E replaced \in BOOLEAN :
          /\ replaced => exec[r].old.id # NoCert /\ ~exec[r].old.renewed
          /\ exec' = [exec EXCEPT ![r].cert = c,
                        ![r].pc = IF replaced THEN "renew" ELSE "save"]
  /\ UNCHANGED <<runVars, applyOutputs, deployOutputs, deployed, userVars, events>>

RequestFails(r) ==
  /\ exec[r].pc = "request"
  /\ IF Fresh(r) THEN Event("fail") ELSE UNCHANGED events
  /\ Fail(r)
  /\ UNCHANGED <<rowVars, deployed, userVars>>

\* The old certificate is saved from the copy read before the request; an error is
\* ignored.
SaveRenewed(r) ==
  /\ exec[r].pc = "renew"
  /\ SaveCopy([exec[r].old EXCEPT !.renewed = TRUE])
  /\ exec' = [exec EXCEPT ![r].pc = "save"]
  /\ UNCHANGED <<runVars, issued, applyOutputs, deployOutputs, clock, deployed, userVars,
                 events>>

\* The engine saves the output of the node; it goes on if that fails.
SaveApplyOutput(r) ==
  /\ exec[r].pc = "save"
  /\ applyOutputs' = IF Fresh(r)
       THEN applyOutputs \cup {[run |-> r, config |-> exec[r].graph.apply, at |-> clock]}
       ELSE applyOutputs
  /\ clock' = clock + 1
  /\ exec' = [exec EXCEPT ![r].pc = "deploy"]
  /\ UNCHANGED <<runVars, certs, issued, deployOutputs, deployed, userVars, events>>

-----------------------------------------------------------------------------
(* The deploy node. *)

\* A deployment that is repeated because the node is not to skip sets no variable.
Decided(r, alike) ==
  exec' = IF alike /\ exec[r].graph.deploy.skipOnLastSucceeded
    THEN [exec EXCEPT ![r].pc = "notify", ![r].skips = @ \cup {TRUE}]
    ELSE [exec EXCEPT ![r].pc = "deploying",
            ![r].skips = IF alike THEN @ ELSE @ \cup {FALSE}]

\* Mutant: the age of the certificate is not looked at.
DeployDecideAgeless(r) ==
  /\ Enters(r, "deploy") /\ ~certs[exec[r].cert].gone
  /\ \/ deployOutputs = {} /\ Decided(r, FALSE)
     \/ \E o \in deployOutputs :
          /\ Latest(o, deployOutputs)
          /\ Decided(r, o.config.place = exec[r].graph.deploy.place)
  /\ UNCHANGED <<runVars, rowVars, deployed, userVars, events>>

\* The last output and the certificate are read.  A certificate created after the
\* output is deployed; otherwise the place decides, and it alone.
DeployDecide(r) ==
  /\ Enters(r, "deploy") /\ ~certs[exec[r].cert].gone
  /\ \/ deployOutputs = {} /\ Decided(r, FALSE)
     \/ \E o \in deployOutputs :
          /\ Latest(o, deployOutputs)
          /\ Decided(r, /\ certs[exec[r].cert].at < o.at
                        /\ o.config.place = exec[r].graph.deploy.place)
  /\ UNCHANGED <<runVars, rowVars, deployed, userVars, events>>

\* The certificate is not there any more.
DeployLacksInput(r) ==
  /\ Enters(r, "deploy") /\ certs[exec[r].cert].gone
  /\ Over(r, "ended")
  /\ UNCHANGED <<rowVars, deployed, userVars, events>>

PutOnTarget(r) == deployed' = [deployed EXCEPT ![Target(exec[r].graph.deploy)] = exec[r].cert]

Deploy(r) ==
  /\ exec[r].pc = "deploying"
  /\ PutOnTarget(r)
  /\ exec' = [exec EXCEPT ![r].pc = "record"]
  /\ UNCHANGED <<runVars, rowVars, userVars, events>>

\* The provider fails, before or after the certificate is in place.
DeployFails(r) ==
  /\ exec[r].pc = "deploying" /\ Event("fail")
  /\ PutOnTarget(r) \/ UNCHANGED deployed
  /\ Fail(r)
  /\ UNCHANGED <<rowVars, userVars>>

SaveDeployOutput(r) ==
  /\ exec[r].pc = "record"
  /\ deployOutputs' = IF Fresh(r)
       THEN deployOutputs \cup {[run |-> r, config |-> exec[r].graph.deploy, at |-> clock]}
       ELSE deployOutputs
  /\ clock' = clock + 1
  /\ exec' = [exec EXCEPT ![r].pc = "notify"]
  /\ UNCHANGED <<runVars, certs, issued, applyOutputs, deployed, userVars, events>>

-----------------------------------------------------------------------------
(* The notify node, with SkipOnAllPrevSkipped; then the End node. *)

Notify(r) ==
  /\ Enters(r, "notify")
  /\ exec' = [exec EXCEPT ![r].pc = "over",
                ![r].notice = IF exec[r].skips = {TRUE} THEN "skipped" ELSE "sent"]
  /\ row' = IF Fresh(r) THEN [row EXCEPT ![r] = "ended"] ELSE row
  /\ ended' = IF Fresh(r) THEN Append(ended, r) ELSE ended
  /\ UNCHANGED <<rowVars, deployed, userVars, events>>

-----------------------------------------------------------------------------
(* What happens meanwhile. *)

\* A run is canceled: its row is saved without endedAt, its executor told to stop.
Cancel(r) ==
  /\ Event("cancel") /\ row[r] = "active"
  /\ row' = [row EXCEPT ![r] = "canceled"]
  /\ exec' = [exec EXCEPT ![r].stopped = TRUE]
  /\ UNCHANGED <<ended, rowVars, deployed, userVars>>

\* The process is killed; the rows stay.
Crash ==
  /\ Event("crash")
  /\ exec' = [r \in Runs |->
       IF exec[r].pc = "idle" THEN exec[r] ELSE [exec[r] EXCEPT !.pc = "over"]]
  /\ revoking' = NoCopy
  /\ UNCHANGED <<runVars, rowVars, deployed, graph, due>>

BecomesDue(c) ==
  /\ Event("due") /\ c <= issued /\ c \notin due
  /\ due' = due \cup {c}
  /\ UNCHANGED <<runVars, exec, rowVars, deployed, graph, revoking>>

EditApply(config) ==
  /\ Event("editApply") /\ config # graph.apply
  /\ graph' = [graph EXCEPT !.apply = config]
  /\ UNCHANGED <<runVars, exec, rowVars, deployed, due, revoking>>

EditDeploy(config) ==
  /\ Event("editDeploy") /\ config # graph.deploy
  /\ graph' = [graph EXCEPT !.deploy = config]
  /\ UNCHANGED <<runVars, exec, rowVars, deployed, due, revoking>>

\* RevokeCertificate: the row is read, the CA asked, the whole row saved.
RevokeRead(c) ==
  /\ Event("revoke") /\ revoking = NoCopy /\ ~certs[c].gone /\ ~certs[c].revoked
  /\ revoking' = [CopyOf(c) EXCEPT !.revoked = TRUE]
  /\ UNCHANGED <<runVars, exec, rowVars, deployed, graph, due>>

RevokeSave ==
  /\ revoking # NoCopy
  /\ SaveCopy(revoking)
  /\ revoking' = NoCopy
  /\ UNCHANGED <<runVars, exec, issued, applyOutputs, deployOutputs, clock, deployed,
                 graph, due, events>>

\* Mutant: the outputs of the runs stay.
CleanupRunsOnly(k) ==
  LET expired == {r \in Runs : row[r] = "canceled" \/ \E i \in 1..k : ended[i] = r}
  IN
  /\ Event("cleanup") /\ expired # {}
  /\ row' = [r \in Runs |-> IF r \in expired THEN "gone" ELSE row[r]]
  /\ ended' = SubSeq(ended, k + 1, Len(ended))
  /\ certs' = [c \in Certs |->
       IF certs[c].run \in expired THEN [certs[c] EXCEPT !.run = NoRun] ELSE certs[c]]
  /\ UNCHANGED <<applyOutputs, deployOutputs, exec, issued, clock, deployed, userVars>>

\* cleanupHistoryRuns: the finished runs whose endedAt is before some time, and an
\* empty endedAt is before every time.  The outputs of these runs go with them,
\* their certificates stay.
CleanupRuns(k) ==
  LET expired == {r \in Runs : row[r] = "canceled" \/ \E i \in 1..k : ended[i] = r}
  IN
  /\ Event("cleanup") /\ expired # {}
  /\ row' = [r \in Runs |-> IF r \in expired THEN "gone" ELSE row[r]]
  /\ ended' = SubSeq(ended, k + 1, Len(ended))
  /\ certs' = [c \in Certs |->
       IF certs[c].run \in expired THEN [certs[c] EXCEPT !.run = NoRun] ELSE certs[c]]
  /\ applyOutputs' = {o \in applyOutputs : o.run \notin expired}
  /\ deployOutputs' = {o \in deployOutputs : o.run \notin expired}
  /\ UNCHANGED <<exec, issued, clock, deployed, userVars>>

\* A user or cleanupExpiredCertificates deletes a certificate.
DeleteCertificate(c) ==
  /\ Event("delete") /\ ~certs[c].gone
  /\ certs' = [certs EXCEPT ![c].gone = TRUE]
  /\ UNCHANGED <<runVars, exec, issued, applyOutputs, deployOutputs, clock, deployed,
                 userVars>>

-----------------------------------------------------------------------------

RunStep(r) ==
  \/ StartRun(r) \/ NoticeCancel(r)
  \/ ApplyLookup(r) \/ ApplyDecide(r) \/ RequestCertificate(r) \/ RequestFails(r)
  \/ SaveRenewed(r) \/ SaveApplyOutput(r)
  \/ DeployDecide(r) \/ DeployLacksInput(r) \/ Deploy(r) \/ DeployFails(r)
  \/ SaveDeployOutput(r)
  \/ Notify(r)

Next ==
  \/ \E r \in Runs : RunStep(r) \/ Cancel(r)
  \/ \E c \in Certs : BecomesDue(c) \/ RevokeRead(c) \/ DeleteCertificate(c)
  \/ RevokeSave
  \/ Crash
  \/ \E config \in ApplyConfigs : EditApply(config)
  \/ \E config \in DeployConfigs : EditDeploy(config)
  \/ \E k \in 0..Len(ended) : CleanupRuns(k)

Spec == Init /\ [][Next]_vars

-----------------------------------------------------------------------------
(* Properties that hold. *)

\* The certificate the apply node hands on was requested with this run's
\* configuration, though it is found through two tables, by the output's run.
CertificateFitsConfig ==
  \A r \in Runs : exec[r].cert # NoCert =>
    certs[exec[r].cert].config = exec[r].graph.apply

\* Every output of the apply node leads to a certificate of its configuration,
\* unless that has been deleted: the retention of runs takes both away together.
OutputsLeadToCertificates ==
  \A o \in applyOutputs :
    \E c \in Certs : certs[c].run = o.run /\ certs[c].config = o.config

\* When a run has passed its deploy node, skipped or not, the target it is
\* configured for has the certificate of this run.  (Of runs that do not overlap
\* and keep their rows, and unless the deployment provider is changed: see the
\* properties below.)
PassedIsDeployed ==
  \A r \in Runs : exec[r].pc = "notify" =>
    deployed[Target(exec[r].graph.deploy)] = exec[r].cert

\* A certificate is requested only when the newest one is of no use: it was asked
\* for otherwise, is revoked, due or deleted, or the run that requested it left no
\* output.  (Of runs that do not overlap.)
RequestsAreNeeded ==
  [][\A r \in Runs : RequestCertificate(r) /\ issued > 0 =>
       \/ certs[issued].config # exec[r].graph.apply
       \/ certs[issued].revoked \/ certs[issued].gone \/ issued \in due
       \/ ~\E o \in applyOutputs : o.run = certs[issued].run]_vars

-----------------------------------------------------------------------------
(* The inductive invariant behind the first two.                              *)

\* Only saved certificates are found or handed on.
CertsOK ==
  /\ \A c \in Certs : certs[c].run # NoRun => c <= issued
  /\ \A r \in Runs : exec[r].cert <= issued

\* What a run requests is configured by its copy of the graph.
RequestedOK ==
  \A c \in Certs : certs[c].run # NoRun =>
    /\ exec[certs[c].run].pc # "idle"
    /\ certs[c].config = exec[certs[c].run].graph.apply

\* An output has that configuration too; its run and a certificate are there.
OutputsOK ==
  \A o \in applyOutputs :
    /\ exec[o.run].pc # "idle" /\ o.config = exec[o.run].graph.apply
    /\ Fresh(o.run) /\ \E c \in Certs : certs[c].run = o.run

ExecOK ==
  \A r \in Runs :
    /\ exec[r].pc \in {"idle", "apply"} => exec[r].cert = NoCert /\ exec[r].last = NoRun
    /\ exec[r].pc = "decide" /\ exec[r].same /\ exec[r].last # NoRun =>
         /\ exec[exec[r].last].pc # "idle"
         /\ exec[exec[r].last].graph.apply = exec[r].graph.apply
    /\ exec[r].pc = "renew" => exec[r].old.id # NoCert
    /\ exec[r].pc \in {"renew", "save"} /\ Fresh(r) =>
         exec[r].cert # NoCert /\ certs[exec[r].cert].run = r

RevokingOK == revoking # NoCopy => revoking.id # NoCert

RenewalInv ==
  /\ TypeOK /\ CertsOK /\ RequestedOK /\ OutputsOK /\ ExecOK /\ RevokingOK
  /\ CertificateFitsConfig

-----------------------------------------------------------------------------
(* Properties the repository states and the code does not have. *)

\* executor_bizdeploy.go:136: a deployment is skipped when "the last deployment
\* already completed".
SkippedIsDeployed ==
  [][\A r \in Runs : exec[r].pc = "deploy" /\ exec'[r].pc = "notify" =>
       deployed[Target(exec[r].graph.deploy)] = exec[r].cert]_vars

\* executor_biznotify.go:105: a notification is skipped when "all the previous
\* nodes have been skipped".
SkippedNoticeHidesNothing ==
  \A r \in Runs : exec[r].notice = "skipped" =>
    \A o \in deployOutputs : o.run # r

\* executor_bizapply.go:127: what is saved is the ARI replacement of the old
\* certificate; its revocation stays.
RevokedStaysRevoked ==
  [][\A c \in Certs : certs[c].revoked => certs'[c].revoked]_vars
=============================================================================
