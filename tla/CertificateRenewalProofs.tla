---------------------- MODULE CertificateRenewalProofs ----------------------
(* For every set of runs and configurations, and any number of disturbances.   *)
(* RenewalInv is inductive; where runs do not overlap, SequelInv and PassedInv *)
(* say what one run may rely on of those before it.                            *)
EXTENDS CertificateRenewal, TLAPS

\* The numbers that stand for nothing are nobody's.
LEMMA RunsArePositive == NoRun \notin Runs /\ NoCert \notin Certs
BY RunsAssumption DEF NoRun, NoCert, Certs

\* The initial states satisfy the invariant.
LEMMA InitInv == Init => RenewalInv
<1> SUFFICES ASSUME Init PROVE RenewalInv
  OBVIOUS
<1> USE BoundsAssumption
<1>1. IdleExec \in ExecState /\ IdleExec.pc = "idle"
     /\ IdleExec.cert = NoCert /\ IdleExec.last = NoRun
  BY DEF Init, IdleExec, ExecState, NoCopy, RowCopy, Graphs
<1>2. TypeOK
  BY <1>1 DEF Init, TypeOK, NoRow, NoCopy, RowCopy, CertRow, RowState
<1>3. CertsOK /\ RequestedOK
  BY <1>1, <1>2 DEF Init, CertsOK, RequestedOK, NoRow, NoCert
<1>4. OutputsOK /\ ExecOK /\ RevokingOK /\ CertificateFitsConfig
  BY <1>1, <1>2 DEF Init, OutputsOK, ExecOK, RevokingOK, CertificateFitsConfig
<1> QED
  BY <1>2, <1>3, <1>4 DEF RenewalInv

-----------------------------------------------------------------------------
(* Types. *)

\* Saving flags keeps a certificate's row a row.
LEMMA SavedFlags ==
  ASSUME NEW k \in CertRow, NEW renewed \in BOOLEAN, NEW revoked \in BOOLEAN
  PROVE  /\ [k EXCEPT !.renewed = renewed, !.revoked = revoked] \in CertRow
         /\ [k EXCEPT !.run = NoRun] \in CertRow /\ [k EXCEPT !.gone = TRUE] \in CertRow
BY DEF CertRow

\* So does saving a copy of it.
LEMMA SavedCopy ==
  ASSUME certs \in [Certs -> CertRow], NEW copy \in RowCopy, SaveCopy(copy)
  PROVE  /\ certs' \in [Certs -> CertRow]
         /\ \A c \in Certs : certs'[c].run = certs[c].run /\ certs'[c].config = certs[c].config
<1>1. CASE copy.id \in Certs
  <2>1. certs[copy.id] \in CertRow /\ copy.renewed \in BOOLEAN /\ copy.revoked \in BOOLEAN
    BY <1>1 DEF RowCopy
  <2> DEFINE k == [certs[copy.id] EXCEPT !.renewed = copy.renewed, !.revoked = copy.revoked]
  <2>2. k \in CertRow
    BY <2>1, SavedFlags
  <2>3. k.run = certs[copy.id].run /\ k.config = certs[copy.id].config
    BY <2>1 DEF CertRow
  <2>4. certs' = certs \/ certs' = [certs EXCEPT ![copy.id] = k]
    BY <1>1 DEF SaveCopy
  <2> QED
    BY <2>2, <2>3, <2>4
<1>2. CASE copy.id \notin Certs
  BY <1>2 DEF SaveCopy
<1> QED
  BY <1>1, <1>2

\* A copy of a row is one.
LEMMA CopyTyped ==
  ASSUME certs \in [Certs -> CertRow], NEW c \in Certs
  PROVE  CopyOf(c) \in RowCopy /\ [CopyOf(c) EXCEPT !.revoked = TRUE] \in RowCopy
BY DEF CopyOf, RowCopy, CertRow

\* Every step of an executor keeps the types.
LEMMA TypeRunStep ==
  ASSUME TypeOK, NEW r \in Runs, RunStep(r)
  PROVE  TypeOK'
<1> USE BoundsAssumption
<1> DEFINE ExecTyped == exec' \in [Runs -> ExecState]
<1>a. /\ exec \in [Runs -> ExecState] /\ exec[r] \in ExecState
      /\ exec[r].graph \in Graphs /\ exec[r].old \in RowCopy
      /\ exec[r].graph.apply \in ApplyConfigs /\ exec[r].graph.deploy \in DeployConfigs
  BY DEF TypeOK, ExecState, Graphs
<1>p. \A pc \in {"decide", "save", "deploy", "record", "notify", "over"} :
        [exec[r] EXCEPT !.pc = pc] \in ExecState
  BY <1>a DEF ExecState
<1>b. ASSUME NEW status \in {"ended", "canceled"}, Over(r, status)
      PROVE  ExecTyped /\ ended' \in Seq(Runs) /\ row' \in [Runs -> RowState]
  <2>1. ExecTyped
    BY <1>b, <1>a, <1>p DEF Over
  <2>2. ended' \in Seq(Runs) /\ row' \in [Runs -> RowState]
    BY <1>b DEF TypeOK, Over, RowState
  <2> QED
    BY <2>1, <2>2
<1>1. CASE StartRun(r)
  <2>1. ExecTyped
    <3>1. [exec[r] EXCEPT !.pc = "apply", !.graph = graph] \in ExecState
      BY <1>a DEF ExecState, TypeOK
    <3> QED
      BY <1>1, <1>a, <3>1 DEF StartRun
  <2>2. row' \in [Runs -> RowState]
    BY <1>1 DEF StartRun, TypeOK, RowState
  <2> QED
    BY <1>1, <2>1, <2>2 DEF StartRun, TypeOK, rowVars, userVars
<1>2. CASE NoticeCancel(r)
  BY <1>2, <1>b DEF NoticeCancel, TypeOK, rowVars, userVars
<1>3. CASE ApplyLookup(r)
  <2>1. ExecTyped
    <3>1. \A o \in applyOutputs : \A same \in BOOLEAN :
            [exec[r] EXCEPT !.pc = "decide", !.last = o.run, !.same = same] \in ExecState
      BY <1>a DEF TypeOK, ApplyOutput, ExecState
    <3>2. CASE exec' = [exec EXCEPT ![r].pc = "decide"]
      BY <3>2, <1>a, <1>p
    <3>3. ASSUME NEW o \in applyOutputs, NEW same \in BOOLEAN, Found(r, o, same)
          PROVE  ExecTyped
      BY <3>3, <1>a, <3>1 DEF Found
    <3> QED
      BY <1>3, <3>2, <3>3 DEF ApplyLookup
  <2> QED
    BY <1>3, <2>1 DEF ApplyLookup, TypeOK, runVars, rowVars, userVars
<1>4. CASE ApplyDecide(r)
  <2>1. ExecTyped
    <3>1. [exec[r] EXCEPT !.pc = "request", !.skips = {FALSE}] \in ExecState
      BY <1>a DEF ExecState
    <3>2. ASSUME NEW c \in Certs
          PROVE  [exec[r] EXCEPT !.pc = "deploy", !.cert = c, !.skips = {TRUE}] \in ExecState
      BY <1>a DEF ExecState
    <3>3. ASSUME NEW c \in Certs
          PROVE  [exec[r] EXCEPT !.pc = "request", !.skips = {FALSE},
                    !.old = CopyOf(c)] \in ExecState
      <4>1. CopyOf(c) \in RowCopy
        BY CopyTyped DEF TypeOK
      <4> QED
        BY <1>a, <4>1 DEF ExecState
    <3> QED
      BY <1>4, <1>a, <3>1, <3>2, <3>3 DEF ApplyDecide, Saved
  <2> QED
    BY <1>4, <2>1 DEF ApplyDecide, TypeOK, runVars, rowVars, userVars
<1>5. CASE RequestCertificate(r)
  <2>1. issued + 1 \in Certs
    BY <1>5 DEF RequestCertificate, TypeOK, Certs
  <2>2. ExecTyped
    <3>1. \A pc \in {"renew", "save"} :
            [exec[r] EXCEPT !.cert = issued + 1, !.pc = pc] \in ExecState
      BY <1>a, <2>1 DEF ExecState
    <3> QED
      BY <1>5, <1>a, <3>1 DEF RequestCertificate
  <2>3. certs' \in [Certs -> CertRow]
    BY <1>5, <2>1, <1>a DEF RequestCertificate, TypeOK, CertRow
  <2> QED
    BY <1>5, <2>1, <2>2, <2>3 DEF RequestCertificate, TypeOK, runVars, userVars, Certs
<1>6. CASE RequestFails(r)
  BY <1>6, <1>b DEF RequestFails, Fail, Event, TypeOK, rowVars, userVars
<1>7. CASE SaveRenewed(r)
  <2>1. ExecTyped
    BY <1>7, <1>a, <1>p DEF SaveRenewed
  <2>2. certs' \in [Certs -> CertRow]
    <3>1. [exec[r].old EXCEPT !.renewed = TRUE] \in RowCopy
      BY <1>a DEF RowCopy
    <3> QED
      BY <1>7, <3>1, SavedCopy DEF SaveRenewed, TypeOK
  <2> QED
    BY <1>7, <2>1, <2>2 DEF SaveRenewed, TypeOK, runVars, userVars
<1>8. CASE SaveApplyOutput(r)
  <2>1. ExecTyped
    BY <1>8, <1>a, <1>p DEF SaveApplyOutput
  <2> QED
    BY <1>8, <2>1, <1>a DEF SaveApplyOutput, TypeOK, ApplyOutput, runVars, userVars
<1>9. CASE DeployDecide(r)
  <2>1. ExecTyped
    <3>1. \A pc \in {"notify", "deploying"} : \A value \in BOOLEAN :
            /\ [exec[r] EXCEPT !.pc = pc, !.skips = @ \cup {value}] \in ExecState
            /\ [exec[r] EXCEPT !.pc = pc, !.skips = @] \in ExecState
      BY <1>a, ZenonT(60) DEF ExecState
    <3>2. ASSUME NEW alike \in BOOLEAN, Decided(r, alike) PROVE ExecTyped
      BY <3>1, <3>2, <1>a DEF Decided
    <3> QED
      BY <1>9, <3>2 DEF DeployDecide
  <2> QED
    BY <1>9, <2>1 DEF DeployDecide, TypeOK, runVars, rowVars, userVars
<1>10. CASE DeployLacksInput(r)
  BY <1>10, <1>b DEF DeployLacksInput, TypeOK, rowVars, userVars
<1>c. PutOnTarget(r) => deployed' \in [Targets -> {NoCert} \cup Certs]
  BY <1>a DEF PutOnTarget, TypeOK, ExecState
<1>11. CASE Deploy(r)
  <2>1. ExecTyped
    BY <1>11, <1>a, <1>p DEF Deploy
  <2> QED
    BY <1>11, <2>1, <1>c DEF Deploy, TypeOK, runVars, rowVars, userVars
<1>12. CASE DeployFails(r)
  <2>1. deployed' \in [Targets -> {NoCert} \cup Certs]
    BY <1>12, <1>c DEF DeployFails, TypeOK
  <2> QED
    BY <1>12, <2>1, <1>b DEF DeployFails, Fail, Event, TypeOK, rowVars, userVars
<1>13. CASE SaveDeployOutput(r)
  <2>1. ExecTyped
    BY <1>13, <1>a, <1>p DEF SaveDeployOutput
  <2> QED
    BY <1>13, <2>1, <1>a DEF SaveDeployOutput, TypeOK, DeployOutput, runVars, userVars
<1>14. CASE Notify(r)
  <2>1. ExecTyped
    <3>1. \A notice \in {"skipped", "sent"} :
            [exec[r] EXCEPT !.pc = "over", !.notice = notice] \in ExecState
      BY <1>a DEF ExecState
    <3> QED
      BY <1>14, <1>a, <3>1 DEF Notify
  <2>2. ended' \in Seq(Runs) /\ row' \in [Runs -> RowState]
    BY <1>14 DEF Notify, TypeOK, RowState
  <2> QED
    BY <1>14, <2>1, <2>2 DEF Notify, TypeOK, rowVars, userVars
<1> QED
  BY <1>1, <1>2, <1>3, <1>4, <1>5, <1>6, <1>7, <1>8, <1>9, <1>10, <1>11, <1>12, <1>13,
     <1>14 DEF RunStep

\* And so does whatever happens meanwhile.
LEMMA TypeOtherStep ==
  ASSUME TypeOK, Next, \A r \in Runs : ~RunStep(r)
  PROVE  TypeOK'
<1> USE BoundsAssumption
<1> DEFINE CertsTyped == certs' \in [Certs -> CertRow]
<1>1. ASSUME NEW r \in Runs, Cancel(r) PROVE TypeOK'
  <2>a. exec[r] \in ExecState
    BY DEF TypeOK
  <2>1. [exec[r] EXCEPT !.stopped = TRUE] \in ExecState
    BY <2>a DEF ExecState
  <2>2. exec' \in [Runs -> ExecState]
    BY <1>1, <2>1 DEF Cancel, TypeOK
  <2>3. row' \in [Runs -> RowState]
    BY <1>1 DEF Cancel, TypeOK, RowState
  <2> QED
    BY <1>1, <2>2, <2>3 DEF Cancel, Event, TypeOK, rowVars, userVars
<1>2. CASE Crash
  <2>1. exec' \in [Runs -> ExecState]
    <3>1. \A s \in Runs : [exec[s] EXCEPT !.pc = "over"] \in ExecState
      BY SMTT(30) DEF TypeOK, ExecState
    <3> QED
      BY <1>2, <3>1 DEF Crash, TypeOK
  <2> QED
    BY <1>2, <2>1 DEF Crash, Event, TypeOK, runVars, rowVars, NoCopy, RowCopy
<1>3. ASSUME NEW c \in Certs, BecomesDue(c) PROVE TypeOK'
  BY <1>3 DEF BecomesDue, Event, TypeOK, runVars, rowVars
<1>4. ASSUME NEW c \in Certs, RevokeRead(c) PROVE TypeOK'
  <2>1. revoking' \in RowCopy
    BY <1>4, CopyTyped DEF RevokeRead, TypeOK
  <2> QED
    BY <1>4, <2>1 DEF RevokeRead, Event, TypeOK, runVars, rowVars
<1>5. ASSUME NEW c \in Certs, DeleteCertificate(c) PROVE TypeOK'
  <2>1. CertsTyped
    BY <1>5, SavedFlags DEF DeleteCertificate, TypeOK
  <2> QED
    BY <1>5, <2>1 DEF DeleteCertificate, Event, TypeOK, runVars, userVars
<1>6. CASE RevokeSave
  <2>1. CertsTyped
    BY <1>6, SavedCopy DEF RevokeSave, TypeOK
  <2> QED
    BY <1>6, <2>1 DEF RevokeSave, TypeOK, runVars, NoCopy, RowCopy
<1>7. ASSUME NEW config \in ApplyConfigs, EditApply(config) PROVE TypeOK'
  <2>1. graph' \in Graphs
    <3>1. graph \in Graphs
      BY DEF TypeOK
    <3>2. [graph EXCEPT !.apply = config] \in Graphs
      BY <3>1 DEF Graphs
    <3> QED
      BY <1>7, <3>2 DEF EditApply
  <2>2. /\ events' \in 0..MaxEvents
        /\ UNCHANGED <<row, ended, exec, certs, issued, applyOutputs, deployOutputs, clock,
                       deployed, due, revoking>>
    BY <1>7 DEF EditApply, Event, TypeOK, runVars, rowVars
  <2> QED
    BY <2>1, <2>2 DEF TypeOK
<1>8. ASSUME NEW config \in DeployConfigs, EditDeploy(config) PROVE TypeOK'
  <2>1. graph' \in Graphs
    <3>1. graph \in Graphs
      BY DEF TypeOK
    <3>2. [graph EXCEPT !.deploy = config] \in Graphs
      BY <3>1 DEF Graphs
    <3> QED
      BY <1>8, <3>2 DEF EditDeploy
  <2>2. /\ events' \in 0..MaxEvents
        /\ UNCHANGED <<row, ended, exec, certs, issued, applyOutputs, deployOutputs, clock,
                       deployed, due, revoking>>
    BY <1>8 DEF EditDeploy, Event, TypeOK, runVars, rowVars
  <2> QED
    BY <2>1, <2>2 DEF TypeOK
<1>9. ASSUME NEW k \in 0..Len(ended), CleanupRuns(k) PROVE TypeOK'
  <2>1. CertsTyped
    BY <1>9, SavedFlags DEF CleanupRuns, TypeOK
  <2>2. ended' \in Seq(Runs)
    BY <1>9 DEF CleanupRuns, TypeOK
  <2>3. row' \in [Runs -> RowState]
    BY <1>9 DEF CleanupRuns, TypeOK, RowState
  <2> QED
    BY <1>9, <2>1, <2>2, <2>3, SMTT(30) DEF CleanupRuns, Event, TypeOK, userVars
<1> QED
  BY <1>1, <1>2, <1>3, <1>4, <1>5, <1>6, <1>7, <1>8, <1>9 DEF Next

-----------------------------------------------------------------------------
(* The rest of the invariant. *)

Rest == CertsOK /\ RequestedOK /\ OutputsOK /\ ExecOK /\ RevokingOK /\ CertificateFitsConfig

\* Most steps of an executor only take it further: they save no row that matters,
\* keep its graph, and leave runs that have a row with one.
LEMMA ExecStep ==
  ASSUME RenewalInv, TypeOK', NEW r \in Runs,
         UNCHANGED <<certs, issued, applyOutputs, revoking>>,
         \A s \in Runs : s # r => exec'[s] = exec[s],
         \A s \in Runs : Fresh(s)' <=> Fresh(s),
         exec[r].pc # "idle", exec'[r].pc \notin {"idle", "apply"}, exec'[r].graph = exec[r].graph,
         exec'[r].cert # NoCert =>
           exec'[r].cert <= issued /\ certs[exec'[r].cert].config = exec[r].graph.apply,
         exec'[r].pc = "decide" /\ exec'[r].same /\ exec'[r].last # NoRun =>
           /\ exec[exec'[r].last].pc # "idle"
           /\ exec[exec'[r].last].graph.apply = exec[r].graph.apply,
         exec'[r].pc = "renew" => exec'[r].old.id # NoCert,
         exec'[r].pc \in {"renew", "save"} => exec[r].pc = "renew" /\ exec'[r].cert = exec[r].cert
  PROVE  Rest'
<1>a. \A s \in Runs : /\ exec'[s].pc = "idle" <=> exec[s].pc = "idle"
                      /\ exec'[s].graph = exec[s].graph
  OBVIOUS
<1>b. \A s \in Runs : exec'[s].last \in {NoRun} \cup Runs
  BY DEF TypeOK, ExecState
<1>c. /\ \A c \in Certs : certs[c].run \in {NoRun} \cup Runs
      /\ issued \in Nat
      /\ \A o \in applyOutputs : o.run \in Runs
  BY BoundsAssumption DEF RenewalInv, TypeOK, CertRow, ApplyOutput
<1>1. CertsOK'
  BY <1>c DEF RenewalInv, CertsOK, NoCert
<1>2. RequestedOK'
  BY <1>a, <1>c DEF RenewalInv, RequestedOK
<1>3. OutputsOK'
  BY <1>a, <1>c DEF RenewalInv, OutputsOK
<1>4. ExecOK'
  BY <1>a, <1>b DEF RenewalInv, ExecOK
<1>5. RevokingOK' /\ CertificateFitsConfig'
  BY <1>a DEF RenewalInv, RevokingOK, CertificateFitsConfig
<1> QED
  BY <1>1, <1>2, <1>3, <1>4, <1>5 DEF Rest

\* An executor that ends leaves everything else alone.
LEMMA OverStep ==
  ASSUME RenewalInv, TypeOK', NEW r \in Runs, exec[r].pc # "idle",
         UNCHANGED <<certs, issued, applyOutputs, revoking>>,
         \E status \in {"ended", "canceled"} : Over(r, status)
  PROVE  Rest'
<1>1. /\ \A s \in Runs : s # r => exec'[s] = exec[s]
      /\ exec'[r].pc = "over" /\ exec'[r].graph = exec[r].graph
      /\ exec'[r].cert = exec[r].cert
  BY DEF Over, RenewalInv, TypeOK, ExecState
<1>2. \A s \in Runs : Fresh(s)' <=> Fresh(s)
  BY DEF Over, Fresh, RenewalInv, TypeOK
<1>3. exec[r].cert # NoCert =>
        exec[r].cert <= issued /\ certs[exec[r].cert].config = exec[r].graph.apply
  BY DEF RenewalInv, CertsOK, CertificateFitsConfig
<1> QED
  BY <1>1, <1>2, <1>3, ExecStep

\* Neither does one that only goes on to a later point of its run.
LEMMA GotoStep ==
  ASSUME RenewalInv, TypeOK', NEW r \in Runs, exec[r].pc # "idle",
         UNCHANGED <<row, certs, issued, applyOutputs, revoking>>,
         \A s \in Runs : s # r => exec'[s] = exec[s],
         exec'[r].pc \in {"deploying", "record", "notify", "over"},
         exec'[r].graph = exec[r].graph, exec'[r].cert = exec[r].cert
  PROVE  Rest'
<1>1. \A s \in Runs : Fresh(s)' <=> Fresh(s)
  BY DEF Fresh
<1>2. exec[r].cert # NoCert =>
        exec[r].cert <= issued /\ certs[exec[r].cert].config = exec[r].graph.apply
  BY DEF RenewalInv, CertsOK, CertificateFitsConfig
<1> QED
  BY <1>1, <1>2, ExecStep

\* The apply node.
LEMMA ApplySteps ==
  ASSUME RenewalInv, TypeOK', NEW r \in Runs, ApplyLookup(r) \/ ApplyDecide(r)
  PROVE  Rest'
<1>a. /\ exec \in [Runs -> ExecState] /\ exec[r] \in ExecState
      /\ exec[r].pc \in {"apply", "decide"}
      /\ UNCHANGED <<row, certs, issued, applyOutputs, revoking>>
  BY DEF RenewalInv, TypeOK, ApplyLookup, ApplyDecide, Enters, runVars, rowVars, userVars
<1>b. \A s \in Runs : Fresh(s)' <=> Fresh(s)
  BY <1>a DEF Fresh
<1>1. CASE ApplyLookup(r)
  <2>1. exec[r].cert = NoCert /\ exec[r].last = NoRun
    BY <1>1 DEF ApplyLookup, Enters, RenewalInv, ExecOK
  <2>2. CASE exec' = [exec EXCEPT ![r].pc = "decide"]
    <3>1. /\ \A s \in Runs : s # r => exec'[s] = exec[s]
          /\ exec'[r].pc = "decide" /\ exec'[r].graph = exec[r].graph
          /\ exec'[r].cert = NoCert /\ exec'[r].last = NoRun
      BY <1>a, <2>1, <2>2 DEF ExecState
    <3> QED
      BY <1>a, <1>b, <3>1, ExecStep
  <2>3. ASSUME NEW o \in applyOutputs, Found(r, o, o.config = exec[r].graph.apply)
        PROVE  Rest'
    <3>1. /\ \A s \in Runs : s # r => exec'[s] = exec[s]
          /\ exec'[r].pc = "decide" /\ exec'[r].graph = exec[r].graph
          /\ exec'[r].cert = NoCert /\ exec'[r].last = o.run
          /\ exec'[r].same <=> o.config = exec[r].graph.apply
      BY <1>a, <2>1, <2>3 DEF Found, ExecState
    <3>2. exec[o.run].pc # "idle" /\ o.config = exec[o.run].graph.apply
      BY DEF RenewalInv, OutputsOK
    <3> QED
      BY <1>a, <1>b, <3>1, <3>2, ExecStep
  <2> QED
    BY <1>1, <2>2, <2>3 DEF ApplyLookup
<1>2. CASE ApplyDecide(r)
  <2>1. exec[r].cert # NoCert =>
          exec[r].cert <= issued /\ certs[exec[r].cert].config = exec[r].graph.apply
    BY DEF RenewalInv, CertsOK, CertificateFitsConfig
  <2>2. CASE exec' = [exec EXCEPT ![r].pc = "request", ![r].skips = {FALSE}]
    <3>1. /\ \A s \in Runs : s # r => exec'[s] = exec[s]
          /\ exec'[r].pc = "request" /\ exec'[r].graph = exec[r].graph
          /\ exec'[r].cert = exec[r].cert
      BY <1>a, <2>2 DEF ExecState
    <3> QED
      BY <1>a, <1>b, <2>1, <3>1, ExecStep
  <2>3. ASSUME NEW c \in Saved(exec[r].last), exec[r].last # NoRun, exec[r].same,
               exec' = [exec EXCEPT ![r].pc = "deploy", ![r].cert = c, ![r].skips = {TRUE}]
        PROVE  Rest'
    <3>1. /\ \A s \in Runs : s # r => exec'[s] = exec[s]
          /\ exec'[r].pc = "deploy" /\ exec'[r].graph = exec[r].graph
          /\ exec'[r].cert = c
      BY <1>a, <2>3 DEF ExecState
    <3>2. c \in Certs /\ certs[c].run = exec[r].last
      BY DEF Saved
    <3>3. c <= issued /\ certs[c].config = exec[exec[r].last].graph.apply
      BY <3>2, <2>3 DEF RenewalInv, CertsOK, RequestedOK
    <3>4. exec[exec[r].last].graph.apply = exec[r].graph.apply
      BY <1>2, <2>3 DEF ApplyDecide, RenewalInv, ExecOK
    <3> QED
      BY <1>a, <1>b, <3>1, <3>3, <3>4, ExecStep
  <2>4. ASSUME NEW c \in Certs,
               exec' = [exec EXCEPT ![r].pc = "request", ![r].skips = {FALSE},
                          ![r].old = CopyOf(c)]
        PROVE  Rest'
    <3>1. /\ \A s \in Runs : s # r => exec'[s] = exec[s]
          /\ exec'[r].pc = "request" /\ exec'[r].graph = exec[r].graph
          /\ exec'[r].cert = exec[r].cert
      BY <1>a, <2>4 DEF ExecState
    <3> QED
      BY <1>a, <1>b, <2>1, <3>1, ExecStep
  <2> QED
    BY <1>2, <2>2, <2>3, <2>4 DEF ApplyDecide, Saved
<1> QED
  BY <1>1, <1>2

\* A step that changes only flags of certificates' rows and goes no further than
\* the saving of the output.
LEMMA FlagStep ==
  ASSUME RenewalInv, TypeOK', UNCHANGED <<row, issued, applyOutputs>>,
         \A c \in Certs : certs'[c].run = certs[c].run /\ certs'[c].config = certs[c].config,
         \A s \in Runs :
           \/ exec'[s] = exec[s]
           \/ /\ exec[s].pc = "renew" /\ exec'[s].pc = "save"
              /\ exec'[s].graph = exec[s].graph /\ exec'[s].cert = exec[s].cert,
         RevokingOK'
  PROVE  Rest'
<1>a. \A s \in Runs : /\ exec'[s].pc = "idle" <=> exec[s].pc = "idle"
                      /\ exec'[s].graph = exec[s].graph /\ exec'[s].cert = exec[s].cert
                      /\ exec[s].last \in {NoRun} \cup Runs
                      /\ exec[s].cert \in {NoCert} \cup Certs
                      /\ Fresh(s)' <=> Fresh(s)
  BY DEF Fresh, RenewalInv, TypeOK, ExecState
<1>b. /\ \A c \in Certs : certs[c].run \in {NoRun} \cup Runs
      /\ \A o \in applyOutputs : o.run \in Runs
  BY DEF RenewalInv, TypeOK, CertRow, ApplyOutput
<1>1. CertsOK' /\ RequestedOK'
  BY <1>a, <1>b DEF RenewalInv, CertsOK, RequestedOK
<1>2. OutputsOK'
  BY <1>a, <1>b DEF RenewalInv, OutputsOK
<1>3. ExecOK'
  BY <1>a, <1>b DEF RenewalInv, ExecOK
<1>4. CertificateFitsConfig'
  BY <1>a DEF RenewalInv, CertificateFitsConfig
<1> QED
  BY <1>1, <1>2, <1>3, <1>4 DEF Rest

\* No row and no executor is about a run that has not started.
LEMMA StartStep ==
  ASSUME RenewalInv, TypeOK', NEW r \in Runs, StartRun(r)
  PROVE  Rest'
<1>a. /\ exec \in [Runs -> ExecState] /\ exec[r].pc = "idle"
      /\ UNCHANGED <<certs, issued, applyOutputs, revoking>>
  BY DEF RenewalInv, TypeOK, StartRun, rowVars, userVars
<1>b. /\ \A s \in Runs : s # r => exec'[s] = exec[s] /\ (Fresh(s)' <=> Fresh(s))
      /\ exec'[r].pc = "apply" /\ Fresh(r)'
      /\ exec'[r].cert = NoCert /\ exec'[r].last = NoRun
  BY <1>a DEF StartRun, ExecState, Fresh, RenewalInv, TypeOK, ExecOK
<1>c. /\ \A c \in Certs : certs[c].run # NoRun => certs[c].run \in Runs \ {r}
      /\ \A o \in applyOutputs : o.run \in Runs \ {r}
      /\ issued \in Nat
  BY <1>a, BoundsAssumption
  DEF RenewalInv, TypeOK, CertRow, ApplyOutput, RequestedOK, OutputsOK
<1>d. \A s \in Runs : exec[s].last \in {NoRun} \cup Runs
  BY <1>a DEF ExecState
<1>1. CertsOK'
  BY <1>a, <1>b, <1>c DEF RenewalInv, CertsOK, NoCert
<1>2. RequestedOK' /\ OutputsOK'
  BY <1>a, <1>b, <1>c DEF RenewalInv, RequestedOK, OutputsOK
<1>3. ExecOK'
  <2> SUFFICES ASSUME NEW s \in Runs PROVE ExecOK!(s)'
    BY DEF ExecOK
  <2>1. CASE s = r
    BY <2>1, <1>b DEF ExecOK
  <2>2. CASE s # r
    BY <2>2, <1>a, <1>b, <1>d DEF RenewalInv, ExecOK
  <2> QED
    BY <2>1, <2>2
<1>4. RevokingOK' /\ CertificateFitsConfig'
  BY <1>a, <1>b DEF RenewalInv, RevokingOK, CertificateFitsConfig
<1> QED
  BY <1>1, <1>2, <1>3, <1>4 DEF Rest

\* The new certificate has a number nobody has heard of.
LEMMA RequestStep ==
  ASSUME RenewalInv, TypeOK', NEW r \in Runs, RequestCertificate(r)
  PROVE  Rest'
<1> DEFINE c == issued + 1
<1>a. /\ exec \in [Runs -> ExecState] /\ exec[r] \in ExecState /\ exec[r].pc = "request"
      /\ issued \in Nat /\ c \in Certs /\ issued' = c
      /\ UNCHANGED <<row, applyOutputs, revoking>>
  BY BoundsAssumption
  DEF RenewalInv, TypeOK, RequestCertificate, Certs, runVars, userVars
<1>b. /\ \A s \in Runs : s # r => exec'[s] = exec[s]
      /\ exec'[r].pc \in {"renew", "save"} /\ exec'[r].graph = exec[r].graph
      /\ exec'[r].cert = c
      /\ exec'[r].pc = "renew" => exec'[r].old.id # NoCert
  <2>1. PICK replaced \in BOOLEAN :
          /\ replaced => exec[r].old.id # NoCert
          /\ exec' = [exec EXCEPT ![r].cert = c,
                        ![r].pc = IF replaced THEN "renew" ELSE "save"]
    BY DEF RequestCertificate
  <2>2. /\ \A s \in Runs : s # r => exec'[s] = exec[s]
        /\ exec'[r] = [exec[r] EXCEPT !.cert = c, !.pc = IF replaced THEN "renew" ELSE "save"]
    BY <1>a, <2>1
  <2> HIDE DEF c
  <2> QED
    BY <1>a, <2>1, <2>2 DEF ExecState
<1>c. /\ certs'[c].run = r /\ certs'[c].config = exec[r].graph.apply
      /\ \A d \in Certs : d # c => certs'[d] = certs[d]
  BY <1>a DEF RequestCertificate, RenewalInv, TypeOK
<1>d. /\ \A d \in Certs : certs[d].run # NoRun => certs[d].run \in Runs /\ d # c
      /\ \A s \in Runs : exec[s].cert # NoCert => exec[s].cert \in Certs /\ exec[s].cert # c
      /\ \A d \in Certs : d \in Nat
  <2>1. \A d \in Certs : d \in Nat /\ certs[d].run \in {NoRun} \cup Runs
    BY DEF RenewalInv, TypeOK, CertRow, Certs
  <2>2. \A s \in Runs : exec[s].cert \in {NoCert} \cup Certs
    BY <1>a DEF ExecState
  <2>3. \A d \in Certs : d <= issued => d # c
    BY <1>a, <2>1
  <2> QED
    BY <2>1, <2>2, <2>3 DEF RenewalInv, CertsOK
<1>e. /\ \A o \in applyOutputs : o.run \in Runs
      /\ \A s \in Runs : exec[s].last \in {NoRun} \cup Runs
      /\ \A s \in Runs : exec'[s].pc = "idle" <=> exec[s].pc = "idle"
      /\ \A s \in Runs : exec'[s].graph = exec[s].graph
      /\ NoRun \notin Runs /\ c # NoCert
  BY <1>a, <1>b, RunsArePositive DEF RenewalInv, TypeOK, ApplyOutput, ExecState
<1>1. CertsOK'
  <2>1. \A d \in Certs : certs'[d].run # NoRun => d <= issued'
    BY <1>a, <1>c, <1>d DEF RenewalInv, CertsOK
  <2>2. \A s \in Runs : exec'[s].cert <= issued'
    <3>1. \A s \in Runs : exec[s].cert <= issued /\ exec[s].cert \in Nat
      BY <1>a DEF RenewalInv, CertsOK, ExecState, Certs, NoCert
    <3> QED
      BY <1>a, <1>b, <3>1
  <2> QED
    BY <2>1, <2>2 DEF CertsOK
<1>2. RequestedOK'
  BY <1>a, <1>b, <1>c, <1>d, <1>e DEF RenewalInv, RequestedOK
<1>3. OutputsOK'
  <2> SUFFICES ASSUME NEW o \in applyOutputs
               PROVE  /\ exec'[o.run].pc # "idle" /\ o.config = exec'[o.run].graph.apply
                      /\ Fresh(o.run)' /\ \E d \in Certs : certs'[d].run = o.run
    BY <1>a DEF OutputsOK
  <2>1. PICK d \in Certs : certs[d].run = o.run
    BY DEF RenewalInv, OutputsOK
  <2>2. certs'[d].run = o.run
    BY <1>c, <1>d, <1>e, <2>1
  <2> QED
    BY <1>a, <1>e, <2>2 DEF RenewalInv, OutputsOK, Fresh
<1>4. ExecOK'
  <2> SUFFICES ASSUME NEW s \in Runs PROVE ExecOK!(s)'
    BY DEF ExecOK
  <2>1. CASE s = r
    BY <2>1, <1>b, <1>c, <1>e DEF ExecOK
  <2>2. CASE s # r
    <3>1. /\ exec'[s] = exec[s] /\ (Fresh(s)' <=> Fresh(s))
          /\ exec[s].cert # NoCert => certs'[exec[s].cert] = certs[exec[s].cert]
      BY <2>2, <1>a, <1>b, <1>c, <1>d DEF Fresh
    <3>2. ExecOK!(s)
      BY DEF RenewalInv, ExecOK
    <3> QED
      BY <3>1, <3>2, <1>e
  <2> QED
    BY <2>1, <2>2
<1>5. RevokingOK' /\ CertificateFitsConfig'
  BY <1>a, <1>b, <1>c, <1>d DEF RenewalInv, RevokingOK, CertificateFitsConfig
<1> QED
  BY <1>1, <1>2, <1>3, <1>4, <1>5 DEF Rest

\* The output saved for a run whose row is there leads to the run's certificate.
LEMMA SaveOutputStep ==
  ASSUME RenewalInv, TypeOK', NEW r \in Runs, SaveApplyOutput(r)
  PROVE  Rest'
<1>a. /\ exec \in [Runs -> ExecState] /\ exec[r].pc = "save"
      /\ UNCHANGED <<row, certs, issued, revoking>>
  BY DEF RenewalInv, TypeOK, SaveApplyOutput, runVars, userVars
<1>b. /\ \A s \in Runs : s # r => exec'[s] = exec[s]
      /\ exec'[r].pc = "deploy" /\ exec'[r].graph = exec[r].graph
      /\ exec'[r].cert = exec[r].cert
  BY <1>a DEF SaveApplyOutput, ExecState
<1>c. /\ \A d \in Certs : certs[d].run \in {NoRun} \cup Runs
      /\ \A o \in applyOutputs : o.run \in Runs
      /\ \A s \in Runs : exec[s].last \in {NoRun} \cup Runs
      /\ exec[r].cert \in {NoCert} \cup Certs
  BY <1>a DEF RenewalInv, TypeOK, CertRow, ApplyOutput, ExecState
<1>1. CertsOK' /\ RequestedOK'
  BY <1>a, <1>b, <1>c DEF RenewalInv, CertsOK, RequestedOK
<1>2. OutputsOK'
  <2>1. ASSUME NEW o \in applyOutputs PROVE OutputsOK!(o)'
    BY <1>a, <1>b, <1>c DEF RenewalInv, OutputsOK, Fresh
  <2>2. ASSUME NEW o, o.run = r, o.config = exec[r].graph.apply, Fresh(r)
        PROVE  OutputsOK!(o)'
    <3>1. exec[r].cert \in Certs /\ certs[exec[r].cert].run = r
      BY <1>a, <1>c, <2>2 DEF RenewalInv, ExecOK
    <3> QED
      BY <1>a, <1>b, <2>2, <3>1 DEF Fresh
  <2>3. ASSUME NEW o \in applyOutputs', o \notin applyOutputs
        PROVE  o.run = r /\ o.config = exec[r].graph.apply /\ Fresh(r)
    BY <2>3 DEF SaveApplyOutput
  <2> QED
    BY <2>1, <2>2, <2>3 DEF OutputsOK
<1>3. ExecOK'
  BY <1>a, <1>b, <1>c DEF RenewalInv, ExecOK, Fresh
<1>4. RevokingOK' /\ CertificateFitsConfig'
  BY <1>a, <1>b DEF RenewalInv, RevokingOK, CertificateFitsConfig
<1> QED
  BY <1>1, <1>2, <1>3, <1>4 DEF Rest

\* Every step of an executor keeps the rest.
LEMMA RestRunStep ==
  ASSUME RenewalInv, TypeOK', NEW r \in Runs, RunStep(r)
  PROVE  Rest'
<1>a. exec \in [Runs -> ExecState] /\ exec[r] \in ExecState
  BY DEF RenewalInv, TypeOK
<1>b. ASSUME exec[r].pc # "idle", UNCHANGED <<row, certs, issued, applyOutputs, revoking>>,
             NEW pc \in {"record", "notify"}, exec' = [exec EXCEPT ![r].pc = pc]
      PROVE  Rest'
  <2>1. /\ \A s \in Runs : s # r => exec'[s] = exec[s]
        /\ exec'[r].pc = pc
        /\ exec'[r].graph = exec[r].graph /\ exec'[r].cert = exec[r].cert
    BY <1>a, <1>b DEF ExecState
  <2> QED
    BY <1>b, <2>1, GotoStep
<1>1. CASE StartRun(r)
  BY <1>1, StartStep
<1>2. CASE NoticeCancel(r)
  BY <1>2, OverStep DEF NoticeCancel, rowVars, userVars
<1>3. CASE ApplyLookup(r) \/ ApplyDecide(r)
  BY <1>3, ApplySteps
<1>4. CASE RequestCertificate(r)
  BY <1>4, RequestStep
<1>5. CASE RequestFails(r)
  BY <1>5, OverStep DEF RequestFails, Fail, rowVars, userVars
<1>6. CASE SaveRenewed(r)
  <2>1. \A c \in Certs : certs'[c].run = certs[c].run /\ certs'[c].config = certs[c].config
    <3>1. [exec[r].old EXCEPT !.renewed = TRUE] \in RowCopy
      BY <1>a DEF RowCopy, ExecState
    <3> QED
      BY <1>6, <3>1, SavedCopy DEF SaveRenewed, RenewalInv, TypeOK
  <2>2. /\ \A s \in Runs : s # r => exec'[s] = exec[s]
        /\ exec[r].pc = "renew" /\ exec'[r].pc = "save"
        /\ exec'[r].graph = exec[r].graph /\ exec'[r].cert = exec[r].cert
    BY <1>6, <1>a DEF SaveRenewed, ExecState
  <2>3. UNCHANGED <<row, issued, applyOutputs, revoking>> /\ RevokingOK'
    BY <1>6 DEF SaveRenewed, runVars, userVars, RenewalInv, RevokingOK
  <2> QED
    BY <2>1, <2>2, <2>3, FlagStep
<1>7. CASE SaveApplyOutput(r)
  BY <1>7, SaveOutputStep
<1>8. CASE DeployDecide(r)
  <2>1. ASSUME NEW alike \in BOOLEAN, Decided(r, alike)
        PROVE  /\ \A s \in Runs : s # r => exec'[s] = exec[s]
               /\ exec'[r].pc \in {"notify", "deploying"}
               /\ exec'[r].graph = exec[r].graph /\ exec'[r].cert = exec[r].cert
    BY <1>a, <2>1 DEF Decided, ExecState
  <2>2. \E alike \in BOOLEAN : Decided(r, alike)
    BY <1>8 DEF DeployDecide
  <2>3. exec[r].pc # "idle" /\ UNCHANGED <<row, certs, issued, applyOutputs, revoking>>
    BY <1>8 DEF DeployDecide, Enters, runVars, rowVars, userVars
  <2> QED
    BY <2>1, <2>2, <2>3, GotoStep
<1>9. CASE DeployLacksInput(r)
  BY <1>9, OverStep DEF DeployLacksInput, Enters, rowVars, userVars
<1>10. CASE Deploy(r)
  BY <1>10, <1>b DEF Deploy, runVars, rowVars, userVars
<1>11. CASE DeployFails(r)
  BY <1>11, OverStep DEF DeployFails, Fail, rowVars, userVars
<1>12. CASE SaveDeployOutput(r)
  BY <1>12, <1>b DEF SaveDeployOutput, runVars, userVars
<1>13. CASE Notify(r)
  <2>1. /\ \A s \in Runs : s # r => exec'[s] = exec[s]
        /\ exec[r].pc # "idle" /\ exec'[r].pc = "over"
        /\ exec'[r].graph = exec[r].graph /\ exec'[r].cert = exec[r].cert
    BY <1>13, <1>a DEF Notify, Enters, ExecState
  <2>2. /\ \A s \in Runs : Fresh(s)' <=> Fresh(s)
        /\ UNCHANGED <<certs, issued, applyOutputs, revoking>>
    BY <1>13 DEF Notify, Fresh, RenewalInv, TypeOK, rowVars, userVars
  <2>3. exec[r].cert # NoCert =>
          exec[r].cert <= issued /\ certs[exec[r].cert].config = exec[r].graph.apply
    BY DEF RenewalInv, CertsOK, CertificateFitsConfig
  <2> QED
    BY <2>1, <2>2, <2>3, ExecStep
<1> QED
  BY <1>1, <1>2, <1>3, <1>4, <1>5, <1>6, <1>7, <1>8, <1>9, <1>10, <1>11, <1>12, <1>13
  DEF RunStep

-----------------------------------------------------------------------------
(* What happens meanwhile. *)

\* A crash ends the executors and the requests; the rows stay.
LEMMA CrashStep == ASSUME RenewalInv, TypeOK', Crash PROVE Rest'
<1>a. /\ \A s \in Runs : IF exec[s].pc = "idle" THEN exec'[s] = exec[s]
                         ELSE /\ exec'[s].pc = "over" /\ exec'[s].graph = exec[s].graph
                              /\ exec'[s].cert = exec[s].cert
      /\ UNCHANGED <<row, certs, issued, applyOutputs>> /\ revoking' = NoCopy
  BY DEF Crash, RenewalInv, TypeOK, ExecState, runVars, rowVars
<1>b. /\ \A c \in Certs : certs[c].run \in {NoRun} \cup Runs
      /\ \A o \in applyOutputs : o.run \in Runs
  BY DEF RenewalInv, TypeOK, CertRow, ApplyOutput
<1>1. CertsOK' /\ RequestedOK'
  BY <1>a, <1>b DEF RenewalInv, CertsOK, RequestedOK
<1>2. OutputsOK'
  BY <1>a, <1>b DEF RenewalInv, OutputsOK, Fresh
<1>3. ExecOK'
  BY <1>a DEF RenewalInv, ExecOK
<1>4. RevokingOK' /\ CertificateFitsConfig'
  BY <1>a DEF RenewalInv, RevokingOK, CertificateFitsConfig
<1> QED
  BY <1>1, <1>2, <1>3, <1>4 DEF Rest

\* The runs deleted take their outputs with them: those that stay are of other runs,
\* and the certificates of other runs keep their run.
LEMMA CleanupStep ==
  ASSUME RenewalInv, TypeOK', NEW k \in 0..Len(ended), CleanupRuns(k)
  PROVE  Rest'
<1> DEFINE expired == {r \in Runs : row[r] = "canceled" \/ \E i \in 1..k : ended[i] = r}
<1>a. /\ row' = [r \in Runs |-> IF r \in expired THEN "gone" ELSE row[r]]
      /\ certs' = [c \in Certs |->
           IF certs[c].run \in expired THEN [certs[c] EXCEPT !.run = NoRun] ELSE certs[c]]
      /\ applyOutputs' = {o \in applyOutputs : o.run \notin expired}
      /\ UNCHANGED <<exec, issued, revoking>>
  BY DEF CleanupRuns, userVars
<1> HIDE DEF expired
<1>b. /\ \A c \in Certs : certs[c].run \in {NoRun} \cup Runs
      /\ \A o \in applyOutputs : o.run \in Runs
      /\ \A r \in Runs : exec[r].cert \in {NoCert} \cup Certs
  BY DEF RenewalInv, TypeOK, CertRow, ApplyOutput, ExecState
<1>c. \A c \in Certs : /\ certs'[c].config = certs[c].config
                       /\ certs'[c].run =
                            IF certs[c].run \in expired THEN NoRun ELSE certs[c].run
  <2>1. \A c \in Certs : certs[c] \in CertRow
    BY DEF RenewalInv, TypeOK
  <2> QED
    BY <1>a, <2>1 DEF CertRow
<1>1. CertsOK' /\ RequestedOK'
  BY <1>a, <1>b, <1>c DEF RenewalInv, CertsOK, RequestedOK
<1>2. OutputsOK'
  BY <1>a, <1>b, <1>c DEF RenewalInv, OutputsOK, Fresh
<1>3. ExecOK'
  <2> SUFFICES ASSUME NEW r \in Runs PROVE ExecOK!(r)'
    BY DEF ExecOK
  <2>1. Fresh(r)' => Fresh(r) /\ r \notin expired
    BY <1>a DEF Fresh
  <2> QED
    BY <1>a, <1>b, <1>c, <2>1 DEF RenewalInv, ExecOK
<1>4. RevokingOK' /\ CertificateFitsConfig'
  BY <1>a, <1>b, <1>c DEF RenewalInv, RevokingOK, CertificateFitsConfig
<1> QED
  BY <1>1, <1>2, <1>3, <1>4 DEF Rest

\* The steps of users, timers and requests keep the rest.
LEMMA RestOtherStep ==
  ASSUME RenewalInv, TypeOK', Next, \A r \in Runs : ~RunStep(r)
  PROVE  Rest'
<1>a. ASSUME UNCHANGED <<row, exec, issued, applyOutputs>>, RevokingOK',
             \A c \in Certs : certs'[c].run = certs[c].run /\ certs'[c].config = certs[c].config
      PROVE  Rest'
  BY <1>a, FlagStep
<1>b. ASSUME UNCHANGED <<row, exec, issued, certs, applyOutputs, revoking>> PROVE Rest'
  BY <1>a, <1>b DEF RenewalInv, RevokingOK
<1>c. \A c \in Certs : certs[c] \in CertRow
  BY DEF RenewalInv, TypeOK
<1>1. ASSUME NEW r \in Runs, Cancel(r) PROVE Rest'
  <2>1. /\ \A s \in Runs : /\ exec'[s].pc = exec[s].pc /\ exec'[s].graph = exec[s].graph
                           /\ exec'[s].cert = exec[s].cert /\ exec'[s].last = exec[s].last
                           /\ exec'[s].same = exec[s].same /\ exec'[s].old = exec[s].old
        /\ \A s \in Runs : Fresh(s)' <=> Fresh(s)
        /\ UNCHANGED <<certs, issued, applyOutputs, revoking>>
    BY <1>1 DEF Cancel, Fresh, RenewalInv, TypeOK, ExecState, rowVars, userVars
  <2>2. /\ \A c \in Certs : certs[c].run \in {NoRun} \cup Runs
        /\ \A o \in applyOutputs : o.run \in Runs
        /\ \A s \in Runs : exec[s].last \in {NoRun} \cup Runs
    BY DEF RenewalInv, TypeOK, CertRow, ApplyOutput, ExecState
  <2>3. CertsOK' /\ RequestedOK' /\ OutputsOK'
    BY <2>1, <2>2 DEF RenewalInv, CertsOK, RequestedOK, OutputsOK
  <2>4. ExecOK'
    BY <2>1, <2>2 DEF RenewalInv, ExecOK
  <2>5. RevokingOK' /\ CertificateFitsConfig'
    BY <2>1 DEF RenewalInv, RevokingOK, CertificateFitsConfig
  <2> QED
    BY <2>3, <2>4, <2>5 DEF Rest
<1>2. CASE Crash
  BY <1>2, CrashStep
<1>3. ASSUME NEW c \in Certs, BecomesDue(c) PROVE Rest'
  BY <1>3, <1>b DEF BecomesDue, runVars, rowVars
<1>4. ASSUME NEW c \in Certs, RevokeRead(c) PROVE Rest'
  BY <1>4, <1>a, RunsArePositive DEF RevokeRead, CopyOf, RevokingOK, runVars, rowVars
<1>5. ASSUME NEW c \in Certs, DeleteCertificate(c) PROVE Rest'
  <2>1. \A d \in Certs : certs'[d].run = certs[d].run /\ certs'[d].config = certs[d].config
    BY <1>5, <1>c DEF DeleteCertificate, RenewalInv, TypeOK, CertRow
  <2> QED
    BY <1>5, <1>a, <2>1 DEF DeleteCertificate, RenewalInv, RevokingOK, runVars, userVars
<1>6. CASE RevokeSave
  <2>1. \A d \in Certs : certs'[d].run = certs[d].run /\ certs'[d].config = certs[d].config
    BY <1>6, SavedCopy DEF RevokeSave, RenewalInv, TypeOK
  <2> QED
    BY <1>6, <1>a, <2>1 DEF RevokeSave, RevokingOK, runVars
<1>7. ASSUME NEW config, EditApply(config) \/ EditDeploy(config) PROVE Rest'
  BY <1>7, <1>b DEF EditApply, EditDeploy, runVars, rowVars
<1>8. ASSUME NEW k \in 0..Len(ended), CleanupRuns(k) PROVE Rest'
  BY <1>8, CleanupStep
<1> QED
  BY <1>1, <1>2, <1>3, <1>4, <1>5, <1>6, <1>7, <1>8 DEF Next

\* The invariant is inductive.
LEMMA NextInv == RenewalInv /\ [Next]_vars => RenewalInv'
<1> SUFFICES ASSUME RenewalInv, [Next]_vars PROVE RenewalInv'
  OBVIOUS
<1>1. ASSUME NEW r \in Runs, RunStep(r) PROVE RenewalInv'
  <2>1. TypeOK'
    BY <1>1, TypeRunStep DEF RenewalInv
  <2> QED
    BY <1>1, <2>1, RestRunStep DEF RenewalInv, Rest
<1>2. ASSUME Next, \A r \in Runs : ~RunStep(r) PROVE RenewalInv'
  <2>1. TypeOK'
    BY <1>2, TypeOtherStep DEF RenewalInv
  <2> QED
    BY <1>2, <2>1, RestOtherStep DEF RenewalInv, Rest
<1>3. CASE UNCHANGED vars
  <2>1. TypeOK'
    BY <1>3 DEF vars, runVars, rowVars, userVars, RenewalInv, TypeOK
  <2>2. Rest'
    BY <1>3, <2>1, FlagStep
    DEF vars, runVars, rowVars, userVars, RenewalInv, RevokingOK
  <2> QED
    BY <2>1, <2>2 DEF RenewalInv, Rest
<1> QED
  BY <1>1, <1>2, <1>3

-----------------------------------------------------------------------------
(* The theorems. *)

\* RenewalInv holds throughout: rows and executors have the values their types
\* allow, and the rows of the two collections agree about every run
\* (executor_bizapply.go, repository/certificate.go, repository/workflow_output.go).
THEOREM RenewalInvHolds == Spec => []RenewalInv
<1>1. Init => RenewalInv
  BY InitInv
<1>2. RenewalInv /\ [Next]_vars => RenewalInv'
  BY NextInv
<1> QED
  BY <1>1, <1>2, PTL DEF Spec

\* Type correctness: a corollary of the inductive invariant.
THEOREM TypeHolds == Spec => []TypeOK
<1>1. RenewalInv => TypeOK
  BY DEF RenewalInv
<1> QED
  BY <1>1, RenewalInvHolds, PTL

\* However runs overlap, crash, are canceled, or lose their rows to the retention,
\* and however the graph is edited, the apply node (executor_bizapply.go) never
\* hands on a certificate requested with another configuration than this run's.
THEOREM CertificateFitsConfigHolds == Spec => []CertificateFitsConfig
<1>1. RenewalInv => CertificateFitsConfig
  BY DEF RenewalInv
<1> QED
  BY <1>1, RenewalInvHolds, PTL

\* Every row the apply node leaves in workflow_output leads, by its run, to a
\* certificate of the row's configuration: getLastOutputArtifacts
\* (executor_bizapply.go) never finds one without the other, save for a certificate
\* that was deleted.
THEOREM OutputsLeadToCertificatesHolds == Spec => []OutputsLeadToCertificates
<1>1. RenewalInv => OutputsLeadToCertificates
  <2> SUFFICES ASSUME RenewalInv, NEW o \in applyOutputs
               PROVE  \E c \in Certs : certs[c].run = o.run /\ certs[c].config = o.config
    BY DEF OutputsLeadToCertificates
  <2>1. o.run \in Runs
    BY DEF RenewalInv, TypeOK, ApplyOutput
  <2>2. PICK c \in Certs : certs[c].run = o.run
    BY DEF RenewalInv, OutputsOK
  <2>3. certs[c].config = exec[o.run].graph.apply
    BY <2>1, <2>2, RunsArePositive DEF RenewalInv, RequestedOK
  <2>4. o.config = exec[o.run].graph.apply
    BY DEF RenewalInv, OutputsOK
  <2> QED
    BY <2>2, <2>3, <2>4
<1> QED
  BY <1>1, RenewalInvHolds, PTL

-----------------------------------------------------------------------------
(* Runs that follow one another: without Cancel the executors do not overlap.  *)

\* A run starts only when those before it are over.
Alone ==
  /\ \A r \in Runs : ~exec[r].stopped
  /\ \A r, s \in Runs : s < r /\ exec[r].pc # "idle" => exec[s].pc = "over"

\* A run requests one certificate, and saves one output after it.
Once ==
  /\ \A c \in Certs : certs[c].run # NoRun =>
       exec[certs[c].run].pc \notin {"idle", "apply", "decide", "request"}
  /\ \A c, d \in Certs : certs[c].run # NoRun /\ certs[d].run = certs[c].run => d = c
  /\ \A o \in applyOutputs :
       exec[o.run].pc \notin {"idle", "apply", "decide", "request", "renew", "save"}

\* Outputs are told apart by their times.
InTime ==
  /\ \A o \in applyOutputs : o.at < clock
  /\ \A o, p \in applyOutputs : o.at = p.at => o = p

\* The output of the run that requested the newest certificate is the last one.
NewestLast ==
  issued > 0 => \A o \in applyOutputs : o.run = certs[issued].run => Latest(o, applyOutputs)

NewIsNewest ==
  \A r \in Runs : exec[r].pc \in {"renew", "save"} => issued > 0 /\ exec[r].cert = issued

\* So a run that has looked knows of that output, and of its configuration.
KnowsNewest ==
  \A r \in Runs : exec[r].pc = "decide" /\ issued > 0 =>
    \A o \in applyOutputs : o.run = certs[issued].run =>
      exec[r].last = o.run /\ (exec[r].same <=> o.config = exec[r].graph.apply)

\* The newest certificate is of no use to the run.
Needed(r) ==
  \/ certs[issued].config # exec[r].graph.apply
  \/ certs[issued].revoked \/ certs[issued].gone \/ issued \in due
  \/ ~\E o \in applyOutputs : o.run = certs[issued].run

RequestNeeded ==
  \A r \in Runs : exec[r].pc = "request" /\ issued > 0 => Needed(r)

\* RevokeCertificate saves a copy that is revoked.
Revokes == revoking # NoCopy => revoking.revoked

SequelInv ==
  /\ Alone /\ Once /\ InTime /\ NewestLast /\ NewIsNewest /\ KnowsNewest /\ RequestNeeded
  /\ Revokes

\* The executor that steps is the only one at work.
LEMMA OneAtATime ==
  ASSUME TypeOK, Alone, NEW r \in Runs, RunStep(r)
  PROVE  /\ exec[r].pc # "over"
         /\ \A s \in Runs : s < r => exec[s].pc = "over"
         /\ \A s \in Runs : r < s => exec[s].pc = "idle"
<1>1. exec[r].pc # "over"
  BY DEF RunStep, StartRun, NoticeCancel, ApplyLookup, Enters, ApplyDecide, RequestCertificate,
     RequestFails, SaveRenewed, SaveApplyOutput, DeployDecide, DeployLacksInput, Deploy,
     DeployFails, SaveDeployOutput, Notify
<1>2. exec[r].pc = "idle" => \A s \in Runs : s < r => exec[s].pc = "over"
  BY DEF Alone, RunStep, StartRun, NoticeCancel, ApplyLookup, Enters, ApplyDecide,
     RequestCertificate, RequestFails, SaveRenewed, SaveApplyOutput, DeployDecide,
     DeployLacksInput, Deploy, DeployFails, SaveDeployOutput, Notify
<1>3. \A s \in Runs : r < s => exec[s].pc = "idle"
  BY <1>1 DEF Alone
<1> QED BY <1>1, <1>2, <1>3 DEF Alone

\* What each step of an executor changes.  ApplyLookup:
LEMMA LookupEffect ==
  ASSUME TypeOK, NEW r \in Runs, ApplyLookup(r)
  PROVE  /\ \A s \in Runs : s # r => exec'[s] = exec[s]
         /\ exec[r].pc = "apply" /\ exec'[r].pc = "decide"
         /\ exec'[r].stopped = exec[r].stopped
         /\ exec'[r].graph = exec[r].graph
         /\ \/ applyOutputs = {} /\ exec'[r].last = exec[r].last
            \/ \E o \in applyOutputs :
                 /\ Latest(o, applyOutputs) /\ exec'[r].last = o.run
                 /\ exec'[r].same <=> o.config = exec[r].graph.apply
         /\ UNCHANGED <<row, certs, issued, applyOutputs, deployOutputs, clock, deployed,
                        due, revoking>>
<1>a. exec \in [Runs -> ExecState] /\ exec[r] \in ExecState
  BY DEF TypeOK
<1>1. UNCHANGED <<row, certs, issued, applyOutputs, deployOutputs, clock, deployed,
                  due, revoking>>
  BY DEF ApplyLookup, runVars, rowVars, userVars
<1>2. CASE applyOutputs = {} /\ exec' = [exec EXCEPT ![r].pc = "decide"]
  BY <1>a, <1>1, <1>2 DEF ApplyLookup, Enters, ExecState
<1>3. ASSUME NEW o \in applyOutputs, Latest(o, applyOutputs),
             Found(r, o, o.config = exec[r].graph.apply)
      PROVE  /\ \A s \in Runs : s # r => exec'[s] = exec[s]
             /\ exec'[r].pc = "decide" /\ exec'[r].stopped = exec[r].stopped
             /\ exec'[r].graph = exec[r].graph
             /\ exec'[r].last = o.run /\ (exec'[r].same <=> o.config = exec[r].graph.apply)
  <2>1. \A same \in BOOLEAN : Found(r, o, same) =>
          /\ \A s \in Runs : s # r => exec'[s] = exec[s]
          /\ exec'[r].pc = "decide" /\ exec'[r].stopped = exec[r].stopped
          /\ exec'[r].graph = exec[r].graph
          /\ exec'[r].last = o.run /\ exec'[r].same = same
    BY <1>a DEF Found, ExecState
  <2>2. (o.config = exec[r].graph.apply) \in BOOLEAN
    OBVIOUS
  <2> QED BY <1>3, <2>1, <2>2
<1> QED BY <1>1, <1>2, <1>3 DEF ApplyLookup, Enters

\* ApplyDecide:
LEMMA DecideEffect ==
  ASSUME TypeOK, NEW r \in Runs, ApplyDecide(r)
  PROVE  /\ \A s \in Runs : s # r => exec'[s] = exec[s]
         /\ exec[r].pc = "decide" /\ exec'[r].stopped = exec[r].stopped
         /\ exec'[r].graph = exec[r].graph
         /\ \/ /\ exec[r].last = NoRun \/ Saved(exec[r].last) = {}
               /\ exec'[r].pc = "request"
            \/ \E c \in Saved(exec[r].last) :
                 /\ exec[r].last # NoRun /\ \A d \in Saved(exec[r].last) : d <= c
                 /\ IF exec[r].same /\ ~certs[c].revoked /\ c \notin due
                    THEN exec'[r].pc = "deploy" /\ exec'[r].cert = c
                    ELSE exec'[r].pc = "request"
         /\ UNCHANGED <<row, certs, issued, applyOutputs, deployOutputs, clock, deployed,
                        due, revoking>>
<1>a. exec \in [Runs -> ExecState] /\ exec[r] \in ExecState
  BY DEF TypeOK
<1>1. /\ exec[r].pc = "decide"
      /\ UNCHANGED <<row, certs, issued, applyOutputs, deployOutputs, clock, deployed, due,
                     revoking>>
  BY DEF ApplyDecide, runVars, rowVars, userVars
<1>2. ASSUME exec' = [exec EXCEPT ![r].pc = "request", ![r].skips = {FALSE}]
      PROVE  /\ \A s \in Runs : s # r => exec'[s] = exec[s]
             /\ exec'[r].pc = "request" /\ exec'[r].stopped = exec[r].stopped
             /\ exec'[r].graph = exec[r].graph
  BY <1>a, <1>2 DEF ExecState
<1>3. ASSUME NEW old, exec' = [exec EXCEPT ![r].pc = "request", ![r].skips = {FALSE},
                                          ![r].old = old]
      PROVE  /\ \A s \in Runs : s # r => exec'[s] = exec[s]
             /\ exec'[r].pc = "request" /\ exec'[r].stopped = exec[r].stopped
             /\ exec'[r].graph = exec[r].graph
  BY <1>a, <1>3 DEF ExecState
<1>4. ASSUME NEW c, exec' = [exec EXCEPT ![r].pc = "deploy", ![r].cert = c, ![r].skips = {TRUE}]
      PROVE  /\ \A s \in Runs : s # r => exec'[s] = exec[s]
             /\ exec'[r].pc = "deploy" /\ exec'[r].cert = c
             /\ exec'[r].stopped = exec[r].stopped
             /\ exec'[r].graph = exec[r].graph
  BY <1>a, <1>4 DEF ExecState
<1> QED BY <1>1, <1>2, <1>3, <1>4 DEF ApplyDecide

\* RequestCertificate:
LEMMA RequestEffect ==
  ASSUME TypeOK, NEW r \in Runs, RequestCertificate(r)
  PROVE  /\ \A s \in Runs : s # r => exec'[s] = exec[s]
         /\ exec[r].pc = "request" /\ exec'[r].pc \in {"renew", "save"}
         /\ exec'[r].stopped = exec[r].stopped
         /\ exec'[r].cert = issued + 1 /\ exec'[r].graph = exec[r].graph
         /\ issued + 1 \in Certs /\ issued' = issued + 1 /\ clock' = clock + 1
         /\ \A c \in Certs : c # issued + 1 => certs'[c] = certs[c]
         /\ certs'[issued + 1].run = r /\ certs'[issued + 1].at = clock
         /\ UNCHANGED <<row, applyOutputs, deployOutputs, deployed, due, revoking>>
<1>a. exec \in [Runs -> ExecState] /\ exec[r] \in ExecState
  BY DEF TypeOK
<1>1. issued + 1 \in Certs
  BY BoundsAssumption DEF RequestCertificate, TypeOK, Certs
<1>2. /\ \A c \in Certs : c # issued + 1 => certs'[c] = certs[c]
      /\ certs'[issued + 1].run = r /\ certs'[issued + 1].at = clock
  BY <1>1 DEF RequestCertificate, TypeOK
<1>3. /\ exec[r].pc = "request" /\ issued' = issued + 1 /\ clock' = clock + 1
      /\ UNCHANGED <<row, applyOutputs, deployOutputs, deployed, due, revoking>>
  BY DEF RequestCertificate, runVars, userVars
<1>4. \A pc \in {"renew", "save"} :
        exec' = [exec EXCEPT ![r].cert = issued + 1, ![r].pc = pc] =>
          /\ \A s \in Runs : s # r => exec'[s] = exec[s]
          /\ exec'[r].pc = pc
          /\ exec'[r].stopped = exec[r].stopped
          /\ exec'[r].cert = issued + 1 /\ exec'[r].graph = exec[r].graph
  BY <1>a DEF ExecState
<1>5. \E pc \in {"renew", "save"} : exec' = [exec EXCEPT ![r].cert = issued + 1, ![r].pc = pc]
  BY DEF RequestCertificate
<1> QED BY <1>1, <1>2, <1>3, <1>4, <1>5

\* DeployDecide:
LEMMA DeployDecideEffect ==
  ASSUME TypeOK, NEW r \in Runs, DeployDecide(r)
  PROVE  /\ \A s \in Runs : s # r => exec'[s] = exec[s]
         /\ exec[r].pc = "deploy"
         /\ exec'[r].stopped = exec[r].stopped
         /\ exec'[r].graph = exec[r].graph /\ exec'[r].cert = exec[r].cert
         /\ \/ exec'[r].pc = "deploying"
            \/ /\ exec'[r].pc = "notify"
               /\ \E o \in deployOutputs :
                    /\ Latest(o, deployOutputs)
                    /\ certs[exec[r].cert].at < o.at
                    /\ o.config.place = exec[r].graph.deploy.place
         /\ UNCHANGED <<row, certs, issued, applyOutputs, deployOutputs, clock, deployed,
                        due, revoking>>
<1>a. exec \in [Runs -> ExecState] /\ exec[r] \in ExecState
  BY DEF TypeOK
<1>1. exec[r].pc = "deploy" /\ UNCHANGED <<row, certs, issued, applyOutputs, deployOutputs,
                                          clock, deployed, due, revoking>>
  BY DEF DeployDecide, Enters, runVars, rowVars, userVars
<1> DEFINE Kept == /\ \A s \in Runs : s # r => exec'[s] = exec[s]
                   /\ exec'[r].stopped = exec[r].stopped
                   /\ exec'[r].graph = exec[r].graph /\ exec'[r].cert = exec[r].cert
<1>2. ASSUME NEW skips, NEW pc, exec' = [exec EXCEPT ![r].pc = pc, ![r].skips = skips]
      PROVE  Kept /\ exec'[r].pc = pc
  BY <1>a, <1>2 DEF ExecState
<1> HIDE DEF Kept
<1>3. ASSUME NEW alike, Decided(r, alike)
      PROVE  Kept /\ (exec'[r].pc = "deploying" \/ (alike /\ exec'[r].pc = "notify"))
  <2>1. CASE alike /\ exec[r].graph.deploy.skipOnLastSucceeded
    <3>1. exec' = [exec EXCEPT ![r].pc = "notify", ![r].skips = @ \cup {TRUE}]
      BY <1>3, <2>1 DEF Decided
    <3>2. exec' = [exec EXCEPT ![r].pc = "notify", ![r].skips = exec[r].skips \cup {TRUE}]
      BY <3>1
    <3> QED BY <1>2, <2>1, <3>2
  <2>2. CASE ~(alike /\ exec[r].graph.deploy.skipOnLastSucceeded)
    <3>1. exec' = [exec EXCEPT ![r].pc = "deploying",
                                ![r].skips = IF alike THEN @ ELSE @ \cup {FALSE}]
      BY <1>3, <2>2 DEF Decided
    <3> DEFINE given == IF alike THEN exec[r].skips ELSE exec[r].skips \cup {FALSE}
    <3>2. exec' = [exec EXCEPT ![r].pc = "deploying", ![r].skips = given]
      BY <3>1
    <3> HIDE DEF given
    <3> QED BY <1>2, <3>2
  <2> QED BY <2>1, <2>2
<1>4. CASE Decided(r, FALSE)
  BY <1>1, <1>3, <1>4 DEF Kept
<1>5. ASSUME NEW o \in deployOutputs, Latest(o, deployOutputs),
             Decided(r, certs[exec[r].cert].at < o.at
                        /\ o.config.place = exec[r].graph.deploy.place)
      PROVE  /\ Kept
             /\ \/ exec'[r].pc = "deploying"
                \/ /\ exec'[r].pc = "notify"
                   /\ certs[exec[r].cert].at < o.at
                   /\ o.config.place = exec[r].graph.deploy.place
  BY <1>3, <1>5
<1> QED BY <1>1, <1>4, <1>5 DEF DeployDecide, Kept

\* The steps that only move on:
LEMMA StayEffect ==
  ASSUME TypeOK, NEW r \in Runs, NEW pc, NEW q, exec[r].pc = q,
         exec' = [exec EXCEPT ![r].pc = pc]
  PROVE  /\ \A s \in Runs : s # r => exec'[s] = exec[s]
         /\ exec'[r].pc = pc /\ exec'[r].stopped = exec[r].stopped
         /\ exec'[r].graph = exec[r].graph /\ exec'[r].cert = exec[r].cert
<1>a. exec \in [Runs -> ExecState] /\ exec[r] \in ExecState
  BY DEF TypeOK
<1> QED BY <1>a DEF ExecState

\* And the last steps:
LEMMA OverEffect ==
  ASSUME TypeOK, NEW r \in Runs, NEW status, Over(r, status)
  PROVE  /\ \A s \in Runs : s # r => exec'[s] = exec[s]
         /\ exec'[r].pc = "over" /\ exec'[r].stopped = exec[r].stopped
         /\ exec'[r].graph = exec[r].graph /\ exec'[r].cert = exec[r].cert
BY StayEffect DEF Over

LEMMA NotifyEffect ==
  ASSUME TypeOK, NEW r \in Runs, Notify(r)
  PROVE  /\ \A s \in Runs : s # r => exec'[s] = exec[s]
         /\ exec'[r].pc = "over" /\ exec'[r].stopped = exec[r].stopped
         /\ exec'[r].graph = exec[r].graph /\ exec'[r].cert = exec[r].cert
<1>a. exec \in [Runs -> ExecState] /\ exec[r] \in ExecState
  BY DEF TypeOK
<1>1. ASSUME NEW notice, exec' = [exec EXCEPT ![r].pc = "over", ![r].notice = notice]
      PROVE  /\ \A s \in Runs : s # r => exec'[s] = exec[s]
             /\ exec'[r].pc = "over" /\ exec'[r].stopped = exec[r].stopped
             /\ exec'[r].graph = exec[r].graph /\ exec'[r].cert = exec[r].cert
  BY <1>a, <1>1 DEF ExecState
<1> QED BY <1>1 DEF Notify

LEMMA StartEffect ==
  ASSUME TypeOK, NEW r \in Runs, StartRun(r)
  PROVE  /\ \A s \in Runs : s # r => exec'[s] = exec[s]
         /\ exec[r].pc = "idle" /\ exec'[r].pc = "apply"
         /\ exec'[r].stopped = exec[r].stopped
<1>a. exec \in [Runs -> ExecState] /\ exec[r] \in ExecState
  BY DEF TypeOK
<1> QED BY <1>a DEF StartRun, ExecState

\* A step changes no other executor, and neither stops nor resets its own.
LEMMA OnlyItsOwn ==
  ASSUME TypeOK, NEW r \in Runs, RunStep(r)
  PROVE  /\ \A s \in Runs : s # r => exec'[s] = exec[s]
         /\ exec'[r].stopped = exec[r].stopped /\ exec'[r].pc # "idle"
<1>1. CASE StartRun(r)
  BY <1>1, StartEffect
<1>2. CASE NoticeCancel(r) \/ RequestFails(r) \/ DeployLacksInput(r) \/ DeployFails(r)
  BY OverEffect, <1>2 DEF NoticeCancel, RequestFails, DeployLacksInput, DeployFails, Fail
<1>3. CASE ApplyLookup(r)
  BY <1>3, LookupEffect
<1>4. CASE ApplyDecide(r)
  BY <1>4, DecideEffect
<1>5. CASE RequestCertificate(r)
  BY <1>5, RequestEffect
<1>6. CASE DeployDecide(r)
  BY <1>6, DeployDecideEffect
<1>7. CASE Deploy(r) \/ SaveDeployOutput(r) \/ SaveRenewed(r) \/ SaveApplyOutput(r)
  BY StayEffect, <1>7 DEF Deploy, SaveDeployOutput, SaveRenewed, SaveApplyOutput
<1>8. CASE Notify(r)
  BY <1>8, NotifyEffect
<1> QED BY <1>1, <1>2, <1>3, <1>4, <1>5, <1>6, <1>7, <1>8 DEF RunStep

\* A step keeps the executors apart.
LEMMA AloneRunStep ==
  ASSUME TypeOK, Alone, NEW r \in Runs, RunStep(r)
  PROVE  Alone'
<1>1. /\ \A s \in Runs : s # r => exec'[s] = exec[s]
      /\ exec'[r].stopped = exec[r].stopped
      /\ \A s \in Runs : s < r => exec[s].pc = "over"
      /\ \A s \in Runs : r < s => exec[s].pc = "idle"
  BY OneAtATime, OnlyItsOwn
<1>2. \A s, t \in Runs : s \in Nat /\ t \in Nat
  BY RunsAssumption
<1> QED BY <1>1, <1>2 DEF Alone

\* What the apply node works with.
Data == <<certs, issued, applyOutputs, revoking>>

\* The steps outside the apply node leave its rows alone.
LEMMA LaterKinds ==
  ASSUME TypeOK, NEW r \in Runs,
         \/ StartRun(r) \/ NoticeCancel(r) \/ RequestFails(r) \/ DeployDecide(r)
         \/ DeployLacksInput(r) \/ Deploy(r) \/ DeployFails(r) \/ SaveDeployOutput(r) \/ Notify(r)
  PROVE  /\ exec[r].pc # "decide" /\ exec[r].pc \notin {"renew", "save"}
         /\ exec'[r].pc \in {"apply", "deploying", "record", "notify", "over"}
         /\ exec'[r].pc = "apply" => exec[r].pc = "idle"
         /\ UNCHANGED Data /\ clock' \in Nat /\ clock <= clock'
<1>a. clock \in Nat
  BY DEF TypeOK
<1>1. CASE StartRun(r)
  <2>1. UNCHANGED <<Data, clock>>
    BY <1>1 DEF StartRun, Data, rowVars, userVars
  <2> QED BY <1>a, <1>1, <2>1, StartEffect DEF Data
<1>2. CASE NoticeCancel(r) \/ DeployLacksInput(r)
  BY <1>a, OverEffect, <1>2 DEF NoticeCancel, DeployLacksInput, Enters, Data, rowVars, userVars
<1>3. CASE RequestFails(r) \/ DeployFails(r)
  BY <1>a, OverEffect, <1>3 DEF RequestFails, DeployFails, Fail, Data, rowVars, userVars
<1>4. CASE DeployDecide(r)
  BY <1>a, <1>4, DeployDecideEffect DEF Data
<1>5. CASE Deploy(r) \/ SaveDeployOutput(r)
  BY <1>a, <1>5, StayEffect DEF Deploy, SaveDeployOutput, Data, rowVars, userVars
<1>6. CASE Notify(r)
  <2>1. exec[r].pc = "notify" /\ UNCHANGED <<Data, clock>>
    BY <1>6 DEF Notify, Enters, Data, rowVars, userVars
  <2> QED BY <1>a, <1>6, <2>1, NotifyEffect DEF Data
<1> QED BY <1>1, <1>2, <1>3, <1>4, <1>5, <1>6

\* They keep the invariant.
LEMMA LaterStep ==
  ASSUME RenewalInv, RenewalInv', SequelInv, NEW r \in Runs,
         \/ StartRun(r) \/ NoticeCancel(r) \/ RequestFails(r) \/ DeployDecide(r)
         \/ DeployLacksInput(r) \/ Deploy(r) \/ DeployFails(r) \/ SaveDeployOutput(r) \/ Notify(r)
  PROVE  SequelInv'
<1>a. TypeOK /\ RunStep(r)
  BY DEF RenewalInv, RunStep
<1>b. /\ \A s \in Runs : s # r => exec'[s] = exec[s]
      /\ exec[r].pc # "decide" /\ exec[r].pc \notin {"renew", "save"}
      /\ exec'[r].pc \in {"apply", "deploying", "record", "notify", "over"}
      /\ exec'[r].pc = "apply" => exec[r].pc = "idle"
      /\ UNCHANGED <<certs, issued, applyOutputs, revoking>> /\ clock' \in Nat /\ clock <= clock'
  BY <1>a, LaterKinds, OnlyItsOwn DEF Data
<1>c. /\ \A c \in Certs : certs[c].run \in {NoRun} \cup Runs
      /\ \A o \in applyOutputs : o.run \in Runs /\ o.at \in Nat
      /\ issued \in Nat /\ clock \in Nat
  BY BoundsAssumption DEF RenewalInv, TypeOK, CertRow, ApplyOutput
<1>d. due' = due
  BY DEF StartRun, NoticeCancel, RequestFails, DeployDecide, DeployLacksInput, Deploy, DeployFails,
         SaveDeployOutput, Notify, userVars
<1>1. Alone'
  BY <1>a, AloneRunStep DEF SequelInv
<1>2. Once'
  <2>0. \A s \in Runs : exec'[s].pc \in {"idle", "apply", "decide", "request", "renew", "save"} =>
          exec[s].pc \in {"idle", "apply", "decide", "request", "renew", "save"}
    BY <1>b
  <2>1. \A s \in Runs : exec'[s].pc \in {"idle", "apply", "decide", "request"} =>
          exec[s].pc \in {"idle", "apply", "decide", "request"}
    BY <1>b
  <2> QED BY <1>b, <1>c, <2>0, <2>1 DEF SequelInv, Once
<1>3. InTime'
  BY <1>b, <1>c DEF SequelInv, InTime
<1>4. NewestLast' /\ Revokes'
  BY <1>b DEF SequelInv, NewestLast, Latest, Revokes
<1>5. NewIsNewest' /\ KnowsNewest'
  BY <1>b DEF SequelInv, NewIsNewest, KnowsNewest
<1>6. RequestNeeded'
  BY <1>b, <1>d DEF SequelInv, RequestNeeded, Needed
<1> QED BY <1>1, <1>2, <1>3, <1>4, <1>5, <1>6 DEF SequelInv

\* The others are at rest.
LEMMA OthersRest ==
  ASSUME TypeOK, Alone, NEW r \in Runs, RunStep(r)
  PROVE  \A s \in Runs : s # r => exec'[s] = exec[s] /\ exec[s].pc \in {"idle", "over"}
<1>1. /\ \A s \in Runs : s # r => exec'[s] = exec[s]
      /\ \A s \in Runs : s < r => exec[s].pc = "over"
      /\ \A s \in Runs : r < s => exec[s].pc = "idle"
  BY OneAtATime, OnlyItsOwn
<1>2. \A s \in Runs : s # r => s < r \/ r < s
  BY RunsAssumption
<1> QED BY <1>1, <1>2

\* The last output is that of the newest certificate, if that has one.
LEMMA LookupStep ==
  ASSUME RenewalInv, SequelInv, NEW r \in Runs, ApplyLookup(r)
  PROVE  SequelInv'
<1>a. TypeOK /\ RunStep(r)
  BY DEF RenewalInv, RunStep
<1>b. /\ \A s \in Runs : s # r => exec'[s] = exec[s]
      /\ exec[r].pc = "apply" /\ exec'[r].pc = "decide"
      /\ exec'[r].graph = exec[r].graph
      /\ \/ applyOutputs = {} /\ exec'[r].last = exec[r].last
         \/ \E o \in applyOutputs :
              /\ Latest(o, applyOutputs) /\ exec'[r].last = o.run
              /\ exec'[r].same <=> o.config = exec[r].graph.apply
      /\ UNCHANGED <<certs, issued, applyOutputs, clock, due, revoking>>
  BY <1>a, LookupEffect
<1>c. /\ \A c \in Certs : certs[c].run \in {NoRun} \cup Runs
      /\ \A o \in applyOutputs : o.run \in Runs /\ o.at \in Nat
  BY DEF RenewalInv, TypeOK, CertRow, ApplyOutput
<1>1. Alone'
  BY <1>a, AloneRunStep DEF SequelInv
<1>2. Once'
  <2>0. \A s \in Runs : exec'[s].pc \in {"idle", "apply", "decide", "request", "renew", "save"} =>
          exec[s].pc \in {"idle", "apply", "decide", "request", "renew", "save"}
    BY <1>b
  <2>1. \A s \in Runs : exec'[s].pc \in {"idle", "apply", "decide", "request"} =>
          exec[s].pc \in {"idle", "apply", "decide", "request"}
    BY <1>b
  <2> QED BY <1>b, <1>c, <2>0, <2>1 DEF SequelInv, Once
<1>3. InTime' /\ NewestLast' /\ Revokes'
  BY <1>b DEF SequelInv, InTime, NewestLast, Latest, Revokes
<1>4. NewIsNewest' /\ RequestNeeded'
  BY <1>b DEF SequelInv, NewIsNewest, RequestNeeded, Needed
<1>5. KnowsNewest'
  <2> SUFFICES ASSUME NEW s \in Runs, exec'[s].pc = "decide", issued > 0,
                      NEW o \in applyOutputs, o.run = certs[issued].run
               PROVE  exec'[s].last = o.run /\ (exec'[s].same <=> o.config = exec'[s].graph.apply)
    BY <1>b DEF KnowsNewest
  <2>1. CASE s = r
    <3>1. PICK p \in applyOutputs : /\ Latest(p, applyOutputs) /\ exec'[r].last = p.run
                                    /\ exec'[r].same <=> p.config = exec[r].graph.apply
      BY <1>b
    <3>2. Latest(o, applyOutputs)
      BY DEF SequelInv, NewestLast
    <3>3. p.at = o.at
      BY <1>c, <3>1, <3>2 DEF Latest
    <3>4. p = o
      BY <3>3 DEF SequelInv, InTime
    <3> QED BY <1>b, <2>1, <3>1, <3>4
  <2>2. CASE s # r
    BY <1>b, <2>2 DEF SequelInv, KnowsNewest
  <2> QED BY <2>1, <2>2
<1> QED BY <1>1, <1>2, <1>3, <1>4, <1>5 DEF SequelInv

\* A run that decides for a request has seen that the newest certificate is of no use.
LEMMA DecideStep ==
  ASSUME RenewalInv, SequelInv, NEW r \in Runs, ApplyDecide(r)
  PROVE  SequelInv'
<1>a. TypeOK /\ RunStep(r)
  BY DEF RenewalInv, RunStep
<1>b. /\ \A s \in Runs : s # r => exec'[s] = exec[s]
      /\ exec[r].pc = "decide" /\ exec'[r].pc \in {"request", "deploy"}
      /\ exec'[r].graph = exec[r].graph
      /\ UNCHANGED <<certs, issued, applyOutputs, clock, due, revoking>>
  BY <1>a, DecideEffect
<1>c. /\ \A c \in Certs : certs[c] \in CertRow /\ certs[c].run \in {NoRun} \cup Runs
      /\ \A o \in applyOutputs : o.run \in Runs /\ o.at \in Nat
      /\ issued \in 0..MaxCerts /\ exec[r].same \in BOOLEAN
  BY DEF RenewalInv, TypeOK, CertRow, ApplyOutput, ExecState
<1>1. Alone'
  BY <1>a, AloneRunStep DEF SequelInv
<1>2. Once'
  <2>0. \A s \in Runs : exec'[s].pc \in {"idle", "apply", "decide", "request", "renew", "save"} =>
          exec[s].pc \in {"idle", "apply", "decide", "request", "renew", "save"}
    BY <1>b
  <2>1. \A s \in Runs : exec'[s].pc \in {"idle", "apply", "decide", "request"} =>
          exec[s].pc \in {"idle", "apply", "decide", "request"}
    BY <1>b
  <2> QED BY <1>b, <1>c, <2>0, <2>1 DEF SequelInv, Once
<1>3. InTime' /\ NewestLast' /\ Revokes'
  BY <1>b DEF SequelInv, InTime, NewestLast, Latest, Revokes
<1>4. NewIsNewest' /\ KnowsNewest'
  BY <1>b DEF SequelInv, NewIsNewest, KnowsNewest
<1>5. ASSUME exec'[r].pc = "request", issued > 0 PROVE Needed(r)
  <2> SUFFICES ASSUME NEW o \in applyOutputs, o.run = certs[issued].run, ~certs[issued].gone,
                      certs[issued].config = exec[r].graph.apply
               PROVE  certs[issued].revoked \/ issued \in due
    BY DEF Needed
  <2>1. issued \in Certs
    BY <1>c, <1>5 DEF Certs
  <2>2. exec[r].last = o.run /\ (exec[r].same <=> o.config = exec[r].graph.apply)
    BY <1>b, <1>5 DEF SequelInv, KnowsNewest
  <2>3. o.run # NoRun /\ o.config = certs[issued].config
    BY <1>c, <2>1, RunsArePositive DEF RenewalInv, OutputsOK, RequestedOK
  <2>4. issued \in Saved(exec[r].last)
    BY <2>1, <2>2 DEF Saved
  <2>5. PICK c \in Saved(exec[r].last) :
          /\ \A d \in Saved(exec[r].last) : d <= c
          /\ ~(exec[r].same /\ ~certs[c].revoked /\ c \notin due)
    BY <1>a, <1>5, <2>2, <2>3, <2>4, DecideEffect
  <2>6. c \in Certs /\ certs[c].run = o.run
    BY <2>2, <2>5 DEF Saved
  <2>7. c = issued
    BY <2>1, <2>3, <2>6 DEF SequelInv, Once
  <2> QED BY <2>2, <2>3, <2>5, <2>7
<1>6. RequestNeeded'
  BY <1>b, <1>5 DEF SequelInv, RequestNeeded, Needed
<1> QED BY <1>1, <1>2, <1>3, <1>4, <1>6 DEF SequelInv

\* A new certificate is the newest, and its run has no output yet.
LEMMA NewStep ==
  ASSUME RenewalInv, SequelInv, NEW r \in Runs, RequestCertificate(r)
  PROVE  SequelInv'
<1>a. TypeOK /\ RunStep(r)
  BY DEF RenewalInv, RunStep
<1>b. /\ \A s \in Runs : s # r => exec'[s] = exec[s] /\ exec[s].pc \in {"idle", "over"}
      /\ exec[r].pc = "request" /\ exec'[r].pc \in {"renew", "save"}
      /\ exec'[r].cert = issued + 1 /\ exec'[r].graph = exec[r].graph
      /\ issued + 1 \in Certs /\ issued' = issued + 1 /\ clock' = clock + 1
      /\ \A c \in Certs : c # issued + 1 => certs'[c] = certs[c]
      /\ certs'[issued + 1].run = r
      /\ UNCHANGED <<applyOutputs, revoking>>
  BY <1>a, RequestEffect, OthersRest DEF SequelInv
<1>c. /\ \A c \in Certs : certs[c].run \in {NoRun} \cup Runs
      /\ \A o \in applyOutputs : o.run \in Runs /\ o.at \in Nat
      /\ issued \in Nat /\ clock \in Nat
  BY BoundsAssumption DEF RenewalInv, TypeOK, CertRow, ApplyOutput
<1>d. /\ \A c \in Certs : certs[c].run # r
      /\ \A o \in applyOutputs : o.run # r
  BY <1>b, RunsArePositive DEF SequelInv, Once
<1>1. Alone'
  BY <1>a, AloneRunStep DEF SequelInv
<1>2. Once'
  <2>1. \A s \in Runs : s # r => exec'[s] = exec[s]
    BY <1>b
  <2>2. \A c \in Certs : certs'[c].run = IF c = issued + 1 THEN r ELSE certs[c].run
    BY <1>b
  <2>3. /\ exec'[r].pc \notin {"idle", "apply", "decide", "request"}
        /\ UNCHANGED applyOutputs
    BY <1>b
  <2>4. ASSUME NEW c \in Certs, certs'[c].run # NoRun
        PROVE  exec'[certs'[c].run].pc \notin {"idle", "apply", "decide", "request"}
    BY <1>c, <1>d, <2>1, <2>2, <2>3, <2>4 DEF SequelInv, Once
  <2>5. ASSUME NEW c \in Certs, NEW d \in Certs, certs'[c].run # NoRun,
               certs'[d].run = certs'[c].run
        PROVE  d = c
    BY <1>c, <1>d, <2>2, <2>5 DEF SequelInv, Once
  <2>6. ASSUME NEW o \in applyOutputs
        PROVE  exec'[o.run].pc \notin {"idle", "apply", "decide", "request", "renew", "save"}
    BY <1>c, <1>d, <2>1 DEF SequelInv, Once
  <2> QED BY <2>3, <2>4, <2>5, <2>6 DEF Once
<1>3. InTime'
  BY <1>b, <1>c DEF SequelInv, InTime
<1>4. NewestLast' /\ Revokes'
  BY <1>b, <1>d DEF SequelInv, NewestLast, Revokes
<1>5. NewIsNewest'
  BY <1>b, <1>c DEF NewIsNewest
<1>6. KnowsNewest' /\ RequestNeeded'
  BY <1>b DEF KnowsNewest, RequestNeeded
<1> QED BY <1>1, <1>2, <1>3, <1>4, <1>5, <1>6 DEF SequelInv

\* What saving a copy leaves of the other columns.
LEMMA CopyEffect ==
  ASSUME certs \in [Certs -> CertRow], NEW copy \in RowCopy, SaveCopy(copy)
  PROVE  \A c \in Certs :
           /\ certs'[c].run = certs[c].run /\ certs'[c].config = certs[c].config
           /\ certs'[c].at = certs[c].at /\ certs'[c].gone = certs[c].gone
           /\ copy.revoked /\ certs[c].revoked => certs'[c].revoked
<1>1. CASE copy.id \in Certs
  <2>1. certs[copy.id] \in CertRow /\ copy.renewed \in BOOLEAN /\ copy.revoked \in BOOLEAN
    BY <1>1 DEF RowCopy
  <2> DEFINE k == [certs[copy.id] EXCEPT !.renewed = copy.renewed, !.revoked = copy.revoked]
  <2>2. /\ k.run = certs[copy.id].run /\ k.config = certs[copy.id].config
        /\ k.at = certs[copy.id].at /\ k.gone = certs[copy.id].gone /\ k.revoked = copy.revoked
    BY <2>1 DEF CertRow
  <2>3. certs' = certs \/ certs' = [certs EXCEPT ![copy.id] = k]
    BY <1>1 DEF SaveCopy
  <2> HIDE DEF k
  <2> QED BY <2>2, <2>3
<1>2. CASE copy.id \notin Certs
  BY <1>2 DEF SaveCopy
<1> QED BY <1>1, <1>2

\* Saving the old certificate changes no run.
LEMMA RenewStep ==
  ASSUME RenewalInv, SequelInv, NEW r \in Runs, SaveRenewed(r)
  PROVE  SequelInv'
<1>a. TypeOK /\ RunStep(r)
  BY DEF RenewalInv, RunStep
<1>b. /\ \A s \in Runs : s # r => exec'[s] = exec[s] /\ exec[s].pc \in {"idle", "over"}
      /\ exec[r].pc = "renew" /\ exec'[r].pc = "save"
      /\ exec'[r].cert = exec[r].cert /\ exec'[r].graph = exec[r].graph
      /\ UNCHANGED <<issued, applyOutputs, clock, revoking>>
  BY <1>a, StayEffect, OthersRest DEF SequelInv, SaveRenewed, userVars
<1>c. /\ \A c \in Certs : certs[c].run \in {NoRun} \cup Runs
      /\ \A o \in applyOutputs : o.run \in Runs /\ o.at \in Nat
      /\ issued \in 0..MaxCerts /\ clock \in Nat
  BY DEF RenewalInv, TypeOK, CertRow, ApplyOutput
<1>d. \A c \in Certs : certs'[c].run = certs[c].run
  <2>1. [exec[r].old EXCEPT !.renewed = TRUE] \in RowCopy
    BY DEF RenewalInv, TypeOK, ExecState, RowCopy
  <2> QED BY <2>1, CopyEffect DEF RenewalInv, TypeOK, SaveRenewed
<1>1. Alone'
  BY <1>a, AloneRunStep DEF SequelInv
<1>2. Once'
  BY <1>b, <1>c, <1>d DEF SequelInv, Once
<1>3. InTime' /\ Revokes'
  BY <1>b DEF SequelInv, InTime, Revokes
<1>4. NewestLast'
  BY <1>b, <1>c, <1>d DEF SequelInv, NewestLast, Latest, Certs
<1>5. NewIsNewest'
  BY <1>b DEF SequelInv, NewIsNewest
<1>6. KnowsNewest' /\ RequestNeeded'
  BY <1>b DEF KnowsNewest, RequestNeeded
<1> QED BY <1>1, <1>2, <1>3, <1>4, <1>5, <1>6 DEF SequelInv

\* The output that is saved is the last one.
LEMMA SaveStep ==
  ASSUME RenewalInv, SequelInv, NEW r \in Runs, SaveApplyOutput(r)
  PROVE  SequelInv'
<1>a. TypeOK /\ RunStep(r)
  BY DEF RenewalInv, RunStep
<1>b. /\ \A s \in Runs : s # r => exec'[s] = exec[s] /\ exec[s].pc \in {"idle", "over"}
      /\ exec[r].pc = "save" /\ exec'[r].pc = "deploy"
      /\ exec'[r].cert = exec[r].cert /\ exec'[r].graph = exec[r].graph
      /\ UNCHANGED <<certs, issued, revoking>> /\ clock' = clock + 1
  BY <1>a, StayEffect, OthersRest DEF SequelInv, SaveApplyOutput, userVars
<1>c. /\ \A c \in Certs : certs[c].run \in {NoRun} \cup Runs
      /\ \A o \in applyOutputs : o.run \in Runs /\ o.at \in Nat
      /\ issued \in 0..MaxCerts /\ clock \in Nat
  BY DEF RenewalInv, TypeOK, CertRow, ApplyOutput
<1> DEFINE new == [run |-> r, config |-> exec[r].graph.apply, at |-> clock]
<1>d. /\ applyOutputs' = applyOutputs \/ (Fresh(r) /\ applyOutputs' = applyOutputs \cup {new})
      /\ new.run = r /\ new.at = clock
  BY DEF SaveApplyOutput
<1> HIDE DEF new
<1>e. /\ \A o \in applyOutputs : o.run # r
      /\ issued > 0 /\ (Fresh(r) => certs[issued].run = r)
  <2>1. exec[r].cert = issued /\ issued > 0
    BY <1>b DEF SequelInv, NewIsNewest
  <2> QED BY <1>b, <2>1 DEF SequelInv, Once, RenewalInv, ExecOK
<1>1. Alone'
  BY <1>a, AloneRunStep DEF SequelInv
<1>2. Once'
  BY <1>b, <1>c, <1>d DEF SequelInv, Once
<1>3. InTime'
  <2>1. \A o \in applyOutputs' : o \in applyOutputs \/ o = new
    BY <1>d
  <2>2. \A o \in applyOutputs : o.at < clock /\ o.at \in Nat
    BY <1>c DEF SequelInv, InTime
  <2> QED BY <1>b, <1>c, <1>d, <2>1, <2>2 DEF SequelInv, InTime
<1>4. NewestLast'
  <2>1. CASE applyOutputs' = applyOutputs
    BY <1>b, <2>1 DEF SequelInv, NewestLast, Latest
  <2>2. CASE Fresh(r) /\ applyOutputs' = applyOutputs \cup {new}
    <3>1. \A o \in applyOutputs' : o.run = certs[issued].run => o = new
      BY <1>d, <1>e, <2>2
    <3>2. Latest(new, applyOutputs')
      BY <1>c, <1>d, <2>2 DEF SequelInv, InTime, Latest
    <3> QED BY <1>b, <3>1, <3>2 DEF NewestLast, Latest
  <2> QED BY <1>d, <2>1, <2>2
<1>5. NewIsNewest' /\ Revokes'
  BY <1>b DEF SequelInv, NewIsNewest, Revokes
<1>6. KnowsNewest' /\ RequestNeeded'
  BY <1>b DEF KnowsNewest, RequestNeeded
<1> QED BY <1>1, <1>2, <1>3, <1>4, <1>5, <1>6 DEF SequelInv

\* Certificates that only get worse and outputs that only go keep the invariant.
LEMMA MeanwhileStep ==
  ASSUME RenewalInv, SequelInv,
         UNCHANGED <<exec, issued, clock>>,
         applyOutputs' \subseteq applyOutputs, due \subseteq due',
         Revokes',
         \A c \in Certs :
           /\ certs'[c].run \in {certs[c].run, NoRun} /\ certs'[c].config = certs[c].config
           /\ certs[c].revoked => certs'[c].revoked
           /\ certs[c].gone => certs'[c].gone
  PROVE  SequelInv'
<1>c. /\ \A c \in Certs : certs[c].run \in {NoRun} \cup Runs
      /\ \A o \in applyOutputs : o.run \in Runs /\ o.at \in Nat
      /\ issued > 0 => issued \in Certs
  BY RunsArePositive DEF RenewalInv, TypeOK, CertRow, ApplyOutput, Certs
<1>n. NoRun \notin Runs
  BY RunsArePositive
<1>1. Alone'
  BY DEF SequelInv, Alone
<1>2. Once'
  BY <1>c DEF SequelInv, Once
<1>3. InTime'
  BY DEF SequelInv, InTime
<1>4. NewestLast'
  BY <1>c, <1>n DEF SequelInv, NewestLast, Latest
<1>5. NewIsNewest'
  BY DEF SequelInv, NewIsNewest
<1>6. KnowsNewest'
  BY <1>c, <1>n DEF SequelInv, KnowsNewest
<1>7. RequestNeeded'
  BY <1>c, <1>n DEF SequelInv, RequestNeeded, Needed
<1> QED BY <1>1, <1>2, <1>3, <1>4, <1>5, <1>6, <1>7 DEF SequelInv

\* A crash leaves the rows.
LEMMA CrashEffect ==
  ASSUME TypeOK, Crash
  PROVE  /\ \A s \in Runs : IF exec[s].pc = "idle" THEN exec'[s] = exec[s]
                            ELSE exec'[s].pc = "over" /\ exec'[s].stopped = exec[s].stopped
         /\ UNCHANGED <<row, certs, issued, applyOutputs, deployOutputs, clock, deployed, due>>
         /\ revoking' = NoCopy
BY DEF Crash, TypeOK, ExecState, runVars, rowVars

LEMMA SequelCrashStep == ASSUME RenewalInv, SequelInv, Crash PROVE SequelInv'
<1>a. /\ \A s \in Runs : IF exec[s].pc = "idle" THEN exec'[s] = exec[s]
                         ELSE exec'[s].pc = "over" /\ exec'[s].stopped = exec[s].stopped
      /\ UNCHANGED <<certs, issued, applyOutputs, clock, due>> /\ revoking' = NoCopy
  BY CrashEffect DEF RenewalInv
<1>c. /\ \A c \in Certs : certs[c].run \in {NoRun} \cup Runs
      /\ \A o \in applyOutputs : o.run \in Runs
  BY DEF RenewalInv, TypeOK, CertRow, ApplyOutput
<1>1. Alone'
  BY <1>a DEF SequelInv, Alone
<1>2. Once'
  BY <1>a, <1>c DEF SequelInv, Once
<1>3. InTime' /\ NewestLast' /\ Revokes'
  BY <1>a DEF SequelInv, InTime, NewestLast, Latest, Revokes
<1>4. NewIsNewest' /\ KnowsNewest' /\ RequestNeeded'
  BY <1>a DEF NewIsNewest, KnowsNewest, RequestNeeded
<1> QED BY <1>1, <1>2, <1>3, <1>4 DEF SequelInv

\* Retention leaves newer outputs than it takes, and forgets the runs it takes.
LEMMA SequelCleanupStep ==
  ASSUME RenewalInv, SequelInv, NEW k \in 0..Len(ended), CleanupRuns(k)
  PROVE  SequelInv'
<1> DEFINE expired == {r \in Runs : row[r] = "canceled" \/ \E i \in 1..k : ended[i] = r}
<1>a. /\ certs' = [c \in Certs |->
           IF certs[c].run \in expired THEN [certs[c] EXCEPT !.run = NoRun] ELSE certs[c]]
      /\ applyOutputs' = {o \in applyOutputs : o.run \notin expired}
      /\ UNCHANGED <<exec, issued, clock, due, revoking>>
  BY DEF CleanupRuns, userVars
<1> HIDE DEF expired
<1>b. \A c \in Certs :
        /\ certs'[c].run \in {certs[c].run, NoRun} /\ certs'[c].config = certs[c].config
        /\ certs'[c].revoked = certs[c].revoked /\ certs'[c].gone = certs[c].gone
  <2>1. \A c \in Certs : certs[c] \in CertRow
    BY DEF RenewalInv, TypeOK
  <2> QED BY <1>a, <2>1 DEF CertRow
<1>c. Revokes'
  BY <1>a DEF SequelInv, Revokes
<1> QED BY <1>a, <1>b, <1>c, MeanwhileStep

\* So does all that happens meanwhile, but for Cancel.
LEMMA SequelOtherStep ==
  ASSUME RenewalInv, SequelInv, "cancel" \notin Events, Next, \A r \in Runs : ~RunStep(r)
  PROVE  SequelInv'
<1>0. \A r \in Runs : ~Cancel(r)
  BY DEF Cancel, Event
<1>a. ASSUME UNCHANGED <<exec, issued, clock, certs, applyOutputs>>, due \subseteq due', Revokes'
      PROVE  SequelInv'
  BY <1>a, MeanwhileStep
<1>b. \A c \in Certs : certs[c] \in CertRow
  BY DEF RenewalInv, TypeOK
<1>2. CASE Crash
  BY <1>2, SequelCrashStep
<1>3. ASSUME NEW c \in Certs, BecomesDue(c) PROVE SequelInv'
  BY <1>3, <1>a DEF BecomesDue, rowVars, SequelInv, Revokes
<1>4. ASSUME NEW c \in Certs, RevokeRead(c) PROVE SequelInv'
  BY <1>4, <1>a DEF RevokeRead, CopyOf, rowVars, Revokes
<1>5. ASSUME NEW c \in Certs, DeleteCertificate(c) PROVE SequelInv'
  <2>1. \A d \in Certs :
          /\ certs'[d].run = certs[d].run /\ certs'[d].config = certs[d].config
          /\ certs'[d].revoked = certs[d].revoked /\ (certs[d].gone => certs'[d].gone)
    BY <1>5, <1>b DEF DeleteCertificate, RenewalInv, TypeOK, CertRow
  <2>2. UNCHANGED <<exec, issued, clock, applyOutputs, due>> /\ Revokes'
    BY <1>5 DEF DeleteCertificate, userVars, SequelInv, Revokes
  <2> QED BY <2>1, <2>2, MeanwhileStep
<1>6. CASE RevokeSave
  <2>1. /\ UNCHANGED <<exec, issued, clock, applyOutputs, due>> /\ Revokes'
        /\ revoking.revoked
    BY <1>6 DEF RevokeSave, SequelInv, Revokes
  <2>2. revoking \in RowCopy /\ certs \in [Certs -> CertRow] /\ SaveCopy(revoking)
    BY <1>6 DEF RenewalInv, TypeOK, RevokeSave
  <2> QED BY <2>1, <2>2, CopyEffect, MeanwhileStep
<1>7. ASSUME NEW config, EditApply(config) \/ EditDeploy(config) PROVE SequelInv'
  BY <1>7, <1>a DEF EditApply, EditDeploy, rowVars, SequelInv, Revokes
<1>8. ASSUME NEW k \in 0..Len(ended), CleanupRuns(k) PROVE SequelInv'
  BY <1>8, SequelCleanupStep
<1> QED
  BY <1>0, <1>2, <1>3, <1>4, <1>5, <1>6, <1>7, <1>8 DEF Next

LEMMA InitSequel == Init => SequelInv
<1> SUFFICES ASSUME Init PROVE SequelInv
  OBVIOUS
<1>1. IdleExec.pc = "idle" /\ ~IdleExec.stopped
  BY DEF IdleExec
<1>2. /\ \A r \in Runs : exec[r].pc = "idle" /\ ~exec[r].stopped
      /\ \A c \in Certs : certs[c].run = NoRun
      /\ applyOutputs = {} /\ issued = 0 /\ revoking = NoCopy
  BY <1>1 DEF Init, NoRow
<1> QED
  BY <1>2 DEF SequelInv, Alone, Once, InTime, NewestLast, NewIsNewest, KnowsNewest,
              RequestNeeded, Revokes

\* The invariant is inductive, relative to RenewalInv.
LEMMA NextSequel ==
  ASSUME "cancel" \notin Events, RenewalInv, RenewalInv', SequelInv, [Next]_vars
  PROVE  SequelInv'
<1>1. ASSUME NEW r \in Runs, RunStep(r) PROVE SequelInv'
  BY <1>1, LaterStep, LookupStep, DecideStep, NewStep, RenewStep, SaveStep DEF RunStep
<1>2. CASE UNCHANGED vars
  <2>1. UNCHANGED <<exec, issued, clock, certs, applyOutputs, due, revoking>> /\ Revokes'
    BY <1>2 DEF vars, runVars, rowVars, userVars, SequelInv, Revokes
  <2> QED BY <2>1, MeanwhileStep
<1> QED BY <1>1, <1>2, SequelOtherStep

LEMMA SequelInvHolds == ASSUME "cancel" \notin Events PROVE Spec => []SequelInv
<1>1. RenewalInv /\ RenewalInv' /\ SequelInv /\ [Next]_vars => SequelInv'
  BY NextSequel
<1> QED BY <1>1, InitSequel, RenewalInvHolds, PTL DEF Spec

\* Unless a run is canceled, so that its executor overlaps with the next, the apply
\* node (executor_bizapply.go) requests a certificate only when the newest one is of
\* no use: whatever is edited, revoked or deleted, wherever a run fails or crashes,
\* and whichever rows the retention takes.
THEOREM RequestsAreNeededHolds ==
  ASSUME "cancel" \notin Events
  PROVE  Spec => RequestsAreNeeded
<1> DEFINE Step == \A r \in Runs : RequestCertificate(r) /\ issued > 0 =>
       \/ certs[issued].config # exec[r].graph.apply
       \/ certs[issued].revoked \/ certs[issued].gone \/ issued \in due
       \/ ~\E o \in applyOutputs : o.run = certs[issued].run
<1>1. SequelInv => [Step]_vars
  BY DEF SequelInv, RequestNeeded, Needed, RequestCertificate
<1>2. Spec => []SequelInv
  BY SequelInvHolds
<1>3. Spec => [][Step]_vars
  BY <1>1, <1>2, PTL
<1> QED BY <1>3 DEF RequestsAreNeeded

-----------------------------------------------------------------------------
(* Where the certificates are, when no row of a run is deleted either.         *)

\* The certificate of the last output of the apply node.
Current ==
  {c \in Certs : \E o \in applyOutputs : Latest(o, applyOutputs) /\ certs[c].run = o.run}

LooksAtLatest ==
  \A r \in Runs : exec[r].pc = "decide" /\ exec[r].last # NoRun =>
    \E o \in applyOutputs : Latest(o, applyOutputs) /\ o.run = exec[r].last

\* The run hands that certificate on, be it new or found.
HandsOnCurrent ==
  \A r \in Runs : exec[r].pc \in {"deploy", "deploying", "record", "notify"} =>
    exec[r].cert \in Current

\* A new certificate is younger than every output of the deploy node.
NewIsUndeployed ==
  \A r \in Runs : exec[r].pc \in {"renew", "save"} =>
    \A o \in deployOutputs : o.at <= certs[exec[r].cert].at

\* The heart of it: while the last output of the deploy node is younger than the
\* certificate, its target has the certificate, whatever failed or crashed since.
LastIsInPlace ==
  \A o \in deployOutputs : \A c \in Current :
    Latest(o, deployOutputs) /\ certs[c].at < o.at => deployed[Target(o.config)] = c

InPlace ==
  \A r \in Runs : exec[r].pc \in {"record", "notify"} =>
    deployed[Target(exec[r].graph.deploy)] = exec[r].cert

PassedInv ==
  /\ SequelInv /\ \A r \in Runs : Fresh(r)
  /\ \A o \in deployOutputs : o.at < clock
  /\ LooksAtLatest /\ HandsOnCurrent /\ NewIsUndeployed /\ LastIsInPlace /\ InPlace

\* There is at most one current certificate.
LEMMA CurrentIsOne ==
  ASSUME RenewalInv, SequelInv, NEW c \in Current, NEW d \in Current
  PROVE  c = d /\ c \in Certs
<1>1. PICK o \in applyOutputs : Latest(o, applyOutputs) /\ certs[c].run = o.run
  BY DEF Current
<1>2. PICK p \in applyOutputs : Latest(p, applyOutputs) /\ certs[d].run = p.run
  BY DEF Current
<1>3. /\ o.at \in Nat /\ p.at \in Nat /\ o.run \in Runs
      /\ p.at <= o.at /\ o.at <= p.at
  BY <1>1, <1>2 DEF RenewalInv, TypeOK, ApplyOutput, Latest
<1>4. o = p
  BY <1>3 DEF SequelInv, InTime
<1> QED BY <1>1, <1>2, <1>3, <1>4, RunsArePositive DEF SequelInv, Once, Current

\* No step of an executor deletes a row.
LEMMA FreshRunStep ==
  ASSUME TypeOK, NEW r \in Runs, RunStep(r), \A s \in Runs : Fresh(s)
  PROVE  \A s \in Runs : Fresh(s)'
<1>a. row \in [Runs -> RowState]
  BY DEF TypeOK
<1>1. ASSUME NEW status \in {"ended", "canceled"}, Over(r, status) PROVE \A s \in Runs : Fresh(s)'
  BY <1>1, <1>a DEF Over, Fresh
<1>2. CASE row' = row
  BY <1>2 DEF Fresh
<1>3. CASE StartRun(r)
  BY <1>3, <1>a DEF StartRun, Fresh
<1>4. CASE NoticeCancel(r) \/ RequestFails(r) \/ DeployLacksInput(r) \/ DeployFails(r)
  BY <1>1, <1>4 DEF NoticeCancel, RequestFails, DeployLacksInput, DeployFails, Fail
<1>5. CASE Notify(r)
  BY <1>5, <1>a DEF Notify, Fresh
<1>6. CASE \/ ApplyLookup(r) \/ ApplyDecide(r) \/ RequestCertificate(r) \/ SaveRenewed(r)
           \/ SaveApplyOutput(r) \/ DeployDecide(r) \/ Deploy(r) \/ SaveDeployOutput(r)
  BY <1>2, <1>6 DEF ApplyLookup, ApplyDecide, RequestCertificate, SaveRenewed, SaveApplyOutput,
     DeployDecide, Deploy, SaveDeployOutput, runVars
<1> QED BY <1>3, <1>4, <1>5, <1>6 DEF RunStep

\* Steps that leave the targets and the current certificate alone.
LEMMA QuietStep ==
  ASSUME RenewalInv, SequelInv, SequelInv', PassedInv, NEW r \in Runs, RunStep(r),
         UNCHANGED <<deployOutputs, deployed>>, clock' \in Nat, clock <= clock', Current' = Current,
         \A c \in Current : certs'[c].at = certs[c].at,
         exec'[r].pc = "decide" /\ exec'[r].last # NoRun =>
           \E o \in applyOutputs' : Latest(o, applyOutputs') /\ o.run = exec'[r].last,
         exec'[r].pc \in {"deploy", "deploying", "record", "notify"} => exec'[r].cert \in Current,
         exec'[r].pc \in {"renew", "save"} =>
           \A o \in deployOutputs : o.at <= certs'[exec'[r].cert].at,
         exec'[r].pc \in {"record", "notify"} =>
           deployed[Target(exec'[r].graph.deploy)] = exec'[r].cert
  PROVE  PassedInv'
<1>a. \A s \in Runs : s # r => exec'[s].pc \in {"idle", "over"}
  BY OthersRest DEF RenewalInv, SequelInv
<1>b. /\ \A o \in deployOutputs : o.at \in Nat
      /\ clock \in Nat
  BY DEF RenewalInv, TypeOK, DeployOutput
<1>1. \A s \in Runs : Fresh(s)'
  BY FreshRunStep DEF RenewalInv, PassedInv
<1>2. \A o \in deployOutputs' : o.at < clock'
  BY <1>b DEF PassedInv
<1>3. LooksAtLatest' /\ HandsOnCurrent'
  BY <1>a DEF LooksAtLatest, HandsOnCurrent
<1>4. NewIsUndeployed'
  BY <1>a DEF NewIsUndeployed
<1>5. LastIsInPlace'
  BY DEF PassedInv, LastIsInPlace, Latest
<1>6. InPlace'
  BY <1>a DEF InPlace
<1> QED BY <1>1, <1>2, <1>3, <1>4, <1>5, <1>6 DEF PassedInv

\* The current certificate changes with the outputs only.
LEMMA SameCurrent ==
  ASSUME UNCHANGED applyOutputs, \A c \in Certs : certs'[c].run = certs[c].run
  PROVE  Current' = Current
BY DEF Current, Latest

LEMMA PassedQuietSteps ==
  ASSUME RenewalInv, SequelInv, SequelInv', PassedInv, NEW r \in Runs,
         \/ StartRun(r) \/ NoticeCancel(r) \/ RequestFails(r) \/ DeployLacksInput(r) \/ Notify(r)
  PROVE  PassedInv'
<1>a. TypeOK /\ RunStep(r) /\ clock \in Nat
  BY DEF RenewalInv, RunStep, TypeOK
<1>1. exec'[r].pc \in {"apply", "over"}
  <2>1. CASE StartRun(r)
    BY <1>a, <2>1, StartEffect
  <2>2. CASE Notify(r)
    BY <1>a, <2>2, NotifyEffect
  <2>3. CASE NoticeCancel(r) \/ RequestFails(r) \/ DeployLacksInput(r)
    BY <1>a, <2>3, OverEffect DEF NoticeCancel, RequestFails, DeployLacksInput, Fail
  <2> QED BY <2>1, <2>2, <2>3
<1>2. UNCHANGED <<certs, applyOutputs, deployOutputs, deployed, clock>>
  BY DEF StartRun, NoticeCancel, RequestFails, DeployLacksInput, Notify, rowVars
<1>3. Current' = Current
  BY <1>2, SameCurrent
<1> QED BY <1>a, <1>1, <1>2, <1>3, QuietStep

LEMMA PassedLookupStep ==
  ASSUME RenewalInv, SequelInv, SequelInv', PassedInv, NEW r \in Runs, ApplyLookup(r)
  PROVE  PassedInv'
<1>a. TypeOK /\ RunStep(r) /\ clock \in Nat
  BY DEF RenewalInv, RunStep, TypeOK
<1>1. /\ exec[r].pc = "apply" /\ exec'[r].pc = "decide"
      /\ \/ applyOutputs = {} /\ exec'[r].last = exec[r].last
         \/ \E o \in applyOutputs : Latest(o, applyOutputs) /\ exec'[r].last = o.run
      /\ UNCHANGED <<certs, applyOutputs, deployOutputs, clock, deployed>>
  BY <1>a, LookupEffect
<1>2. exec[r].last = NoRun
  BY <1>1 DEF RenewalInv, ExecOK
<1>3. Current' = Current
  BY <1>1, SameCurrent
<1>4. exec'[r].last # NoRun =>
        \E o \in applyOutputs' : Latest(o, applyOutputs') /\ o.run = exec'[r].last
  BY <1>1, <1>2
<1> QED BY <1>a, <1>1, <1>3, <1>4, QuietStep

\* The certificate found is the current one.
LEMMA PassedDecideStep ==
  ASSUME RenewalInv, SequelInv, SequelInv', PassedInv, NEW r \in Runs, ApplyDecide(r)
  PROVE  PassedInv'
<1>a. TypeOK /\ RunStep(r) /\ clock \in Nat
  BY DEF RenewalInv, RunStep, TypeOK
<1>1. /\ exec[r].pc = "decide"
      /\ \/ exec'[r].pc = "request"
         \/ /\ exec[r].last # NoRun /\ exec'[r].pc = "deploy"
            /\ exec'[r].cert \in Saved(exec[r].last)
      /\ UNCHANGED <<certs, applyOutputs, deployOutputs, clock, deployed>>
  BY <1>a, DecideEffect
<1>2. exec'[r].pc = "deploy" => exec'[r].cert \in Current
  BY <1>1 DEF PassedInv, LooksAtLatest, Current, Saved
<1>3. Current' = Current
  BY <1>1, SameCurrent
<1> QED BY <1>a, <1>1, <1>2, <1>3, QuietStep

\* A new certificate is not current yet, and younger than all outputs.
LEMMA PassedRequestStep ==
  ASSUME RenewalInv, SequelInv, SequelInv', PassedInv, NEW r \in Runs, RequestCertificate(r)
  PROVE  PassedInv'
<1>a. TypeOK /\ RunStep(r) /\ clock \in Nat /\ issued \in Nat
  BY BoundsAssumption DEF RenewalInv, RunStep, TypeOK
<1>1. /\ exec[r].pc = "request" /\ exec'[r].pc \in {"renew", "save"}
      /\ exec'[r].cert = issued + 1 /\ issued + 1 \in Certs /\ clock' = clock + 1
      /\ \A c \in Certs : c # issued + 1 => certs'[c] = certs[c]
      /\ certs'[issued + 1].run = r /\ certs'[issued + 1].at = clock
      /\ UNCHANGED <<applyOutputs, deployOutputs, deployed>>
  BY <1>a, RequestEffect
<1>2. \A o \in applyOutputs : o.run # r /\ o.run # NoRun /\ o.run \in Runs
  BY <1>1, RunsArePositive DEF SequelInv, Once, RenewalInv, TypeOK, ApplyOutput
<1>3. certs[issued + 1].run = NoRun
  BY <1>a, <1>1 DEF RenewalInv, CertsOK
<1>4. Current' = Current
  BY <1>1, <1>2, <1>3 DEF Current, Latest
<1>5. \A c \in Current : certs'[c].at = certs[c].at
  BY <1>1, <1>2, <1>3 DEF Current
<1>6. \A o \in deployOutputs : o.at <= clock
  BY <1>a DEF PassedInv, RenewalInv, TypeOK, DeployOutput
<1> QED BY <1>a, <1>1, <1>4, <1>5, <1>6, QuietStep

LEMMA PassedRenewStep ==
  ASSUME RenewalInv, SequelInv, SequelInv', PassedInv, NEW r \in Runs, SaveRenewed(r)
  PROVE  PassedInv'
<1>a. TypeOK /\ RunStep(r) /\ clock \in Nat
  BY DEF RenewalInv, RunStep, TypeOK
<1>1. /\ exec[r].pc = "renew" /\ exec'[r].pc = "save" /\ exec'[r].cert = exec[r].cert
      /\ UNCHANGED <<applyOutputs, deployOutputs, deployed, clock>>
  BY <1>a, StayEffect DEF SaveRenewed
<1>2. \A c \in Certs : certs'[c].run = certs[c].run /\ certs'[c].at = certs[c].at
  <2>1. [exec[r].old EXCEPT !.renewed = TRUE] \in RowCopy
    BY <1>a DEF TypeOK, ExecState, RowCopy
  <2> QED BY <2>1, CopyEffect DEF RenewalInv, TypeOK, SaveRenewed
<1>3. Current' = Current
  BY <1>1, <1>2, SameCurrent
<1>4. exec[r].cert \in Certs
  <2>1. exec[r].cert \in {NoCert} \cup Certs
    BY <1>a DEF TypeOK, ExecState
  <2> QED BY <1>1, <2>1 DEF RenewalInv, ExecOK, PassedInv
<1>5. \A o \in deployOutputs : o.at <= certs'[exec'[r].cert].at
  BY <1>1, <1>2, <1>4 DEF PassedInv, NewIsUndeployed
<1> QED BY <1>a, <1>1, <1>2, <1>3, <1>5, QuietStep DEF Current

\* A deployment is skipped only at the place of the last output, whose target has the
\* certificate.
LEMMA PassedDeployDecideStep ==
  ASSUME \A a, b \in DeployConfigs : a.place = b.place => Target(a) = Target(b),
         RenewalInv, SequelInv, SequelInv', PassedInv, NEW r \in Runs, DeployDecide(r)
  PROVE  PassedInv'
<1>a. TypeOK /\ RunStep(r) /\ clock \in Nat
  BY DEF RenewalInv, RunStep, TypeOK
<1>1. /\ exec[r].pc = "deploy"
      /\ exec'[r].graph = exec[r].graph /\ exec'[r].cert = exec[r].cert
      /\ \/ exec'[r].pc = "deploying"
         \/ /\ exec'[r].pc = "notify"
            /\ \E o \in deployOutputs :
                 /\ Latest(o, deployOutputs)
                 /\ certs[exec[r].cert].at < o.at
                 /\ o.config.place = exec[r].graph.deploy.place
      /\ UNCHANGED <<certs, applyOutputs, deployOutputs, clock, deployed>>
  BY <1>a, DeployDecideEffect
<1>2. exec[r].cert \in Current
  BY <1>1 DEF PassedInv, HandsOnCurrent
<1>3. Current' = Current
  BY <1>1, SameCurrent
<1>4. exec'[r].pc = "notify" => deployed[Target(exec'[r].graph.deploy)] = exec'[r].cert
  <2> SUFFICES ASSUME NEW o \in deployOutputs, Latest(o, deployOutputs),
                      certs[exec[r].cert].at < o.at,
                      o.config.place = exec[r].graph.deploy.place
               PROVE  deployed[Target(exec[r].graph.deploy)] = exec[r].cert
    BY <1>1
  <2>1. o.config \in DeployConfigs /\ exec[r].graph.deploy \in DeployConfigs
    BY <1>a DEF TypeOK, DeployOutput, ExecState, Graphs
  <2>2. Target(o.config) = Target(exec[r].graph.deploy)
    BY <2>1
  <2>3. deployed[Target(o.config)] = exec[r].cert
    BY <1>2 DEF PassedInv, LastIsInPlace
  <2> QED BY <2>2, <2>3
<1> QED BY <1>a, <1>1, <1>2, <1>3, <1>4, QuietStep

\* What is put on a target is the current certificate, wherever it was before.
LEMMA PutStep ==
  ASSUME RenewalInv, SequelInv, PassedInv, NEW r \in Runs, exec[r].cert \in Current,
         PutOnTarget(r)
  PROVE  /\ \A o \in deployOutputs : \A c \in Current :
              Latest(o, deployOutputs) /\ certs[c].at < o.at => deployed'[Target(o.config)] = c
         /\ deployed'[Target(exec[r].graph.deploy)] = exec[r].cert
<1>1. /\ deployed \in [Targets -> {NoCert} \cup Certs]
      /\ Target(exec[r].graph.deploy) \in Targets
      /\ \A o \in deployOutputs : Target(o.config) \in Targets
  BY DEF RenewalInv, TypeOK, ExecState, Graphs, DeployOutput, Targets
<1>2. \A c \in Current : c = exec[r].cert
  BY CurrentIsOne
<1> QED BY <1>1, <1>2 DEF PassedInv, LastIsInPlace, PutOnTarget

\* Also when the provider fails afterwards.
LEMMA PassedDeploySteps ==
  ASSUME RenewalInv, SequelInv, SequelInv', PassedInv, NEW r \in Runs,
         Deploy(r) \/ DeployFails(r)
  PROVE  PassedInv'
<1>a. TypeOK /\ RunStep(r)
  BY DEF RenewalInv, RunStep
<1>1. /\ exec[r].pc = "deploying"
      /\ exec'[r].graph = exec[r].graph /\ exec'[r].cert = exec[r].cert
      /\ exec'[r].pc = "over" \/ (exec'[r].pc = "record" /\ PutOnTarget(r))
      /\ PutOnTarget(r) \/ UNCHANGED deployed
      /\ UNCHANGED <<certs, applyOutputs, deployOutputs, clock>>
  <2>1. CASE Deploy(r)
    BY <1>a, <2>1, StayEffect DEF Deploy, rowVars
  <2>2. CASE DeployFails(r)
    BY <1>a, <2>2, OverEffect DEF DeployFails, Fail, rowVars
  <2> QED BY <2>1, <2>2
<1>2. exec[r].cert \in Current
  BY <1>1 DEF PassedInv, HandsOnCurrent
<1>3. Current' = Current
  BY <1>1, SameCurrent
<1>4. \A s \in Runs : s # r => exec'[s].pc \in {"idle", "over"}
  BY <1>a, OthersRest DEF SequelInv
<1>5. \A s \in Runs : Fresh(s)'
  BY <1>a, FreshRunStep DEF PassedInv
<1>6. (\A o \in deployOutputs : o.at < clock)'
  BY <1>1 DEF PassedInv
<1>7. LooksAtLatest' /\ HandsOnCurrent' /\ NewIsUndeployed'
  BY <1>1, <1>2, <1>3, <1>4 DEF LooksAtLatest, HandsOnCurrent, NewIsUndeployed
<1>8. LastIsInPlace'
  <2>1. CASE PutOnTarget(r)
    BY <1>1, <1>2, <1>3, <2>1, PutStep DEF LastIsInPlace, Latest
  <2>2. CASE UNCHANGED deployed
    BY <1>1, <1>3, <2>2 DEF PassedInv, LastIsInPlace, Latest
  <2> QED BY <1>1, <2>1, <2>2
<1>9. InPlace'
  BY <1>1, <1>2, <1>4, PutStep DEF InPlace
<1> QED BY <1>5, <1>6, <1>7, <1>8, <1>9 DEF PassedInv

\* The new output is the last, and its target has just been given the certificate.
LEMMA PassedRecordStep ==
  ASSUME RenewalInv, SequelInv, SequelInv', PassedInv, NEW r \in Runs, SaveDeployOutput(r)
  PROVE  PassedInv'
<1>a. TypeOK /\ RunStep(r) /\ clock \in Nat
  BY DEF RenewalInv, RunStep, TypeOK
<1> DEFINE new == [run |-> r, config |-> exec[r].graph.deploy, at |-> clock]
<1>1. /\ exec[r].pc = "record" /\ exec'[r].pc = "notify"
      /\ exec'[r].graph = exec[r].graph /\ exec'[r].cert = exec[r].cert
      /\ UNCHANGED <<certs, applyOutputs, deployed>> /\ clock' = clock + 1
  BY <1>a, StayEffect DEF SaveDeployOutput
<1>b. /\ deployOutputs' = deployOutputs \cup {new}
      /\ new.config = exec[r].graph.deploy /\ new.at = clock
  BY DEF SaveDeployOutput, PassedInv
<1> HIDE DEF new
<1>2. exec[r].cert \in Current /\ deployed[Target(exec[r].graph.deploy)] = exec[r].cert
  BY <1>1 DEF PassedInv, HandsOnCurrent, InPlace
<1>3. Current' = Current
  BY <1>1, SameCurrent
<1>4. \A s \in Runs : s # r => exec'[s].pc \in {"idle", "over"}
  BY <1>a, OthersRest DEF SequelInv
<1>5. \A s \in Runs : Fresh(s)'
  BY <1>a, FreshRunStep DEF PassedInv
<1>c. \A o \in deployOutputs : o.at < clock /\ o.at \in Nat
  BY DEF PassedInv, RenewalInv, TypeOK, DeployOutput
<1>6. (\A o \in deployOutputs : o.at < clock)'
  BY <1>a, <1>b, <1>c, <1>1
<1>7. LooksAtLatest' /\ HandsOnCurrent' /\ NewIsUndeployed'
  BY <1>1, <1>2, <1>3, <1>4 DEF LooksAtLatest, HandsOnCurrent, NewIsUndeployed
<1>8. LastIsInPlace'
  <2> SUFFICES ASSUME NEW o \in deployOutputs', NEW c \in Current, Latest(o, deployOutputs')
               PROVE  deployed[Target(o.config)] = c
    BY <1>1, <1>3 DEF LastIsInPlace, Latest
  <2>1. o = new
    BY <1>a, <1>b, <1>c DEF Latest
  <2>2. c = exec[r].cert
    BY <1>2, CurrentIsOne
  <2> QED BY <1>b, <1>2, <2>1, <2>2
<1>9. InPlace'
  BY <1>1, <1>2, <1>4 DEF InPlace
<1> QED BY <1>5, <1>6, <1>7, <1>8, <1>9 DEF PassedInv

\* The new certificate becomes current, and is younger than every deployment.
LEMMA PassedSaveStep ==
  ASSUME RenewalInv, SequelInv, SequelInv', PassedInv, NEW r \in Runs, SaveApplyOutput(r)
  PROVE  PassedInv'
<1>a. TypeOK /\ RunStep(r) /\ clock \in Nat
  BY DEF RenewalInv, RunStep, TypeOK
<1> DEFINE new == [run |-> r, config |-> exec[r].graph.apply, at |-> clock]
<1>1. /\ exec[r].pc = "save" /\ exec'[r].pc = "deploy"
      /\ exec'[r].cert = exec[r].cert
      /\ UNCHANGED <<certs, deployOutputs, deployed>> /\ clock' = clock + 1
  BY <1>a, StayEffect DEF SaveApplyOutput
<1>b. /\ applyOutputs' = applyOutputs \cup {new}
      /\ new.run = r /\ new.at = clock
  BY DEF SaveApplyOutput, PassedInv
<1> HIDE DEF new
<1>c. /\ \A o \in applyOutputs : o.at < clock /\ o.at \in Nat
      /\ \A o \in deployOutputs : o.at < clock /\ o.at \in Nat
  BY DEF PassedInv, SequelInv, InTime, RenewalInv, TypeOK, DeployOutput, ApplyOutput
<1>2. exec[r].cert \in Certs /\ certs[exec[r].cert].run = r
  <2>1. exec[r].cert \in {NoCert} \cup Certs
    BY <1>a DEF TypeOK, ExecState
  <2> QED BY <1>1, <2>1 DEF RenewalInv, ExecOK, PassedInv
<1>3. \A c \in Certs : c \in Current' <=> c = exec[r].cert
  <2>1. Latest(new, applyOutputs')
    BY <1>a, <1>b, <1>c DEF Latest
  <2>2. \A o \in applyOutputs' : Latest(o, applyOutputs') => o = new
    BY <1>a, <1>b, <1>c DEF Latest
  <2>3. \A c \in Certs : certs[c].run = r => c = exec[r].cert
    BY <1>2, RunsArePositive DEF SequelInv, Once
  <2> QED BY <1>1, <1>2, <1>b, <2>1, <2>2, <2>3 DEF Current
<1>4. \A s \in Runs : s # r => exec'[s].pc \in {"idle", "over"}
  BY <1>a, OthersRest DEF SequelInv
<1>5. \A s \in Runs : Fresh(s)'
  BY <1>a, FreshRunStep DEF PassedInv
<1>6. (\A o \in deployOutputs : o.at < clock)'
  BY <1>a, <1>c, <1>1
<1>7. LooksAtLatest' /\ HandsOnCurrent' /\ NewIsUndeployed' /\ InPlace'
  BY <1>1, <1>2, <1>3, <1>4 DEF LooksAtLatest, HandsOnCurrent, NewIsUndeployed, InPlace
<1>8. LastIsInPlace'
  <2> SUFFICES ASSUME NEW o \in deployOutputs, NEW c \in Current'
               PROVE  ~(certs[c].at < o.at)
    BY <1>1 DEF LastIsInPlace
  <2>1. c = exec[r].cert
    BY <1>3 DEF Current
  <2>2. o.at <= certs[c].at /\ certs[c].at \in Nat
    BY <1>1, <1>2, <2>1 DEF PassedInv, NewIsUndeployed, RenewalInv, TypeOK, CertRow
  <2> QED BY <1>c, <2>2
<1> QED BY <1>5, <1>6, <1>7, <1>8 DEF PassedInv

\* What touches neither outputs nor targets, nor the times of certificates.
LEMMA PassedMeanwhileStep ==
  ASSUME RenewalInv, SequelInv', PassedInv,
         UNCHANGED <<row, applyOutputs, deployOutputs, clock, deployed>>,
         \A c \in Certs : certs'[c].run = certs[c].run /\ certs'[c].at = certs[c].at,
         exec' = exec \/ \A s \in Runs : exec'[s].pc \in {"idle", "over"}
  PROVE  PassedInv'
<1>1. Current' = Current
  BY SameCurrent
<1>2. (\A s \in Runs : Fresh(s))' /\ (\A o \in deployOutputs : o.at < clock)'
  BY DEF PassedInv, Fresh
<1>3. LooksAtLatest'
  BY DEF PassedInv, LooksAtLatest, Latest
<1>4. HandsOnCurrent' /\ InPlace'
  BY <1>1 DEF PassedInv, HandsOnCurrent, InPlace
<1>5. LastIsInPlace'
  BY <1>1 DEF PassedInv, LastIsInPlace, Latest, Current
<1>6. NewIsUndeployed'
  <2> SUFFICES ASSUME NEW r \in Runs, exec'[r].pc \in {"renew", "save"}
               PROVE  \A o \in deployOutputs : o.at <= certs'[exec'[r].cert].at
    BY DEF NewIsUndeployed
  <2>1. exec' = exec /\ exec[r].cert \in {NoCert} \cup Certs
    BY DEF RenewalInv, TypeOK, ExecState
  <2>2. exec[r].cert \in Certs
    BY <2>1 DEF RenewalInv, ExecOK, PassedInv
  <2> QED BY <2>1, <2>2 DEF PassedInv, NewIsUndeployed
<1> QED BY <1>1, <1>2, <1>3, <1>4, <1>5, <1>6 DEF PassedInv

LEMMA PassedOtherStep ==
  ASSUME "cancel" \notin Events, "cleanup" \notin Events,
         RenewalInv, SequelInv', PassedInv, Next, \A r \in Runs : ~RunStep(r)
  PROVE  PassedInv'
<1>0. (\A r \in Runs : ~Cancel(r)) /\ (\A k \in 0..Len(ended) : ~CleanupRuns(k))
  BY DEF Cancel, CleanupRuns, Event
<1>a. certs \in [Certs -> CertRow]
  BY DEF RenewalInv, TypeOK
<1>1. CASE Crash
  <2>1. \A s \in Runs : exec'[s].pc \in {"idle", "over"}
    BY <1>1, CrashEffect DEF RenewalInv
  <2>2. UNCHANGED <<row, certs, applyOutputs, deployOutputs, clock, deployed>>
    BY <1>1 DEF Crash, runVars, rowVars
  <2> QED BY <2>1, <2>2, PassedMeanwhileStep
<1>2. ASSUME NEW c \in Certs, BecomesDue(c) \/ RevokeRead(c) PROVE PassedInv'
  BY <1>2, PassedMeanwhileStep DEF BecomesDue, RevokeRead, runVars, rowVars
<1>3. ASSUME NEW c \in Certs, DeleteCertificate(c) PROVE PassedInv'
  <2>1. \A d \in Certs : certs'[d].run = certs[d].run /\ certs'[d].at = certs[d].at
    BY <1>3, <1>a DEF DeleteCertificate, CertRow
  <2>2. UNCHANGED <<row, exec, applyOutputs, deployOutputs, clock, deployed>>
    BY <1>3 DEF DeleteCertificate, runVars
  <2> QED BY <2>1, <2>2, PassedMeanwhileStep
<1>4. CASE RevokeSave
  <2>1. UNCHANGED <<row, exec, applyOutputs, deployOutputs, clock, deployed>>
    BY <1>4 DEF RevokeSave, runVars
  <2>2. revoking \in RowCopy /\ SaveCopy(revoking)
    BY <1>4 DEF RenewalInv, TypeOK, RevokeSave
  <2> QED BY <1>a, <2>1, <2>2, CopyEffect, PassedMeanwhileStep
<1>5. ASSUME NEW config, EditApply(config) \/ EditDeploy(config) PROVE PassedInv'
  BY <1>5, PassedMeanwhileStep DEF EditApply, EditDeploy, runVars, rowVars
<1> QED BY <1>0, <1>1, <1>2, <1>3, <1>4, <1>5 DEF Next

LEMMA InitPassed == Init => PassedInv
<1> SUFFICES ASSUME Init PROVE PassedInv
  OBVIOUS
<1>1. \A r \in Runs : exec[r].pc = "idle" /\ row[r] # "gone"
  BY DEF Init, IdleExec
<1>2. deployOutputs = {}
  BY DEF Init
<1> QED
  BY <1>1, <1>2, InitSequel
  DEF PassedInv, Fresh, LooksAtLatest, HandsOnCurrent, NewIsUndeployed, LastIsInPlace, InPlace

\* When runs do not overlap and keep their rows, and a place belongs to one provider,
\* a run that has passed its deploy node, skipped (executor_bizdeploy.go) or not, has
\* its certificate on its target, although earlier deployments may have failed after
\* they put another one there, or crashed before they could record it.
THEOREM PassedIsDeployedHolds ==
  ASSUME "cancel" \notin Events, "cleanup" \notin Events,
         \A a, b \in DeployConfigs : a.place = b.place => Target(a) = Target(b)
  PROVE  Spec => []PassedIsDeployed
<1>1. RenewalInv /\ SequelInv /\ SequelInv' /\ PassedInv /\ [Next]_vars => PassedInv'
  <2> SUFFICES ASSUME RenewalInv, SequelInv, SequelInv', PassedInv, [Next]_vars PROVE PassedInv'
    OBVIOUS
  <2>1. ASSUME NEW r \in Runs, RunStep(r) PROVE PassedInv'
    BY <2>1, PassedQuietSteps, PassedLookupStep, PassedDecideStep, PassedRequestStep,
       PassedRenewStep, PassedSaveStep, PassedDeployDecideStep, PassedDeploySteps,
       PassedRecordStep DEF RunStep
  <2>2. CASE UNCHANGED vars
    BY <2>2, PassedMeanwhileStep DEF vars, runVars, rowVars
  <2> QED BY <2>1, <2>2, PassedOtherStep
<1>2. PassedInv => PassedIsDeployed
  BY DEF PassedInv, InPlace, PassedIsDeployed
<1>3. Spec => []RenewalInv /\ []SequelInv
  BY RenewalInvHolds, SequelInvHolds
<1> QED BY <1>1, <1>2, <1>3, InitPassed, PTL DEF Spec
=============================================================================
