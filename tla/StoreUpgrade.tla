---------------------------- MODULE StoreUpgrade ----------------------------
(* What the migrations do to the rows of the store and to the trees of v0.3:   *)
(* the columns of each collection, the values that changed their meaning, the  *)
(* access records and ACME accounts, the tree of nodes that becomes a graph of *)
(* blocks, and the identifiers of nodes.  As in Migrations, these are          *)
(* operators, and what the upgrade promises is stated as assumptions.          *)
EXTENDS Migrations

-----------------------------------------------------------------------------
(* Columns.  The snapshot is what a new installation gets; later files change  *)
(* it.  An installation of v0.3 has the same columns by renaming its own.      *)

Stamps == {"id", "created", "updated"}
SnapshotAccess == Stamps \cup {"name", "provider", "config", "reserve", "deleted"}
SnapshotSettings == Stamps \cup {"name", "content"}
SnapshotAccounts ==
  Stamps \cup {"ca", "email", "privateKey", "acmeAccount", "acmeAcctUrl", "acmeDirUrl"}
SnapshotWorkflow ==
  Stamps \cup {"name", "description", "trigger", "triggerCron", "enabled", "graphDraft",
               "graphContent", "hasDraft", "hasContent", "lastRunRef", "lastRunStatus",
               "lastRunTime"}
SnapshotOutput ==
  Stamps \cup {"workflowRef", "runRef", "nodeId", "nodeConfig", "outputs", "succeeded"}
SnapshotCertificate ==
  Stamps \cup {"source", "subjectAltNames", "serialNumber", "certificate", "privateKey",
               "issuerOrg", "issuerCertificate", "keyAlgorithm", "validityNotBefore",
               "validityNotAfter", "acmeAcctUrl", "acmeCertUrl", "acmeCertStableUrl",
               "acmeRenewed", "workflowRef", "workflowRunRef", "workflowNodeId", "deleted"}
SnapshotRun ==
  Stamps \cup {"workflowRef", "status", "trigger", "startedAt", "endedAt", "graph", "error"}
SnapshotLogs ==
  {"id", "created", "workflowRef", "runRef", "nodeId", "nodeName", "timestamp", "level",
   "message", "data"}

V043Columns(cs) == (cs \ {"acmeRenewed"}) \cup {"isRenewed", "isRevoked", "validityInterval"}
V0415Columns(cs) == cs \ {"acmeCertStableUrl"}
V0425Account(cs) == (cs \ {"acmeAccount"}) \cup {"resourceObj"}
V0425Certificate(cs) == cs \cup {"subjectName", "issuerName", "validationPolicy", "ca"}

Columns ==
  [access |-> SnapshotAccess, settings |-> SnapshotSettings, workflow |-> SnapshotWorkflow,
   acme_accounts |-> V0425Account(SnapshotAccounts), workflow_output |-> SnapshotOutput,
   certificate |-> V0425Certificate(V0415Columns(V043Columns(SnapshotCertificate))),
   workflow_run |-> SnapshotRun, workflow_logs |-> SnapshotLogs]

\* The columns that the repositories of this release set or read.
UsedByAccess == Stamps \cup {"name", "provider", "config", "reserve", "deleted"}
UsedBySettings == Stamps \cup {"name", "content"}
UsedByAccount ==
  Stamps \cup {"ca", "email", "privateKey", "acmeDirUrl", "acmeAcctUrl", "resourceObj"}
UsedByWorkflow ==
  Stamps \cup {"name", "description", "trigger", "triggerCron", "enabled", "graphDraft",
               "graphContent", "hasDraft", "hasContent", "lastRunRef", "lastRunStatus",
               "lastRunTime"}
UsedByOutput ==
  Stamps \cup {"workflowRef", "runRef", "nodeId", "nodeConfig", "outputs", "succeeded"}
UsedByCertificate ==
  Stamps \cup
  {"deleted", "source", "certificate", "privateKey", "serialNumber", "subjectName",
   "subjectAltNames", "issuerOrg", "issuerName", "issuerCertificate", "keyAlgorithm", "validationPolicy",
   "validityNotBefore", "validityNotAfter", "validityInterval", "ca", "acmeAcctUrl",
   "acmeCertUrl", "isRenewed", "isRevoked", "workflowRef", "workflowRunRef", "workflowNodeId"}
UsedByRun ==
  Stamps \cup {"workflowRef", "trigger", "status", "startedAt", "endedAt", "graph", "error"}
UsedByLog ==
  {"workflowRef", "runRef", "nodeId", "nodeName", "timestamp", "level", "message", "data",
   "id", "created", "updated"}
Used ==
  [access |-> UsedByAccess, settings |-> UsedBySettings, workflow |-> UsedByWorkflow,
   acme_accounts |-> UsedByAccount, workflow_output |-> UsedByOutput,
   certificate |-> UsedByCertificate, workflow_run |-> UsedByRun, workflow_logs |-> UsedByLog]

\* Every column that a repository sets or reads is there after the files have run, and
\* none that is there is forgotten by the repositories: setting one that is not there
\* would be lost without an error.  (The time a log was updated is read and is not
\* there, it reads as zero.)
ASSUME ColumnsAreUsed ==
  \A c \in DOMAIN Used : Used[c] = Columns[c] \cup IF c = "workflow_logs" THEN {"updated"} ELSE {}
-----------------------------------------------------------------------------
(* Rows of v0.3.  A column that keeps its identifier under a new name keeps    *)
(* its values.                                                                 *)

Rename(r, pairs) ==
  LET after[i \in 0..Len(pairs)] ==
        IF i = 0 THEN r ELSE MoveIf(after[i - 1], pairs[i][1], pairs[i][2])
  IN  after[Len(pairs)]
Reword(r, k, from, to) == IF Get(r, k) = from THEN Put(r, k, to) ELSE r
\* The rows of v0.3 hold the trigger once more, in the root of their tree: the column
\* of a tree stands for it, null without a tree.
Trigger(r) == Reword(r, "trigger", "auto", "scheduled")
InTree(r, k) == Reword(r, k, "auto", "scheduled")

AccountRow(r) == Put(Put(Rename(r, <<<<"key", "privateKey">>, <<"resource", "acmeAccount">>>>),
                         "acmeAcctUrl", ""), "acmeDirUrl", "")
CertificateRow(r) ==
  Reword(Drop(Rename(r, <<<<"effectAt", "validityNotBefore">>, <<"expireAt", "validityNotAfter">>,
                          <<"acmeAccountUrl", "acmeAcctUrl">>, <<"workflowId", "workflowRef">>,
                          <<"workflowRunId", "workflowRunRef">>>>),
              {"workflowOutputId", "workflowOutputRef"}), "source", "workflow", "request")
WorkflowRow(r) ==
  LET renamed == Rename(r, <<<<"lastRunRefId", "lastRunRef">>, <<"draft", "graphDraft">>,
                             <<"content", "graphContent">>>>)
      worded == Reword(Trigger(renamed), "lastRunStatus", "running", "processing")
  IN  InTree(InTree(Put(worded, "hasContent", Has(worded, "graphContent")), "graphDraft"),
             "graphContent")
RunRow(r) ==
  InTree(Reword(Trigger(Rename(r, <<<<"detail", "graph">>, <<"workflowId", "workflowRef">>>>)),
                "status", "running", "processing"), "graph")
OutputRow(r) == Rename(r, <<<<"workflowId", "workflowRef">>, <<"runId", "runRef">>,
                            <<"node", "nodeConfig">>>>)
Levels == [DEBUG |-> "-4", INFO |-> "0", WARN |-> "4", ERROR |-> "8"]
LogRow(r) ==
  Rename(Put(r, "level", IF r["level"] \in DOMAIN Levels THEN Levels[r["level"]] ELSE r["level"]),
         <<<<"workflowId", "workflowRef">>, <<"runId", "runRef">>>>)

\* The columns of v0.3 that are not those of the snapshot.
Former03 ==
  [acme_accounts |-> (SnapshotAccounts \ {"privateKey", "acmeAccount", "acmeAcctUrl", "acmeDirUrl"})
                       \cup {"key", "resource"},
   certificate |-> (SnapshotCertificate \ {"validityNotBefore", "validityNotAfter", "acmeAcctUrl",
                                           "workflowRef", "workflowRunRef"})
                     \cup {"effectAt", "expireAt", "acmeAccountUrl", "workflowId", "workflowRunId",
                           "workflowOutputId"},
   workflow |-> (SnapshotWorkflow \ {"lastRunRef", "graphDraft", "graphContent", "hasContent"})
                  \cup {"lastRunRefId", "draft", "content"},
   workflow_run |-> (SnapshotRun \ {"graph", "workflowRef"}) \cup {"detail", "workflowId"},
   workflow_output |-> (SnapshotOutput \ {"workflowRef", "runRef", "nodeConfig"})
                         \cup {"workflowId", "runId", "node"},
   workflow_logs |-> (SnapshotLogs \ {"workflowRef", "runRef"}) \cup {"workflowId", "runId"}]
Trees03 == {"null", "auto", "manual"}
Rows03(c) ==
  LET blank == [k \in Former03[c] |-> "x"] IN
  CASE c = "certificate" -> With("source", {"workflow", "upload"}, {blank})
    [] c = "workflow" -> With("draft", Trees03, With("content", Trees03,
                           With("trigger", {"auto", "manual"},
                             With("lastRunStatus", {"running", "failed"}, {blank}))))
    [] c = "workflow_run" -> With("detail", Trees03, With("trigger", {"auto", "manual"},
                               With("status", {"running", "succeeded"}, {blank})))
    [] c = "workflow_logs" -> With("level", DOMAIN Levels, {blank})
    [] OTHER -> {blank}
UpgradedRow(c, r) ==
  CASE c = "acme_accounts" -> AccountRow(r) [] c = "certificate" -> CertificateRow(r)
    [] c = "workflow" -> WorkflowRow(r) [] c = "workflow_run" -> RunRow(r)
    [] c = "workflow_output" -> OutputRow(r) [] c = "workflow_logs" -> LogRow(r)

\* A row of v0.3 gets exactly the columns of a new installation, and no words of
\* v0.3 are left: a scheduled workflow is "scheduled" in its row and its trees, and
\* a run that was "running" is "processing", which the start of the program looks
\* for.
ASSUME RowsFitTheSnapshot ==
  \A c \in DOMAIN Former03 : \A r \in Rows03(c) :
    LET u == UpgradedRow(c, r)
        snapshot == [acme_accounts |-> SnapshotAccounts, certificate |-> SnapshotCertificate,
                     workflow |-> SnapshotWorkflow, workflow_run |-> SnapshotRun,
                     workflow_output |-> SnapshotOutput, workflow_logs |-> SnapshotLogs]
    IN  /\ DOMAIN u = snapshot[c]
        /\ \A k \in {"trigger", "source", "status", "lastRunStatus"} \cap DOMAIN u :
             u[k] \notin {"auto", "workflow", "running"}
        /\ \A k \in {"graphDraft", "graphContent", "graph"} \cap DOMAIN u :
             u[k] # "auto"
-----------------------------------------------------------------------------
(* Access records, ACME accounts and settings.                                 *)

\* v0.4.0: data of a webhook comes from the first of these that is there, and the
\* others stay where they are.
WebhookKeys == <<"defaultDataForDeployment", "defaultDataForNotification", "dataForDeployment",
                 "dataForNotification">>
RECURSIVE WebhookData(_, _)
WebhookData(c, i) ==
  IF i > Len(WebhookKeys) THEN c
  ELSE WebhookData(IF WebhookKeys[i] \in DOMAIN c /\ (("data" \notin DOMAIN c) \/ c["data"] = "")
                     THEN Move(c, WebhookKeys[i], "data") ELSE c, i + 1)
AccessV040(p, c) ==
  CASE p \in {"discordbot", "mattermost", "slackbot"} ->
         MoveIf(c, "defaultChannelId", "channelId")
    [] p = "email" -> Rename(c, <<<<"defaultSenderAddress", "senderAddress">>,
                                  <<"defaultSenderName", "senderName">>,
                                  <<"defaultReceiverAddress", "receiverAddress">>>>)
    [] p = "telegrambot" -> MoveIf(c, "defaultChatId", "chatId")
    [] p = "webhook" -> WebhookData(c, 1)
    [] OTHER -> c
AccessV0425(p, c) ==
  CASE p = "cloudflare" -> Rename(c, <<<<"dnsApiToken", "apiToken">>,
                                       <<"zoneApiToken", "apiTokenForZone">>>>)
    [] p = "byteplus" -> Rename(c, <<<<"accessKey", "accessKeyId">>,
                                     <<"secretKey", "secretAccessKey">>>>)
    [] p = "volcengine" -> MoveIf(c, "accessKeySecret", "secretAccessKey")
    [] OTHER -> c
AccessV0429(p, c) ==
  IF p = "aws" /\ "authMethod" \notin DOMAIN c THEN Put(c, "authMethod", "accesskey") ELSE c
AccessV0433(p, c) ==
  IF p = "lecdn" /\ "authMethod" \notin DOMAIN c THEN Put(c, "authMethod", "password") ELSE c
UpgradedAccess(p, c) ==
  AccessV0433(p, AccessV0429(p, AccessV0425(p, AccessV040(p, c))))

\* The keys that this release reads (domain.AccessConfigFor...) and the ones that
\* v0.3 wrote, for the providers whose keys have changed.
KeysOf ==
  [discordbot |-> {"botToken", "channelId"}, telegrambot |-> {"botToken", "chatId"},
   email |-> {"senderAddress", "senderName", "receiverAddress"}, webhook |-> {"url", "data"},
   cloudflare |-> {"apiToken", "apiTokenForZone"}, byteplus |-> {"accessKeyId", "secretAccessKey"},
   volcengine |-> {"accessKeyId", "secretAccessKey"}, aws |-> {"authMethod", "accessKeyId"},
   lecdn |-> {"authMethod", "username", "password"}]
KeysOf03 ==
  [discordbot |-> {"botToken", "defaultChannelId"}, telegrambot |-> {"botToken", "defaultChatId"},
   email |-> {"defaultSenderAddress", "defaultSenderName", "defaultReceiverAddress"},
   webhook |-> {"url", "dataForDeployment"}, cloudflare |-> {"dnsApiToken", "zoneApiToken"},
   byteplus |-> {"accessKey", "secretKey"}, volcengine |-> {"accessKeyId", "accessKeySecret"},
   aws |-> {"accessKeyId"}, lecdn |-> {"username", "password"}]

\* Whatever an access record of v0.3 held, this release reads it, under another
\* name or the same, and it holds nothing this release does not know.
ASSUME AccessSurvives ==
  \A p \in DOMAIN KeysOf03 : \A K \in SUBSET KeysOf03[p] :
    LET u == UpgradedAccess(p, [k \in K |-> k]) IN
    /\ DOMAIN u \subseteq KeysOf[p]
    /\ \A k \in K : \E x \in DOMAIN u : u[x] = k

\* acme_accounts: the directory is filled in by the authority, which was followed by
\* the identifier of an access record for the authorities that need one; an account
\* whose access record is gone is deleted.  accesses maps those that are there to
\* their provider.
DirectoryOf ==
  [letsencrypt |-> "le", letsencryptstaging |-> "le-staging", buypass |-> "buypass",
   googletrustservices |-> "gts", sslcom |-> "sslcom", zerossl |-> "zerossl"]
ByAccess == {"buypass", "googletrustservices", "sslcom", "zerossl", "acmeca"}
AccountV040(a, accesses) ==
  IF a.access = "none"
    THEN [a EXCEPT !.dir = IF a.ca \in DOMAIN DirectoryOf THEN DirectoryOf[a.ca] ELSE @]
  ELSE IF a.access \notin DOMAIN accesses THEN [a EXCEPT !.ca = "deleted"]
  ELSE IF accesses[a.access] = "acmeca" THEN [a EXCEPT !.dir = "endpoint", !.access = "none"]
  ELSE IF accesses[a.access] \in ByAccess
    THEN [a EXCEPT !.dir = DirectoryOf[accesses[a.access]], !.access = "none"]
  ELSE a

\* An account of v0.3 is found again by authority and directory, or it is gone with
\* its access record; only one whose access record has been given to another kind of
\* provider keeps its old key.
Accounts03 == [ca : DOMAIN DirectoryOf, dir : {""}, access : {"none"}]
                \cup [ca : ByAccess, dir : {""}, access : {"a1", "a2"}]
ASSUME AccountsAreFoundAgain ==
  \A a \in Accounts03, p \in ByAccess \cup {"aws"} :
    LET u == AccountV040(a, [a1 |-> p]) IN
    u.ca = "deleted" \/ (u.dir # "" /\ u.access = "none") \/ p \notin ByAccess

\* v0.4.4 and v0.4.14: the keys of two settings.
Settings044(c) ==
  Rename(c, <<<<"expiredCertificatesMaxDaysRetention", "certificatesRetentionMaxDays">>,
              <<"workflowRunsMaxDaysRetention", "workflowRunsRetentionMaxDays">>>>)
Settings0414(c) == MoveIf(c, "config", "configs")

\* The retention of certificates and runs and the chosen authority are read again
\* under the names of this release (domain/settings.go).
ASSUME SettingsAreReadAgain ==
  \A K \in SUBSET {"expiredCertificatesMaxDaysRetention", "workflowRunsMaxDaysRetention",
                   "config", "provider"} :
    LET u == Settings0414(Settings044([k \in K |-> k])) IN
    /\ DOMAIN u \subseteq {"certificatesRetentionMaxDays", "workflowRunsRetentionMaxDays",
                          "configs", "provider"}
    /\ {u[k] : k \in DOMAIN u} = K
-----------------------------------------------------------------------------
(* The tree of v0.3.  A chain is the sequence of a node, its next and so on; a *)
(* branch of a node is a node that begins a chain of its own.                  *)

Business == [start |-> "start", apply |-> "bizApply", upload |-> "bizUpload",
             monitor |-> "bizMonitor", deploy |-> "bizDeploy", notify |-> "bizNotify"]
Block(id, type, blocks) == [id |-> id, type |-> type, blocks |-> blocks]
End == Block(<<>>, "end", <<>>)
FirstOf(branches, type) == branches[CHOOSE i \in DOMAIN branches :
                                      /\ branches[i].type = type
                                      /\ \A j \in 1..(i - 1) : branches[j].type # type]

\* convertNode: done holds the blocks made so far.  The node before a result branch
\* moves into a try block, what follows a failure into its catch block, and the
\* chain goes on with what follows a success: what followed the result branch
\* itself is left out, and so is a result branch that nothing precedes.
RECURSIVE Convert(_, _)
Convert(chain, done) ==
  IF chain = <<>> THEN done
  ELSE LET n == Head(chain)  rest == Tail(chain) IN
    CASE n.type \in DOMAIN Business ->
           Convert(rest, Append(done, Block(n.id, Business[n.type], <<>>)))
      [] n.type = "execute_result_branch" /\ done # <<>> ->
           LET success == FirstOf(n.branches, "execute_success")
               failure == FirstOf(n.branches, "execute_failure")
               tried == Block(success.id, "tryBlock", <<done[Len(done)]>>)
               caught == Block(failure.id, "catchBlock", Append(Convert(failure.chain, <<>>), End))
           IN  Convert(success.chain, Append(SubSeq(done, 1, Len(done) - 1),
                                             Block(n.id, "tryCatch", <<tried, caught>>)))
      [] n.type = "branch" ->
           LET Branch(b) == Block(b.id, "branchBlock", Convert(b.chain, <<>>))
           IN  Convert(rest, Append(done, Block(n.id, "condition",
                                    [i \in DOMAIN n.branches |-> Branch(n.branches[i])])))
      [] OTHER -> Convert(rest, done)
Graph(tree) == Append(Convert(tree, <<>>), End)

\* What a tree meant in v0.3, and what a graph means now, when the nodes in fails
\* fail: the nodes that are carried out, and how the chain ends: "ok", with the
\* "error" of a node, or by an "end", at which nothing more is carried out.
Outcome(ran, out) == [ran |-> ran, out |-> out]
Successes(chain) == FirstOf(Head(chain).branches, "execute_success").chain
Failures(chain) == FirstOf(Head(chain).branches, "execute_failure").chain
RECURSIVE Meant(_, _, _)
Meant(chain, fails, ran) ==
  IF chain = <<>> THEN Outcome(ran, "ok")
  ELSE LET n == Head(chain)  rest == Tail(chain)
           judged == rest # <<>> /\ Head(rest).type = "execute_result_branch"
           sofar == ran \cup {n.id}
           each == [i \in DOMAIN n.branches |-> Meant(n.branches[i].chain, fails, {})]
           all == ran \cup UNION {each[i].ran : i \in DOMAIN each}
    IN CASE n.type = "branch" -> IF \E i \in DOMAIN each : each[i].out # "ok"
                                   THEN Outcome(all, "error") ELSE Meant(rest, fails, all)
         [] n.type # "branch" /\ n.id \in fails ->
              Outcome(IF judged THEN Meant(Failures(rest), fails, sofar).ran ELSE sofar, "error")
         [] OTHER -> Meant(IF judged THEN Successes(rest) ELSE rest, fails, sofar)

RECURSIVE Means(_, _, _)
Means(blocks, fails, ran) ==
  IF blocks = <<>> THEN Outcome(ran, "ok")
  ELSE LET b == Head(blocks)
           inner == [i \in DOMAIN b.blocks |-> Means(b.blocks[i].blocks, fails, {})]
           ended == {i \in DOMAIN inner : inner[i].out = "end"}
           done == {i \in DOMAIN inner : \A j \in ended : i <= j}
           all == ran \cup UNION {inner[i].ran : i \in done}
    IN CASE b.type = "end" -> Outcome(ran, "end")
         [] b.type = "condition" ->
              IF ended # {} THEN Outcome(all, "end")
              ELSE IF \E i \in DOMAIN inner : inner[i].out = "error" THEN Outcome(all, "error")
              ELSE Means(Tail(blocks), fails, all)
         [] b.type = "tryCatch" ->
              IF inner[1].out = "error"
                THEN Outcome(ran \cup inner[1].ran \cup inner[2].ran,
                             IF inner[2].out = "end" THEN "end" ELSE "error")
                ELSE Means(Tail(blocks), fails, ran \cup inner[1].ran)
         [] OTHER -> IF b.id \in fails THEN Outcome(ran \cup {b.id}, "error")
                                       ELSE Means(Tail(blocks), fails, ran \cup {b.id})

\* The trees of a depth, whose nodes have their place in the tree as identifier.  A
\* chain with a result branch ends with it, and of parallel branches only the last
\* holds one: an "end" leaves out the branches after its own.
Node03(id, type, branches) == [id |-> id, type |-> type, branches |-> branches]
Leaf(place, i) == Node03(Append(place, i), "deploy", <<>>)
BranchOf(id, type, chain) == [id |-> id, type |-> type, chain |-> chain]
Plain(place) == {<<>>, <<Leaf(place, 1)>>, <<Leaf(place, 1), Leaf(place, 2)>>}
RECURSIVE Chains(_, _)
Chains(depth, place) ==
  Plain(place) \cup
  IF depth = 0 THEN {}
  ELSE LET p == Append(place, 3)
           s == Append(p, 1)  f == Append(p, 2)
           Pairs == Chains(depth - 1, s) \X Chains(depth - 1, f)
           Result(c) == Node03(p, "execute_result_branch",
                               <<BranchOf(s, "execute_success", c[1]),
                                 BranchOf(f, "execute_failure", c[2])>>)
           Parallel(c) == Node03(p, "branch", <<BranchOf(s, "branchBlock", c[1]),
                                                BranchOf(f, "branchBlock", c[2])>>)
       IN  {<<Leaf(place, 1), Result(c)>> : c \in Pairs}
             \cup {<<Leaf(place, 1), Parallel(c), Leaf(place, 2)>> :
                     c \in Plain(s) \X Chains(depth - 1, f)}
RECURSIVE Leaves(_)
Leaves(chain) ==
  UNION {IF chain[i].branches = <<>> THEN {chain[i].id}
         ELSE UNION {Leaves(chain[i].branches[j].chain) : j \in DOMAIN chain[i].branches} :
         i \in DOMAIN chain}

\* Whichever nodes fail, the graph carries out the nodes that the tree of v0.3
\* did: those of a failure's branch after that failure and those of a success's
\* branch without it, also where result branches are nested in one another or in
\* parallel branches.
ASSUME GraphsMeanWhatTreesMeant ==
  \A tree \in Chains(2, <<>>) : \A fails \in SUBSET Leaves(tree) :
    Cardinality(fails) <= 2 =>
      Means(Graph(tree), fails, {}).ran = Meant(tree, fails, {}).ran
-----------------------------------------------------------------------------
(* Identifiers of nodes, as sequences of characters.                           *)

\* In graphs, outputs and logs: three times a leading "-" and then a leading "_" is
\* taken off.
Strip(id, c) == IF id # <<>> /\ Head(id) = c THEN Tail(id) ELSE id
Normalize(id) ==
  LET round[i \in 0..3] == IF i = 0 THEN id ELSE Strip(Strip(round[i - 1], "-"), "_")
  IN  round[3]

\* v0.4.15 gives the outputs their node back whose identifier an earlier form of the
\* above had cut by three characters: the node of the run's graph, in its order,
\* that ends the same.
Cut(id) == SubSeq(id, 4, Len(id))
Revert(broken, nodes) ==
  LET whole == {i \in DOMAIN nodes : Len(nodes[i]) = Len(broken) + 3 /\ Cut(nodes[i]) = broken}
  IN  IF whole = {} \/ \E i \in DOMAIN nodes : nodes[i] = broken THEN broken
      ELSE nodes[CHOOSE i \in whole : \A j \in whole : i <= j]

Identifiers(n) == UNION {[1..k -> {"-", "_", "a"}] : k \in 1..n}

\* The output of a node is found again under the identifier the node has in the
\* graph.  The reference that a deploy node makes to the node of its certificate is
\* not normalized: it is lost for the identifiers that began with one of the two
\* characters, and only for those.
ASSUME IdentifiersAgree ==
  \A id \in Identifiers(5) : Normalize(id) = id <=> Head(id) = "a"

\* An output whose identifier was cut gets its own node again, unless two nodes of
\* the graph differ in their first three characters only; one that was not cut
\* keeps its node.
ASSUME CutOutputsFindTheirNode ==
  \A x, y \in [1..4 -> {"a", "b"}] :
    /\ Cut(x) # Cut(y) \/ x = y => Revert(Cut(x), <<x, y>>) = x
    /\ Revert(x, <<x, y>>) = x
=============================================================================
