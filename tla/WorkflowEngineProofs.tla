------------------------ MODULE WorkflowEngineProofs ------------------------
(* Theorems about WorkflowEngine, for every workflow graph.                   *)
(*                                                                            *)
(* EngineInv is inductive, and with it the engine keeps the promise of        *)
(* RunReport.  What the interpreter starts, skips and answers needs more:     *)
(*   LoopInv     the loops on the stack and the nodes that have begun agree   *)
(*   TreeInv     the loops follow a path down the graph                       *)
(*   ErrorInv    an error says what has happened below, and a failure shows   *)
(*   Onward, Answers   what is still owed is ahead in a loop that is open     *)
(*   NameInv     error.nodeId names a node below the loop that knows an error *)
(* Each is shown to be kept by the kinds of steps that StepKinds lists.       *)
EXTENDS WorkflowEngine, SequenceTheorems, WellFoundedInduction, TLAPS

\* A nonempty subset of a well-founded set has a minimal element.
LEMMA Minimal ==
  ASSUME NEW R, NEW N, IsWellFoundedOn(R, N), NEW S, S \subseteq N, S # {}
  PROVE  \E k \in S : \A j \in S : ~ (<<j, k>> \in R)
  BY WFMin

\* A nonempty set of numbers has a least one.
LEMMA Least ==
  ASSUME NEW S, S \subseteq Nat, S # {}
  PROVE  \E k \in S : \A j \in S : k <= j
<1> DEFINE R == OpToRel(<, Nat)
<1>1. \A x, y \in Nat : x < y => <<x, y>> \in R
  BY DEF OpToRel
<1>2. IsWellFoundedOn(R, Nat)
  BY NatLessThanWellFounded
<1>3. PICK k \in S : \A j \in S : ~ (<<j, k>> \in R)
  <2> DEFINE N == Nat
  <2>1. IsWellFoundedOn(R, N)
    BY <1>2
  <2>2. S \subseteq N
    OBVIOUS
  <2> HIDE DEF R, N
  <2> QED
    BY <2>1, <2>2, Minimal
<1>4. ASSUME NEW j \in S PROVE k <= j
  <2> HIDE DEF R
  <2>1. j \in Nat /\ k \in Nat /\ ~(j < k)
    BY <1>1, <1>3
  <2> QED
    BY <2>1
<1> QED
  BY <1>4

\* A loop that has a block left stands at the first of them, which is a node.
LEMMA AtIsFirst ==
  ASSUME NEW f \in Frame, HasNext(f)
  PROVE  /\ At(f) \in Ahead(f) /\ \A j \in Ahead(f) : At(f) <= j
         /\ At(f) \in 1..Len(Blocks[f.node]) /\ At(f) >= f.i
         /\ Runs(f.phase, Kind[Child(f)])
         /\ Child(f) \in Nodes /\ f.node \in Places
<1>1. f.i \in Nat \ {0} /\ f.node \in Places
  BY DEF Frame
<1>2. Blocks[f.node] \in Seq(Nodes)
  BY <1>1, BlocksAssumption DEF Places
<1>3. Ahead(f) \subseteq Nat /\ Ahead(f) \subseteq 1..Len(Blocks[f.node])
      /\ \A k \in Ahead(f) : k >= f.i /\ Runs(f.phase, Kind[Blocks[f.node][k]])
  BY <1>1, <1>2 DEF Ahead
<1>4. \E k \in Ahead(f) : \A j \in Ahead(f) : k <= j
  BY <1>3, Least DEF HasNext
<1>5. At(f) \in Ahead(f) /\ \A j \in Ahead(f) : At(f) <= j
  BY <1>4 DEF At
<1> QED
  BY <1>1, <1>2, <1>3, <1>5 DEF Child

\* The bottom frame is the outermost loop, there is one, and the others run the block
\* at which the one below them stands.
StackShape(s) ==
  /\ s \in Seq(Frame) /\ s # <<>> /\ s[1].node = Root
  /\ \A k \in 1..(Len(s) - 1) : HasNext(s[k]) /\ s[k + 1].node = Child(s[k])

\* The errors a stack has collected are grounded.
StackGrounded(s, wrong, over) ==
  \A k \in 1..Len(s) : Collected(s[k], wrong, over)

\* Replacing the innermost frame by one of the same node keeps the shape of a stack.
LEMMA WithTopShape ==
  ASSUME NEW s, StackShape(s), NEW f \in Frame, f.node = s[Len(s)].node
  PROVE  /\ StackShape(WithTop(s, f))
         /\ Len(WithTop(s, f)) = Len(s)
         /\ WithTop(s, f)[Len(s)] = f
<1> DEFINE t == WithTop(s, f)
<1>1. s \in Seq(Frame) /\ Len(s) \in Nat \ {0} /\ Len(s) \in 1..Len(s)
  BY DEF StackShape
<1>2. t \in Seq(Frame) /\ Len(t) = Len(s)
      /\ \A k \in 1..Len(s) : t[k] = IF k = Len(s) THEN f ELSE s[k]
  BY <1>1 DEF WithTop
<1>3. \A k \in 1..Len(s) : t[k].node = s[k].node
  BY <1>1, <1>2
<1> HIDE DEF t
<1>4. ASSUME NEW k \in 1..(Len(t) - 1) PROVE HasNext(t[k]) /\ t[k + 1].node = Child(t[k])
  <2>1. k \in 1..Len(s) /\ k + 1 \in 1..Len(s) /\ k # Len(s)
    BY <1>1, <1>2
  <2>2. t[k] = s[k] /\ t[k + 1].node = s[k + 1].node
    BY <1>2, <1>3, <2>1
  <2>3. HasNext(s[k]) /\ s[k + 1].node = Child(s[k])
    BY <1>2 DEF StackShape
  <2> QED
    BY <2>2, <2>3
<1>5. t # <<>> /\ t[1].node = Root
  BY <1>1, <1>2, <1>3 DEF StackShape
<1>6. StackShape(t) /\ Len(t) = Len(s) /\ t[Len(s)] = f
  BY <1>1, <1>2, <1>4, <1>5 DEF StackShape
<1> QED
  BY <1>6 DEF t

\* A frame put onto a stack stands for the block at which the top one stands.
LEMMA Pushed ==
  ASSUME NEW s, StackShape(s), NEW f \in Frame,
         HasNext(s[Len(s)]), f.node = Child(s[Len(s)])
  PROVE  StackShape(Append(s, f))
<1> DEFINE t == Append(s, f)
<1>1. s \in Seq(Frame) /\ Len(s) \in Nat \ {0} /\ Len(s) \in 1..Len(s)
  BY DEF StackShape
<1>2. t \in Seq(Frame) /\ Len(t) = Len(s) + 1
      /\ \A k \in 1..Len(t) : t[k] = IF k = Len(s) + 1 THEN f ELSE s[k]
  BY <1>1
<1> HIDE DEF t
<1>3. ASSUME NEW k \in 1..(Len(t) - 1) PROVE HasNext(t[k]) /\ t[k + 1].node = Child(t[k])
  <2>1. k \in 1..Len(s) /\ t[k] = s[k]
    BY <1>1, <1>2
  <2>2. CASE k = Len(s)
    BY <1>1, <1>2, <2>1, <2>2
  <2>3. CASE k # Len(s)
    <3>1. k \in 1..(Len(s) - 1) /\ t[k + 1] = s[k + 1]
      BY <1>1, <1>2, <2>1, <2>3
    <3> QED
      BY <2>1, <3>1 DEF StackShape
  <2> QED
    BY <2>2, <2>3
<1>4. t # <<>> /\ t[1].node = Root
  BY <1>1, <1>2 DEF StackShape
<1>5. StackShape(t)
  BY <1>1, <1>2, <1>3, <1>4 DEF StackShape
<1> QED
  BY <1>5 DEF t

\* It keeps the stack grounded if the new frame is.
LEMMA WithTopGrounded ==
  ASSUME NEW s, StackShape(s), NEW f \in Frame, NEW wrong, NEW over,
         StackGrounded(s, wrong, over), Collected(f, wrong, over)
  PROVE  StackGrounded(WithTop(s, f), wrong, over)
<1>1. Len(s) \in Nat /\ s \in Seq(Frame)
  BY DEF StackShape
<1>2. Len(WithTop(s, f)) = Len(s)
  BY <1>1 DEF WithTop
<1>3. ASSUME NEW k \in 1..Len(s) PROVE Collected(WithTop(s, f)[k], wrong, over)
  <2>1. WithTop(s, f)[k] = IF k = Len(s) THEN f ELSE s[k]
    BY <1>1 DEF WithTop
  <2>2. Collected(s[k], wrong, over)
    BY DEF StackGrounded
  <2> QED
    BY <2>1, <2>2
<1> QED
  BY <1>2, <1>3 DEF StackGrounded

\* The innermost loop that goes on has collected the error, one that leaves returns it:
\* whatever executeNode returns, the stack stays grounded and no error is lost.
LEMMA HandleKeeps ==
  ASSUME NEW s, StackShape(s), NEW err \in SUBSET Errors, NEW wrong, NEW over,
         StackGrounded(s, wrong, over), Grounded(err, wrong, over),
         HasNext(s[Len(s)]), Handle(s, err)
  PROVE  /\ StackShape(stack')
         /\ StackGrounded(stack', wrong, over)
         /\ \/ pc' = "check" /\ ret' = {}
            \/ pc' = "leave" /\ ret' = err
         /\ pc' = "check" /\ err # {} => Top'.errs # {}
<1> DEFINE f == s[Len(s)]
           g == [f EXCEPT !.i = At(f) + 1, !.errs = @ \cup err]
<1>1. Len(s) \in Nat \ {0} /\ f \in Frame
  BY DEF StackShape
<1>2. CASE GoesOn(f, err)
  <2>1. stack' = WithTop(s, g) /\ pc' = "check" /\ ret' = {}
    BY <1>2 DEF Handle
  <2>2. g \in Frame /\ g.node = f.node /\ g.errs = f.errs \cup err
    <3> DEFINE j == At(f) + 1
               errs == f.errs \cup err
    <3>1. j \in Nat \ {0} /\ errs \in SUBSET Errors
      BY <1>1, AtIsFirst DEF Frame
    <3>2. g = [f EXCEPT !.i = j, !.errs = errs]
      OBVIOUS
    <3>3. errs = f.errs \cup err
      OBVIOUS
    <3> HIDE DEF f, g, j, errs
    <3> QED
      BY <1>1, <3>1, <3>2, <3>3 DEF Frame
  <2>3. "terminated" \notin err
    BY <1>2 DEF GoesOn
  <2>4. Collected(f, wrong, over)
    BY <1>1 DEF StackGrounded
  <2>5. Collected(g, wrong, over)
    BY <2>2, <2>3, <2>4 DEF Collected, Grounded
  <2>6. StackShape(stack') /\ Len(stack') = Len(s) /\ stack'[Len(s)] = g
    BY <1>1, <2>1, <2>2, WithTopShape
  <2>7. StackGrounded(stack', wrong, over)
    BY <2>1, <2>2, <2>5, WithTopGrounded
  <2>8. Top'.errs = f.errs \cup err
    BY <2>2, <2>6 DEF Top
  <2> QED
    BY <2>1, <2>6, <2>7, <2>8
<1>3. CASE ~GoesOn(f, err)
  BY <1>3 DEF Handle
<1> QED
  BY <1>2, <1>3

-----------------------------------------------------------------------------
(* The invariant. *)

\* An error stays grounded when more goes wrong or the context ends.
LEMMA GroundedGrows ==
  ASSUME NEW wrong, NEW over, NEW wrong2, NEW over2, wrong \subseteq wrong2, over => over2
  PROVE  /\ \A err : Grounded(err, wrong, over) => Grounded(err, wrong2, over2)
         /\ \A s : StackGrounded(s, wrong, over) => StackGrounded(s, wrong2, over2)
<1>1. \A err : Grounded(err, wrong, over) => Grounded(err, wrong2, over2)
  BY DEF Grounded
<1> QED
  BY <1>1 DEF StackGrounded, Collected

\* What EngineInv says of the stack.
LEMMA StackIsSound ==
  ASSUME EngineInv
  PROVE  /\ StackShape(stack) /\ StackGrounded(stack, faults, done)
         /\ Len(stack) \in Nat \ {0} /\ Top \in Frame /\ Collected(Top, faults, done)
<1>1. StackShape(stack)
  BY DEF EngineInv, TypeOK, LoopsAreNested, StackShape
<1>2. StackGrounded(stack, faults, done)
  BY DEF EngineInv, ErrorsAreGrounded, StackGrounded
<1>3. Len(stack) \in Nat \ {0} /\ Len(stack) \in 1..Len(stack) /\ Top \in Frame
  BY <1>1 DEF StackShape, Top
<1> QED
  BY <1>1, <1>2, <1>3 DEF StackGrounded, Top

\* What is below the innermost loop: the loop around it stands at its node.
LEMMA BelowIsSound ==
  ASSUME StackShape(stack), Len(stack) # 1
  PROVE  /\ StackShape(Below) /\ Len(Below) = Len(stack) - 1
         /\ \A k \in 1..Len(Below) : Below[k] = stack[k]
         /\ HasNext(Below[Len(Below)]) /\ Child(Below[Len(Below)]) = Top.node
<1>1. stack \in Seq(Frame) /\ stack[1].node = Root
  BY DEF StackShape
<1> DEFINE l == Len(stack)
<1>2. l \in Nat \ {0} /\ l # 1
  BY DEF StackShape
<1>3. \A k \in 1..(l - 1) : HasNext(stack[k]) /\ stack[k + 1].node = Child(stack[k])
  BY DEF StackShape
<1>4. \A k \in 1..(l - 1) : stack[k] \in Frame
  BY <1>1, <1>2
<1>5. Below = SubSeq(stack, 1, l - 1) /\ Top = stack[l]
  BY DEF Below, Top
<1> HIDE DEF l
<1>6. l - 1 \in Nat \ {0} /\ l - 1 \in 1..(l - 1) /\ l - 1 \in 1..l
  BY <1>2
<1>7. /\ Below \in Seq(Frame) /\ Len(Below) = l - 1
      /\ \A k \in 1..(l - 1) : Below[k] = stack[k]
  BY <1>4, <1>5, <1>6, SubSeqProperties
<1>8. Below # <<>> /\ Below[1] = stack[1]
  BY <1>6, <1>7
<1>9. HasNext(Below[l - 1]) /\ Child(Below[l - 1]) = stack[l].node
  <2>1. HasNext(stack[l - 1]) /\ stack[(l - 1) + 1].node = Child(stack[l - 1])
    BY <1>3, <1>6
  <2>2. (l - 1) + 1 = l
    BY <1>2
  <2> QED
    BY <1>6, <1>7, <2>1, <2>2
<1>10. ASSUME NEW k \in 1..(Len(Below) - 1)
       PROVE  HasNext(Below[k]) /\ Below[k + 1].node = Child(Below[k])
  <2>1. k \in 1..(l - 1) /\ k + 1 \in 1..(l - 1)
    BY <1>6, <1>7
  <2> QED
    BY <1>3, <1>7, <2>1
<1>11. StackShape(Below)
  BY <1>1, <1>7, <1>8, <1>10 DEF StackShape
<1> QED
  BY <1>5, <1>7, <1>9, <1>11 DEF l

\* The invariant holds at the start of an execution.
LEMMA InitInv == Init => EngineInv
<1> SUFFICES ASSUME Init PROVE EngineInv
  OBVIOUS
<1> USE DEF Init
<1>1. NewFrame(Root, "blocks") \in Frame
  BY DEF NewFrame, Frame, Phases, Errors, Places
<1>2. /\ stack \in Seq(Frame) /\ stack # <<>> /\ Len(stack) = 1
      /\ stack[1] = NewFrame(Root, "blocks")
  BY <1>1
<1>3. TypeOK
  BY <1>2 DEF TypeOK, Errors, Places
<1>4. stack[1].node = Root /\ stack[1].errs = {}
  BY <1>2 DEF NewFrame
<1>7. LoopsAreNested
  BY <1>2, <1>4 DEF LoopsAreNested
<1>5. ErrorsAreGrounded
  BY <1>2, <1>4 DEF ErrorsAreGrounded, Collected, Grounded
<1>6. LogsKnowFaults /\ CancellationIsOnItsWay
  BY DEF LogsKnowFaults, CancellationIsOnItsWay
<1> QED
  BY <1>3, <1>5, <1>6, <1>7 DEF EngineInv

\* The return of executeNode keeps the invariant, provided that its error is grounded,
\* that what has gone wrong in this step is in it, and that a cancellation on its way
\* is not lost in it.
LEMMA ReturnKeeps ==
  ASSUME EngineInv, outcome = "none",
         NEW s, StackShape(s), HasNext(s[Len(s)]), StackGrounded(s, faults', done),
         NEW n \in Nodes, NEW err \in SUBSET Errors, ReturnFrom(n, s, err),
         Grounded(err, faults', done),
         UNCHANGED <<done, outcome>>,
         starts' \in [Nodes -> Nat], late' \in Nat, failed' \subseteq Nodes,
         faults \subseteq faults', faults' \subseteq {"failure", "deadline", "canceled", "errorLog"},
         faults' # faults => err # {} /\ err \cap {"terminated", "blocks"} = {},
         logs # {} /\ faults' = {} => err # {} /\ "terminated" \notin err
  PROVE  EngineInv'
<1>1. /\ StackShape(stack') /\ StackGrounded(stack', faults', done)
      /\ \/ pc' = "check" /\ ret' = {}
         \/ pc' = "leave" /\ ret' = err
      /\ pc' = "check" /\ err # {} => Top'.errs # {}
  BY HandleKeeps DEF ReturnFrom
<1>2. \/ /\ err # {} /\ err \cap {"terminated", "blocks"} = {}
         /\ errorNode' = n /\ logs' = logs \cup {n}
      \/ ~(err # {} /\ err \cap {"terminated", "blocks"} = {}) /\ UNCHANGED <<errorNode, logs>>
  BY DEF ReturnFrom
<1>3. TypeOK'
  BY <1>1, <1>2 DEF EngineInv, TypeOK, StackShape, Places
<1>4. LoopsAreNested'
  BY <1>1 DEF StackShape, LoopsAreNested
<1>5. outcome' # "none" <=> pc' = "over"
  BY <1>1
<1>6. ErrorsAreGrounded'
  BY <1>1 DEF ErrorsAreGrounded, StackGrounded
<1>7. err # {} /\ err \cap {"terminated", "blocks"} = {} => faults' # {} \/ done
  BY DEF Grounded, Errors
<1>8. LogsKnowFaults'
  <2>1. faults' \ {"panic"} # {} => logs' # {}
    BY <1>2 DEF EngineInv, LogsKnowFaults
  <2>2. logs' # {} => faults' # {} \/ done'
    BY <1>2, <1>7 DEF EngineInv, LogsKnowFaults
  <2> QED
    BY <1>1, <2>1, <2>2 DEF LogsKnowFaults
<1>9. CancellationIsOnItsWay'
  <2>1. logs' # {} /\ faults' = {} => err # {} /\ "terminated" \notin err
    BY <1>2
  <2> QED
    BY <1>1, <2>1 DEF CancellationIsOnItsWay
<1> QED
  BY <1>3, <1>4, <1>5, <1>6, <1>8, <1>9 DEF EngineInv

\* The steps of the interpreter that do not return from a node.
LEMMA LoopStepInv ==
  ASSUME EngineInv, CheckContext \/ EndLoop \/ SkipDisabled
  PROVE  EngineInv'
<1> USE StackIsSound
<1>1. CASE CheckContext
  <2> USE <1>1 DEF CheckContext, historyVars
  <2>1. TypeOK' /\ LoopsAreNested' /\ (outcome' # "none" <=> pc' = "over")
    BY DEF EngineInv, TypeOK, Errors, LoopsAreNested, Top
  <2>2. ErrorsAreGrounded'
    BY DEF EngineInv, ErrorsAreGrounded, Grounded
  <2>3. LogsKnowFaults' /\ CancellationIsOnItsWay'
    BY DEF EngineInv, LogsKnowFaults, CancellationIsOnItsWay
  <2> QED
    BY <2>1, <2>2, <2>3 DEF EngineInv
<1>2. CASE EndLoop /\ Top.phase = "try" /\ Top.errs # {}
  <2> DEFINE f == [Top EXCEPT !.phase = "catch", !.i = 1]
  <2> USE <1>2 DEF EndLoop, historyVars
  <2>1. f \in Frame /\ f.node = Top.node /\ f.errs = Top.errs
    <3>1. 1 \in Nat \ {0} /\ "catch" \in Phases
      BY DEF Phases
    <3> QED
      BY <3>1 DEF Frame
  <2>2. /\ stack' = WithTop(stack, f)
        /\ UNCHANGED <<pc, ret, done, errorNode, logs, outcome, historyVars>>
    OBVIOUS
  <2>3. StackShape(stack') /\ Top' = f
    <3> HIDE DEF f
    <3>1. StackShape(stack') /\ Len(stack') = Len(stack) /\ stack'[Len(stack)] = f
      BY <2>1, <2>2, WithTopShape DEF Top
    <3> QED
      BY <3>1 DEF Top
  <2>4. StackGrounded(stack', faults, done)
    <3>1. Collected(f, faults, done)
      BY <2>1 DEF Collected
    <3> HIDE DEF f
    <3> QED
      BY <2>1, <2>2, <3>1, WithTopGrounded
  <2>5. TypeOK' /\ LoopsAreNested' /\ (outcome' # "none" <=> pc' = "over")
    BY <2>2, <2>3 DEF EngineInv, TypeOK, StackShape, LoopsAreNested, Places
  <2>6. ErrorsAreGrounded'
    BY <2>2, <2>4 DEF EngineInv, ErrorsAreGrounded, StackGrounded
  <2>7. LogsKnowFaults' /\ CancellationIsOnItsWay'
    BY <2>1, <2>2, <2>3 DEF EngineInv, LogsKnowFaults, CancellationIsOnItsWay
  <2> QED
    BY <2>5, <2>6, <2>7 DEF EngineInv
<1>3. CASE EndLoop /\ ~(Top.phase = "try" /\ Top.errs # {})
  <2> USE <1>3 DEF EndLoop, historyVars
  <2>1. /\ pc = "check" /\ pc' = "leave"
        /\ ret' = Top.errs \/ (ret' = Top.errs \cup {"blocks"} /\ Top.errs # {})
        /\ UNCHANGED <<stack, done, errorNode, logs, outcome, historyVars>>
    OBVIOUS
  <2>2. Top.errs \in SUBSET Errors /\ "blocks" \in Errors
    BY DEF Frame, Errors
  <2>3. Grounded(ret', faults, done) /\ "terminated" \notin ret'
    BY <2>1 DEF Collected, Grounded
  <2>4. TypeOK' /\ LoopsAreNested' /\ (outcome' # "none" <=> pc' = "over")
    BY <2>1, <2>2 DEF EngineInv, TypeOK, LoopsAreNested, Places
  <2>5. ErrorsAreGrounded'
    BY <2>1, <2>3 DEF EngineInv, ErrorsAreGrounded
  <2>6. LogsKnowFaults' /\ CancellationIsOnItsWay'
    BY <2>1, <2>3 DEF EngineInv, LogsKnowFaults, CancellationIsOnItsWay
  <2> QED
    BY <2>4, <2>5, <2>6 DEF EngineInv
<1>4. CASE SkipDisabled
  <2> USE <1>4 DEF SkipDisabled, historyVars
  <2>1. Grounded({}, faults, done) /\ {} \in SUBSET Errors
    BY DEF Grounded
  <2>2. /\ StackShape(stack') /\ StackGrounded(stack', faults, done)
        /\ pc' \in {"check", "leave"} /\ ret' = {}
    <3>1. HasNext(stack[Len(stack)])
      BY DEF EngineInv, LoopsAreNested, Top
    <3> QED
      BY <2>1, <3>1, HandleKeeps
  <2>3. TypeOK' /\ LoopsAreNested' /\ (outcome' # "none" <=> pc' = "over")
    BY <2>2 DEF EngineInv, TypeOK, StackShape, LoopsAreNested, Places
  <2>4. ErrorsAreGrounded'
    BY <2>1, <2>2 DEF ErrorsAreGrounded, StackGrounded
  <2>5. LogsKnowFaults' /\ CancellationIsOnItsWay'
    BY <2>2 DEF EngineInv, LogsKnowFaults, CancellationIsOnItsWay
  <2> QED
    BY <2>3, <2>4, <2>5 DEF EngineInv
<1> QED
  BY <1>1, <1>2, <1>3, <1>4

\* A node is started: its work, or the loop over its blocks.
LEMMA StartInv ==
  ASSUME EngineInv, NEW n \in Nodes, StartWork(n) \/ EnterLoop(n)
  PROVE  EngineInv'
<1> USE StackIsSound
<1>1. /\ pc = "start" /\ starts' \in [Nodes -> Nat] /\ late' \in Nat
      /\ UNCHANGED <<ret, done, errorNode, logs, outcome, failed, faults>>
  BY DEF StartWork, EnterLoop, Starting, EngineInv, TypeOK
<1>2. CASE StartWork(n)
  <2>1. pc' = "running" /\ stack' = stack
    BY <1>2 DEF StartWork
  <2>2. TypeOK' /\ LoopsAreNested' /\ (outcome' # "none" <=> pc' = "over")
    BY <1>1, <2>1 DEF EngineInv, TypeOK, LoopsAreNested, Top
  <2>3. ErrorsAreGrounded' /\ LogsKnowFaults' /\ CancellationIsOnItsWay'
    BY <1>1, <2>1 DEF EngineInv, ErrorsAreGrounded, LogsKnowFaults, CancellationIsOnItsWay
  <2> QED
    BY <2>2, <2>3 DEF EngineInv
<1>3. CASE EnterLoop(n)
  <2>1. PICK phase \in Phases : pc' = "check" /\ stack' = Append(stack, NewFrame(n, phase))
    BY <1>3 DEF EnterLoop, Phases
  <2> DEFINE f == NewFrame(n, phase)
  <2>2. f \in Frame /\ f.errs = {}
    BY DEF NewFrame, Frame, Places
  <2>3. Collected(f, faults, done)
    BY <2>2 DEF Collected, Grounded
  <2> HIDE DEF f
  <2>4. StackShape(stack')
    <3>1. HasNext(stack[Len(stack)]) /\ n = Child(stack[Len(stack)])
      BY <1>1, <1>3 DEF EnterLoop, Starting, EngineInv, LoopsAreNested, Top
    <3>2. f.node = n
      BY DEF f, NewFrame
    <3> QED
      BY <2>1, <2>2, <3>1, <3>2, Pushed DEF f
  <2>5. \A k \in 1..Len(stack') : stack'[k] = IF k = Len(stack) + 1 THEN f ELSE stack[k]
    BY <2>1, <2>2 DEF StackShape, f
  <2>6. StackGrounded(stack', faults, done)
    BY <2>1, <2>3, <2>5 DEF StackGrounded, StackShape
  <2>7. TypeOK' /\ LoopsAreNested' /\ (outcome' # "none" <=> pc' = "over")
    BY <1>1, <2>1, <2>4 DEF EngineInv, TypeOK, StackShape, LoopsAreNested, Places
  <2>8. ErrorsAreGrounded'
    BY <1>1, <2>1, <2>6 DEF ErrorsAreGrounded, StackGrounded
  <2>9. LogsKnowFaults' /\ CancellationIsOnItsWay'
    BY <1>1, <2>1 DEF EngineInv, LogsKnowFaults, CancellationIsOnItsWay
  <2> QED
    BY <2>7, <2>8, <2>9 DEF EngineInv
<1> QED
  BY <1>2, <1>3

\* A node returns: a refused branch, work, or the loop over its blocks.
LEMMA NodeReturnInv ==
  ASSUME EngineInv, NEW n \in Nodes,
         \/ RefuseBranch(n) \/ PassiveReturns(n) \/ EndReturns(n) \/ Return(n)
         \/ \E err \in LeafErrors : WorkReturns(n, err)
  PROVE  EngineInv'
<1> USE StackIsSound
<1>0. pc \in {"start", "running"} => HasNext(stack[Len(stack)])
  BY DEF EngineInv, LoopsAreNested, Top
<1>1. \A wrong, over : Grounded({}, wrong, over)
  BY DEF Grounded
<1>2. outcome = "none" /\ starts \in [Nodes -> Nat] /\ late \in Nat /\ failed \subseteq Nodes
  BY DEF EngineInv, TypeOK, RefuseBranch, Starting, PassiveReturns, EndReturns, Return, WorkReturns
<1>3. pc # "over" /\ pc # "panic" => faults \subseteq {"failure", "deadline", "canceled", "errorLog"}
  BY DEF EngineInv, TypeOK, LogsKnowFaults
<1>4. pc \in {"start", "running"} => ~(logs # {} /\ faults = {})
  BY DEF EngineInv, CancellationIsOnItsWay
<1>5. CASE RefuseBranch(n)
  <2>1. /\ pc = "start" /\ UNCHANGED <<done, outcome>>
        /\ starts' \in [Nodes -> Nat] /\ late' \in Nat
    BY <1>2, <1>5 DEF RefuseBranch, Starting
  <2>2. PICK err \in {{}, {"failure"}} :
          /\ ReturnFrom(n, stack, err)
          /\ failed' \subseteq Nodes
          /\ faults' = faults \cup err
    BY <1>2, <1>5 DEF RefuseBranch
  <2>3. Grounded(err, faults', done) /\ err \in SUBSET Errors
    BY <2>2 DEF Grounded, Errors
  <2>4. StackGrounded(stack, faults', done)
    BY <2>2, GroundedGrows
  <2> QED
    BY <1>0, <1>2, <1>3, <1>4, <2>1, <2>2, <2>3, <2>4, ReturnKeeps
<1>6. CASE PassiveReturns(n)
  <2>1. /\ pc = "running" /\ UNCHANGED <<done, outcome, starts, late, failed, faults>>
        /\ ReturnFrom(n, stack, {})
    BY <1>6 DEF PassiveReturns, historyVars
  <2> QED
    BY <1>0, <1>1, <1>2, <1>3, <1>4, <2>1, ReturnKeeps
<1>7. CASE EndReturns(n)
  <2>1. /\ pc = "running" /\ UNCHANGED <<done, outcome, starts, late, failed, faults>>
        /\ ReturnFrom(n, stack, {"terminated"})
    BY <1>7 DEF EndReturns, historyVars
  <2>2. Grounded({"terminated"}, faults', done) /\ {"terminated"} \in SUBSET Errors
    BY DEF Grounded, Errors
  <2> QED
    BY <1>0, <1>2, <1>3, <1>4, <2>1, <2>2, ReturnKeeps
<1>8. CASE Return(n)
  <2> DEFINE err == IF Top.phase = "blocks" /\ ret # {} THEN ret \cup {"blocks"} ELSE ret
  <2>1. /\ pc = "leave" /\ UNCHANGED <<done, outcome, starts, late, failed, faults>>
        /\ ReturnFrom(n, Below, err) /\ Top.node # Root
    BY <1>8 DEF Return, historyVars
  <2>2. Grounded(ret, faults, done) /\ ret \in SUBSET Errors
    BY <2>1 DEF EngineInv, ErrorsAreGrounded, TypeOK
  <2>3. Grounded(err, faults', done) /\ err \in SUBSET Errors
    BY <2>1, <2>2 DEF Grounded, Errors
  <2>4. Len(stack) # 1
    BY <2>1 DEF StackShape, Top
  <2>5. /\ StackShape(Below) /\ Len(Below) = Len(stack) - 1
        /\ \A k \in 1..Len(Below) : Below[k] = stack[k]
        /\ HasNext(Below[Len(Below)])
    BY <2>4, BelowIsSound
  <2>6. StackGrounded(Below, faults', done)
    BY <2>1, <2>5 DEF StackGrounded, StackShape
  <2>7. logs # {} /\ faults' = {} => err # {} /\ "terminated" \notin err
    BY <2>1 DEF EngineInv, CancellationIsOnItsWay
  <2> HIDE DEF err
  <2> QED
    BY <1>2, <1>3, <2>1, <2>3, <2>5, <2>6, <2>7, ReturnKeeps
<1>9. ASSUME NEW err \in LeafErrors, WorkReturns(n, err) PROVE EngineInv'
  <2>1. /\ pc = "running" /\ UNCHANGED <<done, outcome, starts, late>>
        /\ ReturnFrom(n, stack, err) /\ failed' \subseteq Nodes
        /\ faults' = faults \cup {e \in err : e = "canceled" => ~done}
    BY <1>2, <1>9 DEF WorkReturns
  <2>2. /\ Grounded(err, faults', done) /\ err \in SUBSET Errors
        /\ err \cap {"terminated", "blocks"} = {}
        /\ err \subseteq {"failure", "deadline", "canceled"}
    BY <2>1 DEF LeafErrors, Grounded, Errors
  <2>3. StackGrounded(stack, faults', done)
    <3>1. faults \subseteq faults'
      BY <2>1
    <3> QED
      BY <3>1, GroundedGrows
  <2>4. faults' # faults => err # {}
    BY <2>1
  <2>5. faults \subseteq faults' /\ faults' \subseteq {"failure", "deadline", "canceled", "errorLog"}
    BY <1>3, <2>1, <2>2
  <2>6. ~(logs # {} /\ faults' = {})
    BY <1>4, <2>1
  <2> QED
    BY <1>0, <1>2, <2>1, <2>2, <2>3, <2>4, <2>5, <2>6, ReturnKeeps
<1> QED
  BY <1>5, <1>6, <1>7, <1>8, <1>9

\* The steps that change neither the stack nor the error it returns: an error log, a
\* panic and its recovery, the report, and the cancellation.
LEMMA OtherStepInv ==
  ASSUME EngineInv,
         \/ Recover \/ Finish \/ Cancel
         \/ \E n \in Nodes : LogError(n) \/ WorkPanics(n)
  PROVE  EngineInv'
<1>1. UNCHANGED <<stack, ret, errorNode, starts, late, failed>>
  BY DEF Recover, Finish, Cancel, LogError, WorkPanics, historyVars, graphVars
<1>2. LoopsAreNested'
  BY <1>1 DEF EngineInv, LoopsAreNested, Top,
              Recover, Finish, Cancel, LogError, WorkPanics, historyVars, graphVars
<1>3. CASE Recover
  <2> USE <1>3 DEF Recover, historyVars
  <2>1. TypeOK' /\ (outcome' # "none" <=> pc' = "over")
    BY <1>1 DEF EngineInv, TypeOK, Places
  <2>2. ErrorsAreGrounded' /\ LogsKnowFaults' /\ CancellationIsOnItsWay'
    BY <1>1 DEF EngineInv, ErrorsAreGrounded, LogsKnowFaults, CancellationIsOnItsWay
  <2> QED
    BY <1>2, <2>1, <2>2 DEF EngineInv
<1>4. CASE Finish
  <2> USE <1>4 DEF Finish, historyVars
  <2>1. Status(ret) \in {"succeeded", "failed", "canceled"}
    BY DEF Status
  <2>2. TypeOK' /\ (outcome' # "none" <=> pc' = "over")
    BY <1>1, <2>1 DEF EngineInv, TypeOK
  <2>3. ErrorsAreGrounded' /\ LogsKnowFaults' /\ CancellationIsOnItsWay'
    BY <1>1 DEF EngineInv, ErrorsAreGrounded, LogsKnowFaults, CancellationIsOnItsWay
  <2> QED
    BY <1>2, <2>2, <2>3 DEF EngineInv
<1>5. CASE Cancel
  <2> USE <1>5 DEF Cancel, historyVars, graphVars
  <2>1. TypeOK' /\ (outcome' # "none" <=> pc' = "over")
    BY <1>1 DEF EngineInv, TypeOK, Places
  <2>2. ErrorsAreGrounded'
    BY <1>1 DEF EngineInv, ErrorsAreGrounded, Collected, Grounded
  <2>3. LogsKnowFaults' /\ CancellationIsOnItsWay'
    BY <1>1 DEF EngineInv, LogsKnowFaults, CancellationIsOnItsWay, Top
  <2> QED
    BY <1>2, <2>1, <2>2, <2>3 DEF EngineInv
<1>6. ASSUME NEW n \in Nodes, LogError(n) \/ WorkPanics(n) PROVE EngineInv'
  <2>1. /\ pc = "running" /\ pc' \in {"running", "panic"} /\ faults \subseteq faults'
        /\ UNCHANGED <<done, outcome>>
        /\ \/ pc' = "running" /\ logs' = logs \cup {n} /\ faults' = faults \cup {"errorLog"}
           \/ pc' = "panic" /\ UNCHANGED logs /\ faults' = faults \cup {"panic"}
    BY <1>6 DEF LogError, WorkPanics, graphVars
  <2>2. TypeOK' /\ (outcome' # "none" <=> pc' = "over")
    BY <1>1, <2>1 DEF EngineInv, TypeOK
  <2>3. ErrorsAreGrounded'
    BY <1>1, <2>1, StackIsSound, GroundedGrows DEF ErrorsAreGrounded, StackGrounded
  <2>4. LogsKnowFaults' /\ CancellationIsOnItsWay'
    BY <2>1 DEF EngineInv, LogsKnowFaults, CancellationIsOnItsWay
  <2> QED
    BY <1>2, <2>2, <2>3, <2>4 DEF EngineInv
<1> QED
  BY <1>3, <1>4, <1>5, <1>6

\* A step that changes nothing.
LEMMA StutterInv == EngineInv /\ UNCHANGED vars => EngineInv'
  BY DEF vars, graphVars, historyVars, EngineInv, TypeOK, LoopsAreNested, ErrorsAreGrounded,
         LogsKnowFaults, CancellationIsOnItsWay, Top

\* Every step keeps the invariant.
LEMMA NextInv == EngineInv /\ [Next]_vars => EngineInv'
<1> SUFFICES ASSUME EngineInv, [Next]_vars PROVE EngineInv'
  OBVIOUS
<1>1. CASE CheckContext \/ EndLoop \/ SkipDisabled
  BY <1>1, LoopStepInv
<1>2. CASE Recover \/ Finish \/ Cancel \/ \E n \in Nodes : LogError(n)
  BY <1>2, OtherStepInv
<1>3. ASSUME NEW n \in Nodes, NodeStep(n) PROVE EngineInv'
  <2>1. CASE StartWork(n) \/ EnterLoop(n)
    BY <2>1, StartInv
  <2>2. CASE WorkPanics(n)
    BY <2>2, OtherStepInv
  <2>3. CASE \/ RefuseBranch(n) \/ PassiveReturns(n) \/ EndReturns(n) \/ Return(n)
             \/ \E err \in LeafErrors : WorkReturns(n, err)
    BY <2>3, NodeReturnInv
  <2> QED
    BY <1>3, <2>1, <2>2, <2>3 DEF NodeStep
<1>4. CASE UNCHANGED vars
  BY <1>4, StutterInv
<1> QED
  BY <1>1, <1>2, <1>3, <1>4 DEF Next, Step

\* EngineInv holds in every execution of every graph: in particular an error an
\* executor has returned is in the logs the report looks at, and a cancellation is never
\* swallowed by a Condition, a TryCatch or an End node.
THEOREM EngineInvariant == Spec => []EngineInv
<1>1. Init => EngineInv
  BY InitInv
<1>2. EngineInv /\ [Next]_vars => EngineInv'
  BY NextInv
<1> QED
  BY <1>1, <1>2, PTL DEF Spec

-----------------------------------------------------------------------------
(* The cancellation is noticed. *)

\* A node started late was chosen before the end of the context, and after it no other
\* node is chosen.
LateInv == late \in {0, 1} /\ (late = 1 => done /\ pc # "start")

\* Handling an error chooses no node.
LEMMA HandleChoosesNothing ==
  ASSUME NEW s, NEW err, Handle(s, err)
  PROVE  pc' # "start"
  BY DEF Handle

\* Every step keeps LateInv.
LEMMA LateStep == LateInv /\ [Next]_vars => LateInv'
<1> SUFFICES ASSUME LateInv, [Next]_vars PROVE LateInv'
  OBVIOUS
<1>1. CASE CheckContext
  BY <1>1 DEF CheckContext, historyVars, LateInv
<1>2. CASE EndLoop
  BY <1>2 DEF EndLoop, historyVars, LateInv
<1>3. CASE SkipDisabled
  BY <1>3, HandleChoosesNothing DEF SkipDisabled, historyVars, LateInv
<1>4. CASE Recover \/ Finish \/ Cancel \/ UNCHANGED vars
  BY <1>4 DEF Recover, Finish, Cancel, vars, historyVars, graphVars, LateInv
<1>5. ASSUME NEW n \in Nodes, Starting(n), pc' # "start" PROVE LateInv'
  BY <1>5 DEF Starting, LateInv
<1>6. ASSUME NEW n \in Nodes, StartWork(n) \/ EnterLoop(n) \/ RefuseBranch(n)
      PROVE  Starting(n) /\ pc' # "start"
  BY <1>6, HandleChoosesNothing DEF StartWork, EnterLoop, RefuseBranch, ReturnFrom
<1>7. ASSUME NEW n \in Nodes,
             \/ PassiveReturns(n) \/ EndReturns(n) \/ Return(n)
             \/ WorkPanics(n) \/ LogError(n) \/ \E err \in LeafErrors : WorkReturns(n, err)
      PROVE  LateInv'
  <2>1. UNCHANGED <<done, late>> /\ pc' # "start"
    BY <1>7, HandleChoosesNothing
    DEF PassiveReturns, EndReturns, Return, WorkPanics, LogError, WorkReturns, ReturnFrom,
        historyVars, graphVars
  <2> QED
    BY <2>1 DEF LateInv
<1> QED
  BY <1>1, <1>2, <1>3, <1>4, <1>5, <1>6, <1>7 DEF Next, Step, NodeStep

\* However deep the loops are nested, at most one node is started after the cancellation
\* of a run: the one that had been chosen before.
THEOREM CancellationIsNoticed == Spec => []OneStartAfterCancel
<1>1. Init => LateInv
  BY DEF Init, LateInv
<1>2. LateInv => OneStartAfterCancel
  BY DEF LateInv, OneStartAfterCancel
<1> QED
  BY <1>1, <1>2, LateStep, PTL DEF Spec

-----------------------------------------------------------------------------
(* The engine implements RunReport. *)

\* A report is explained by what went wrong, by the logs and by the context.
LEMMA StatusIsExplained ==
  ASSUME EngineInv, pc = "leave"
  PROVE  Promise!Explained(Status(ret))
<1>1. Grounded(ret, faults, done) /\ ret \in SUBSET Errors
  BY DEF EngineInv, ErrorsAreGrounded, TypeOK
<1>2. faults # {} => logs # {}
  BY DEF EngineInv, LogsKnowFaults, TypeOK
<1>3. CASE ret = {} \/ "terminated" \in ret
  <2>1. logs # {} => faults # {}
    BY <1>3 DEF EngineInv, CancellationIsOnItsWay
  <2> QED
    BY <1>2, <1>3, <2>1 DEF Status, Promise!Explained
<1>4. CASE ret # {} /\ "terminated" \notin ret
  <2>1. CASE ret \cap {"canceled", "deadline"} # {}
    BY <1>1, <1>4, <2>1 DEF Grounded, Status, Promise!Explained
  <2>2. CASE ret \cap {"canceled", "deadline"} = {}
    <3>1. "failure" \in ret
      BY <1>1, <1>4, <2>2 DEF Grounded, Errors
    <3> QED
      BY <1>1, <1>4, <2>2, <3>1 DEF Grounded, Status, Promise!Explained
  <2> QED
    BY <2>1, <2>2
<1> QED
  BY <1>3, <1>4

\* Every step of the engine is one of RunReport, or changes nothing it sees.
LEMMA StepImplements ==
  ASSUME EngineInv, [Next]_vars
  PROVE  [Promise!Next]_<<done, faults, outcome>>
<1>1. outcome # "none" <=> pc = "over"
  BY DEF EngineInv
<1>2. CASE CheckContext \/ EndLoop \/ SkipDisabled \/ UNCHANGED vars
  BY <1>2 DEF CheckContext, EndLoop, SkipDisabled, vars, historyVars
<1>3. CASE Recover
  <2>1. faults # {} /\ outcome = "none"
    BY <1>1, <1>3 DEF Recover, EngineInv, LogsKnowFaults
  <2>2. Promise!Report("failed")
    BY <1>3, <2>1 DEF Recover, historyVars, Promise!Report, Promise!Explained
  <2> QED
    BY <2>2 DEF Promise!Next
<1>4. CASE Finish
  <2>1. Promise!Report(Status(ret))
    BY <1>1, <1>4, StatusIsExplained DEF Finish, historyVars, Promise!Report
  <2>2. Status(ret) \in {"succeeded", "failed", "canceled"}
    BY DEF Status
  <2> QED
    BY <2>1, <2>2 DEF Promise!Next
<1>5. CASE Cancel
  BY <1>5 DEF Cancel, historyVars, Promise!Cancel, Promise!Next
<1>6. ASSUME NEW n \in Nodes, LogError(n) \/ WorkPanics(n)
      PROVE  Promise!Next
  <2>1. PICK f \in {"errorLog", "panic"} :
          pc = "running" /\ faults' = faults \cup {f} /\ UNCHANGED <<done, outcome>>
    BY <1>6 DEF LogError, WorkPanics
  <2> QED
    BY <1>1, <2>1 DEF Promise!Fault, Promise!Faults, Promise!Next
<1>7. ASSUME NEW n \in Nodes,
             StartWork(n) \/ EnterLoop(n) \/ PassiveReturns(n) \/ EndReturns(n) \/ Return(n)
      PROVE  UNCHANGED <<done, faults, outcome>>
  BY <1>7 DEF StartWork, EnterLoop, Starting, PassiveReturns, EndReturns, Return, historyVars
<1>8. ASSUME NEW n \in Nodes, RefuseBranch(n)
      PROVE  [Promise!Next]_<<done, faults, outcome>>
  <2>1. /\ pc = "start" /\ UNCHANGED <<done, outcome>>
        /\ faults' = faults \/ faults' = faults \cup {"failure"}
    BY <1>8 DEF RefuseBranch, Starting
  <2> QED
    BY <1>1, <2>1 DEF Promise!Fault, Promise!Faults, Promise!Next
<1>9. ASSUME NEW n \in Nodes, NEW err \in LeafErrors, WorkReturns(n, err)
      PROVE  [Promise!Next]_<<done, faults, outcome>>
  <2>1. /\ pc = "running" /\ UNCHANGED <<done, outcome>>
        /\ \/ faults' = faults
           \/ faults' = faults \cup {"failure"}
           \/ faults' = faults \cup {"deadline"}
           \/ faults' = faults \cup {"canceled"}
    <3>1. faults' = faults \cup {e \in err : e = "canceled" => ~done}
      BY <1>9 DEF WorkReturns
    <3>2. /\ pc = "running" /\ UNCHANGED <<done, outcome>>
          /\ err \in {{}, {"failure"}, {"deadline"}, {"canceled"}}
      BY <1>9 DEF WorkReturns, LeafErrors
    <3>3. CASE err = {"canceled"} /\ done
      BY <3>1, <3>2, <3>3
    <3>4. CASE ~(err = {"canceled"} /\ done)
      <4>1. {e \in err : e = "canceled" => ~done} = err
        BY <3>2, <3>4
      <4> QED
        BY <3>1, <3>2, <4>1
    <3> QED
      BY <3>3, <3>4
  <2> QED
    BY <1>1, <2>1 DEF Promise!Fault, Promise!Faults, Promise!Next
<1> QED
  BY <1>2, <1>3, <1>4, <1>5, <1>6, <1>7, <1>8, <1>9 DEF Next, Step, NodeStep

\* Whatever the graph, and however its nodes fail, panic or are canceled, the dispatcher
\* is told once how a run ended, and what it is told is explained by what happened:
\* no error of a node is lost in a branch, a TryCatch or an End node.
THEOREM EngineImplementsRunReport == Spec => ReportIsExplained
<1>1. Init => Promise!Init
  BY DEF Init, Promise!Init
<1>2. EngineInv /\ [Next]_vars => [Promise!Next]_<<done, faults, outcome>>
  BY StepImplements
<1> QED
  BY <1>1, <1>2, EngineInvariant, PTL DEF Spec, ReportIsExplained, Promise!Spec

-----------------------------------------------------------------------------
(* The graph. *)

\* What the assumptions say of a block and its place.
LEMMA BlockFacts ==
  ASSUME NEW p \in Places, NEW k \in 1..Len(Blocks[p])
  PROVE  /\ Blocks[p] \in Seq(Nodes) /\ Len(Blocks[p]) \in Nat /\ Blocks[p][k] \in Nodes
         /\ \A q \in Places : \A l \in 1..Len(Blocks[q]) :
              Blocks[q][l] = Blocks[p][k] => q = p /\ l = k
         /\ Kind[Blocks[p][k]] = "branch" <=> p \in Nodes /\ Kind[p] = "condition"
         /\ Kind[Blocks[p][k]] = "try" <=> p \in Nodes /\ Kind[p] = "tryCatch" /\ k = 1
         /\ Kind[Blocks[p][k]] = "catch" <=> p \in Nodes /\ Kind[p] = "tryCatch" /\ k > 1
<1>1. Blocks[p] \in Seq(Nodes)
  BY BlocksAssumption DEF Places
<1>2. \A q \in Places : \A l \in 1..Len(Blocks[q]) :
              Blocks[q][l] = Blocks[p][k] => q = p /\ l = k
  BY TreeAssumption
<1>3. LET kind == Kind[Blocks[p][k]] IN
    /\ kind = "branch" <=> p \in Nodes /\ Kind[p] = "condition"
    /\ kind = "try" <=> p \in Nodes /\ Kind[p] = "tryCatch" /\ k = 1
    /\ kind = "catch" <=> p \in Nodes /\ Kind[p] = "tryCatch" /\ k > 1
  BY ShapeAssumption
<1> QED
  BY <1>1, <1>2, <1>3

\* A node has one place.
LEMMA OnePlace ==
  ASSUME NEW p \in Places, NEW k \in 1..Len(Blocks[p]),
         NEW q \in Places, NEW l \in 1..Len(Blocks[q]), Blocks[p][k] = Blocks[q][l]
  PROVE  p = q /\ k = l
BY TreeAssumption

\* A subtree has its root and the blocks of its nodes, and nothing else.
LEMMA SubtreeFacts ==
  ASSUME NEW n \in Places
  PROVE  /\ n \in Subtree[n] /\ Subtree[n] \subseteq Nodes \cup {n}
         /\ \A p \in Subtree[n] : \A k \in 1..Len(Blocks[p]) : Blocks[p][k] \in Subtree[n]
         /\ \A p \in Places : \A k \in 1..Len(Blocks[p]) :
              Blocks[p][k] \in Subtree[n] => Blocks[p][k] = n \/ p \in Subtree[n]
         /\ \A k \in 1..Len(Blocks[n]) : Subtree[Blocks[n][k]] \subseteq Subtree[n]
<1>1. Subtree[n] = {n} \cup UNION {Subtree[Blocks[n][k]] : k \in 1..Len(Blocks[n])}
  BY TreeAssumption
<1>2. Subtree[n] = {n} \cup {m \in Nodes : \E p \in Subtree[n] :
                                 \E k \in 1..Len(Blocks[p]) : m = Blocks[p][k]}
  BY TreeAssumption
<1>3. n \in Subtree[n] /\ Subtree[n] \subseteq Nodes \cup {n}
  BY <1>2
<1>4. ASSUME NEW p \in Subtree[n], NEW k \in 1..Len(Blocks[p])
      PROVE  Blocks[p][k] \in Subtree[n]
  <2>1. p \in Places
    BY <1>3 DEF Places
  <2>2. Blocks[p][k] \in Nodes
    BY <2>1, BlockFacts
  <2> QED
    BY <1>2, <2>2
<1>5. ASSUME NEW p \in Places, NEW k \in 1..Len(Blocks[p]), Blocks[p][k] \in Subtree[n],
             Blocks[p][k] # n
      PROVE  p \in Subtree[n]
  <2>1. PICK q \in Subtree[n] : \E l \in 1..Len(Blocks[q]) : Blocks[p][k] = Blocks[q][l]
    BY <1>2, <1>5
  <2>2. q \in Places
    BY <1>3 DEF Places
  <2>3. q = p
    BY <2>1, <2>2, BlockFacts
  <2> QED
    BY <2>3
<1>6. \A k \in 1..Len(Blocks[n]) : Subtree[Blocks[n][k]] \subseteq Subtree[n]
  BY <1>1
<1> QED
  BY <1>3, <1>4, <1>5, <1>6

\* The root is in no subtree but its own.
LEMMA SubtreeOfNode ==
  ASSUME NEW n \in Nodes
  PROVE  Subtree[n] \subseteq Nodes /\ n \in Places /\ n # Root
  BY SubtreeFacts, RootAssumption DEF Places

-----------------------------------------------------------------------------
(* What a step does to the loops. *)

\* Nothing: only where the innermost one is changes, or what it returns.
StayPut ==
  /\ UNCHANGED <<stack, starts, failed, errorNode>>
  /\ \/ UNCHANGED <<pc, ret>>
     \/ pc = "check" /\ HasNext(Top) /\ ~done /\ pc' = "start" /\ UNCHANGED ret
     \/ pc = "check" /\ HasNext(Top) /\ done /\ pc' = "leave" /\ ret' = {"canceled"}
     \/ /\ pc = "check" /\ ~HasNext(Top) /\ ~(Top.phase = "try" /\ Top.errs # {})
        /\ pc' = "leave" /\ (ret' = Top.errs \/ (ret' = Top.errs \cup {"blocks"} /\ Top.errs # {}))
     \/ /\ pc = "running" /\ Kind[Child(Top)] = "leaf"
        /\ pc' = "panic" /\ UNCHANGED ret /\ "panic" \in faults'
     \/ pc = "panic" /\ pc' = "over" /\ UNCHANGED ret
     \/ pc = "leave" /\ Top.node = Root /\ pc' = "over" /\ UNCHANGED ret

\* A TryCatch goes on with its catch blocks.
IntoCatch ==
  /\ pc = "check" /\ ~HasNext(Top) /\ Top.phase = "try" /\ Top.errs # {}
  /\ stack' = WithTop(stack, [Top EXCEPT !.phase = "catch", !.i = 1])
  /\ UNCHANGED <<pc, ret, starts, failed, errorNode>>

Starts(n) ==
  /\ pc = "start" /\ n = Child(Top) /\ n \notin Disabled
  /\ starts' = [starts EXCEPT ![n] = @ + 1]

Works(n) ==
  /\ Starts(n) /\ Kind[n] \notin Loops
  /\ pc' = "running"
  /\ UNCHANGED <<stack, ret, failed, errorNode>>

PhaseOf(n) == CASE Kind[n] = "condition" -> "branches"
                [] Kind[n] = "tryCatch" -> "try"
                [] OTHER -> "blocks"

Enters(n) ==
  /\ Starts(n) /\ Kind[n] \in Loops
  /\ stack' = Append(stack, NewFrame(n, PhaseOf(n)))
  /\ pc' = "check"
  /\ UNCHANGED <<ret, failed, errorNode>>

\* Node n returns err to the loop around it.
Skips(n, err) ==
  /\ pc = "start" /\ n = Child(Top) /\ n \in Disabled /\ err = {}
  /\ UNCHANGED <<starts, failed>>
Refuses(n, err) ==
  /\ Starts(n) /\ Kind[n] = "branch" /\ err \in {{}, {"failure"}}
  /\ failed' = IF err = {} THEN failed ELSE failed \cup {n}
Ends(n, err) ==
  /\ pc = "running" /\ n = Child(Top) /\ UNCHANGED starts
  /\ IF err = {"terminated"} THEN Kind[n] = "end" /\ UNCHANGED failed
     ELSE /\ Kind[n] # "end" /\ err \in LeafErrors
          /\ failed' = IF err = {} THEN failed ELSE failed \cup {n}
Closes(n, err) ==
  /\ pc = "leave" /\ n = Top.node /\ UNCHANGED <<starts, failed>>
  /\ err = IF Top.phase = "blocks" /\ ret # {} THEN ret \cup {"blocks"} ELSE ret

Names(n, err) ==
  errorNode' = IF err # {} /\ err \cap {"terminated", "blocks"} = {} THEN n ELSE errorNode

Yields(n, err) ==
  \/ Skips(n, err) \/ Refuses(n, err) \/ Ends(n, err) \/ Closes(n, err)

\* The loop at level L takes it: the ones above are left, it goes on or leaves.
Takes(L, n, err) ==
  LET f == stack[L] IN
  /\ L \in 1..Len(stack) /\ f \in Frame /\ HasNext(f) /\ n = Child(f) /\ n \in Nodes
  /\ IF pc = "leave" THEN L = Len(stack) - 1 ELSE L = Len(stack)
  /\ stack' \in Seq(Frame) /\ Len(stack') = L
  /\ \A l \in 1..(L - 1) : stack'[l] = stack[l]
  /\ IF GoesOn(f, err)
     THEN /\ stack'[L].node = f.node /\ stack'[L].phase = f.phase
          /\ stack'[L].i = At(f) + 1 /\ stack'[L].errs = f.errs \cup err
          /\ pc' = "check" /\ ret' = {}
     ELSE stack'[L] = f /\ pc' = "leave" /\ ret' = err

\* A context that is done stays done, and nothing that has happened is forgotten.
Grows ==
  /\ (done => done') /\ faults \subseteq faults' /\ failed \subseteq failed'
  /\ \A m \in Nodes : starts[m] > 0 => starts'[m] > 0

\* The error an Execute returns is taken by the loop around.
LEMMA HandleTakes ==
  ASSUME NEW s, StackShape(s), HasNext(s[Len(s)]),
         Len(s) \in 1..Len(stack), \A k \in 1..Len(s) : s[k] = stack[k],
         IF pc = "leave" THEN Len(s) = Len(stack) - 1 ELSE Len(s) = Len(stack),
         NEW err \in SUBSET Errors, Handle(s, err)
  PROVE  Takes(Len(s), Child(s[Len(s)]), err)
<1> DEFINE L == Len(s)
           f == s[L]
           g == [f EXCEPT !.i = At(f) + 1, !.errs = @ \cup err]
<1>1. s \in Seq(Frame) /\ L \in Nat \ {0} /\ L \in 1..L /\ f \in Frame /\ f = stack[L]
  BY DEF StackShape
<1>2. Child(f) \in Nodes /\ At(f) \in Nat
  BY <1>1, AtIsFirst
<1>3. CASE GoesOn(f, err)
  <2>1. stack' = WithTop(s, g) /\ pc' = "check" /\ ret' = {}
    BY <1>3 DEF Handle
  <2>2. /\ g \in Frame /\ g.node = f.node /\ g.phase = f.phase
        /\ g.i = At(f) + 1 /\ g.errs = f.errs \cup err
    <3> DEFINE j == At(f) + 1
               errs == f.errs \cup err
    <3>1. j \in Nat \ {0} /\ errs \in SUBSET Errors
      BY <1>1, <1>2 DEF Frame
    <3>2. g = [f EXCEPT !.i = j, !.errs = errs]
      OBVIOUS
    <3>3. j = At(f) + 1 /\ errs = f.errs \cup err
      OBVIOUS
    <3> HIDE DEF f, g, j, errs
    <3> QED
      BY <1>1, <3>1, <3>2, <3>3 DEF Frame
  <2> HIDE DEF g
  <2>3. /\ stack' \in Seq(Frame) /\ Len(stack') = L /\ stack'[L] = g
        /\ \A l \in 1..(L - 1) : stack'[l] = s[l]
    BY <1>1, <2>1, <2>2 DEF WithTop
  <2> QED
    BY <1>1, <1>2, <1>3, <2>1, <2>2, <2>3 DEF Takes
<1>4. CASE ~GoesOn(f, err)
  <2>1. stack' = s /\ pc' = "leave" /\ ret' = err
    BY <1>4 DEF Handle
  <2> QED
    BY <1>1, <1>2, <1>4, <2>1 DEF Takes
<1> QED
  BY <1>3, <1>4

\* Every step is one of these.
LEMMA StepKinds ==
  ASSUME EngineInv, [Next]_vars
  PROVE  /\ Grows
         /\ \/ StayPut \/ IntoCatch
            \/ \E n \in Nodes : Works(n) \/ Enters(n)
            \/ \E n \in Nodes : \E err \in SUBSET Errors : \E L \in 1..Len(stack) :
                 Yields(n, err) /\ Names(n, err) /\ Takes(L, n, err)
<1> USE StackIsSound
<1>0. starts \in [Nodes -> Nat] /\ Len(stack) \in 1..Len(stack) /\ Top = stack[Len(stack)]
  BY DEF EngineInv, TypeOK, Top
<1>1. CASE CheckContext \/ EndLoop
  <2>1. Grows
    BY <1>1 DEF CheckContext, EndLoop, Grows, historyVars
  <2>2. StayPut \/ IntoCatch
    BY <1>1 DEF CheckContext, EndLoop, StayPut, IntoCatch, historyVars
  <2> QED
    BY <2>1, <2>2
<1>2. CASE Recover \/ Finish \/ Cancel \/ UNCHANGED vars \/ \E n \in Nodes : LogError(n)
  <2>1. Grows
    BY <1>2 DEF Recover, Finish, Cancel, LogError, Grows, vars, graphVars, historyVars
  <2>2. StayPut
    BY <1>2 DEF Recover, Finish, Cancel, LogError, StayPut, vars, graphVars, historyVars
  <2> QED
    BY <2>1, <2>2
<1>3. ASSUME NEW n \in Nodes, WorkPanics(n) PROVE Grows /\ StayPut
  BY <1>3 DEF WorkPanics, Grows, StayPut
<1>4. ASSUME NEW n \in Nodes, Starting(n)
      PROVE  Starts(n) /\ \A m \in Nodes : starts[m] > 0 => starts'[m] > 0
  BY <1>0, <1>4 DEF Starting, Starts
<1>5. ASSUME NEW n \in Nodes, StartWork(n)
      PROVE  Grows /\ Works(n)
  BY <1>4, <1>5 DEF StartWork, Starting, Works, Grows
<1>6. ASSUME NEW n \in Nodes, EnterLoop(n)
      PROVE  Grows /\ Enters(n)
  BY <1>4, <1>6 DEF EnterLoop, Starting, Enters, PhaseOf, Grows
<1>7. pc \in {"start", "running"} => HasNext(Top)
  BY DEF EngineInv, LoopsAreNested
<1>8. ASSUME pc \in {"start", "running"}, NEW err \in SUBSET Errors, Handle(stack, err)
      PROVE  Takes(Len(stack), Child(Top), err)
  BY <1>0, <1>7, <1>8, HandleTakes
<1>9. CASE SkipDisabled
  <2>1. /\ pc = "start" /\ Child(Top) \in Disabled /\ Handle(stack, {})
        /\ UNCHANGED <<done, errorNode, logs, outcome, starts, late, failed, faults>>
    BY <1>9 DEF SkipDisabled, historyVars
  <2>2. Grows
    BY <2>1 DEF Grows
  <2>3. Takes(Len(stack), Child(Top), {})
    BY <1>8, <2>1
  <2>4. Child(Top) \in Nodes
    BY <1>7, <2>1, AtIsFirst
  <2>5. Yields(Child(Top), {}) /\ Names(Child(Top), {})
    BY <2>1 DEF Yields, Skips, Names
  <2> QED
    BY <1>0, <2>2, <2>3, <2>4, <2>5
<1>10. ASSUME NEW n \in Nodes, RefuseBranch(n)
       PROVE  /\ Grows
              /\ \E err \in SUBSET Errors : \E L \in 1..Len(stack) :
                   Yields(n, err) /\ Names(n, err) /\ Takes(L, n, err)
  <2>1. PICK err \in {{}, {"failure"}} :
          /\ ReturnFrom(n, stack, err)
          /\ failed' = IF err = {} THEN failed ELSE failed \cup {n}
          /\ faults' = faults \cup err
    BY <1>10 DEF RefuseBranch
  <2>2. Starting(n) /\ Kind[n] = "branch"
    BY <1>10 DEF RefuseBranch
  <2>3. Starts(n) /\ \A m \in Nodes : starts[m] > 0 => starts'[m] > 0
    BY <1>4, <2>2
  <2>4. Grows
    BY <2>1, <2>2, <2>3 DEF Grows, Starting
  <2>5. err \in SUBSET Errors
    BY <2>1 DEF Errors
  <2>6. Yields(n, err) /\ Names(n, err)
    BY <2>1, <2>2, <2>3 DEF Yields, Refuses, Names, ReturnFrom
  <2>7. Takes(Len(stack), n, err)
    BY <1>8, <2>1, <2>3, <2>5 DEF ReturnFrom, Starts
  <2> QED
    BY <1>0, <2>4, <2>5, <2>6, <2>7
<1>11. ASSUME NEW n \in Nodes,
              \/ PassiveReturns(n) \/ EndReturns(n)
              \/ \E err \in LeafErrors : WorkReturns(n, err)
       PROVE  /\ Grows
              /\ \E err \in SUBSET Errors : \E L \in 1..Len(stack) :
                   Yields(n, err) /\ Names(n, err) /\ Takes(L, n, err)
  <2>1. PICK err \in LeafErrors \cup {{"terminated"}} :
          ReturnFrom(n, stack, err) /\ Ends(n, err) /\ UNCHANGED done /\ faults \subseteq faults'
    <3>1. CASE PassiveReturns(n)
      BY <3>1 DEF PassiveReturns, Ends, historyVars, LeafErrors
    <3>2. CASE EndReturns(n)
      BY <3>2 DEF EndReturns, Ends, historyVars
    <3>3. ASSUME NEW err \in LeafErrors, WorkReturns(n, err)
          PROVE  /\ ReturnFrom(n, stack, err) /\ Ends(n, err)
                 /\ UNCHANGED done /\ faults \subseteq faults'
      <4>1. err # {"terminated"}
        BY DEF LeafErrors
      <4> QED
        BY <3>3, <4>1 DEF WorkReturns, Ends
    <3> QED
      BY <1>11, <3>1, <3>2, <3>3
  <2>2. err \in SUBSET Errors
    BY DEF LeafErrors, Errors
  <2>3. Grows
    BY <2>1 DEF Ends, Grows
  <2>4. Yields(n, err) /\ Names(n, err)
    BY <2>1 DEF Yields, Names, ReturnFrom
  <2>5. Takes(Len(stack), n, err)
    BY <1>8, <2>1, <2>2 DEF ReturnFrom, Ends
  <2> QED
    BY <1>0, <2>2, <2>3, <2>4, <2>5
<1>12. ASSUME NEW n \in Nodes, Return(n)
       PROVE  /\ Grows
              /\ \E err \in SUBSET Errors : \E L \in 1..Len(stack) :
                   Yields(n, err) /\ Names(n, err) /\ Takes(L, n, err)
  <2> DEFINE err == IF Top.phase = "blocks" /\ ret # {} THEN ret \cup {"blocks"} ELSE ret
  <2>1. /\ pc = "leave" /\ UNCHANGED <<done, outcome, starts, late, failed, faults>>
        /\ ReturnFrom(n, Below, err) /\ Top.node # Root /\ Top.node = n
    BY <1>12 DEF Return, historyVars
  <2>2. err \in SUBSET Errors
    BY DEF EngineInv, TypeOK, Errors
  <2>3. Grows
    BY <2>1 DEF Grows
  <2>4. Yields(n, err) /\ Names(n, err)
    BY <2>1 DEF Yields, Closes, Names, ReturnFrom
  <2>5. Len(stack) # 1
    BY <2>1 DEF StackShape, Top
  <2> HIDE DEF err
  <2>6. /\ StackShape(Below) /\ Len(Below) = Len(stack) - 1
        /\ \A k \in 1..Len(Below) : Below[k] = stack[k]
        /\ HasNext(Below[Len(Below)]) /\ Child(Below[Len(Below)]) = n
    BY <2>1, <2>5, BelowIsSound
  <2>7. Len(Below) \in 1..Len(stack)
    BY <2>5, <2>6
  <2>8. Takes(Len(Below), n, err)
    BY <2>1, <2>2, <2>6, <2>7, HandleTakes DEF ReturnFrom
  <2> QED
    BY <2>2, <2>3, <2>4, <2>7, <2>8
<1> QED
  BY <1>1, <1>2, <1>3, <1>5, <1>6, <1>9, <1>10, <1>11, <1>12 DEF Next, Step, NodeStep

-----------------------------------------------------------------------------
(* An End node ends the run. *)

\* Once an End node is started nothing is left but to return.
EndStops ==
  \A n \in Nodes : Kind[n] = "end" /\ starts[n] > 0 =>
    \/ pc = "running" /\ n = Child(Top)
    \/ pc = "leave" /\ "terminated" \in ret
    \/ pc = "over"

LEMMA EndStopsStep ==
  ASSUME EngineInv, EndStops, [Next]_vars
  PROVE  EndStops'
<1> SUFFICES ASSUME NEW m \in Nodes, Kind[m] = "end", starts'[m] > 0
             PROVE  \/ pc' = "running" /\ m = Child(Top)'
                    \/ pc' = "leave" /\ "terminated" \in ret'
                    \/ pc' = "over"
  BY DEF EndStops
<1>0. starts \in [Nodes -> Nat]
  BY DEF EngineInv, TypeOK
<1>1. starts[m] > 0 => \/ pc = "running" /\ m = Child(Top)
                       \/ pc = "leave" /\ "terminated" \in ret
                       \/ pc = "over"
  BY DEF EndStops
<1>2. CASE StayPut
  <2>1. starts[m] > 0 /\ Child(Top)' = Child(Top)
    BY <1>2 DEF StayPut, Top, Child, At, Ahead
  <2> QED
    BY <1>1, <1>2, <2>1 DEF StayPut
<1>3. CASE IntoCatch
  BY <1>1, <1>3 DEF IntoCatch
<1>4. ASSUME NEW n \in Nodes, Works(n) PROVE pc' = "running" /\ m = Child(Top)'
  <2>1. pc = "start" /\ n = Child(Top) /\ starts' = [starts EXCEPT ![n] = @ + 1] /\ pc' = "running"
    BY <1>4 DEF Works, Starts
  <2>2. m = n
    BY <1>0, <1>1, <2>1
  <2>3. Child(Top)' = Child(Top)
    BY <1>4 DEF Works, Top, Child, At, Ahead
  <2> QED
    BY <2>1, <2>2, <2>3
<1>5. ASSUME NEW n \in Nodes, Enters(n) PROVE FALSE
  <2>1. pc = "start" /\ starts' = [starts EXCEPT ![n] = @ + 1] /\ Kind[n] # "end"
    BY <1>5 DEF Enters, Starts, Loops
  <2> QED
    BY <1>0, <1>1, <2>1
<1>6. ASSUME NEW n \in Nodes, NEW err \in SUBSET Errors, NEW L \in 1..Len(stack),
             Yields(n, err), Takes(L, n, err)
      PROVE  pc' = "leave" /\ "terminated" \in ret'
  <2>1. "terminated" \in err
    <3>1. CASE Skips(n, err)
      BY <1>1, <3>1 DEF Skips
    <3>2. CASE Refuses(n, err)
      <4>1. pc = "start" /\ starts' = [starts EXCEPT ![n] = @ + 1] /\ Kind[n] # "end"
        BY <3>2 DEF Refuses, Starts
      <4> QED
        BY <1>0, <1>1, <4>1
    <3>3. CASE Ends(n, err)
      BY <1>1, <3>3 DEF Ends
    <3>4. CASE Closes(n, err)
      BY <1>1, <3>4 DEF Closes
    <3> QED
      BY <1>6, <3>1, <3>2, <3>3, <3>4 DEF Yields
  <2>2. ~GoesOn(stack[L], err)
    BY <2>1 DEF GoesOn
  <2> QED
    BY <1>6, <2>1, <2>2 DEF Takes
<1> QED
  BY <1>2, <1>3, <1>4, <1>5, <1>6, StepKinds

LEMMA EndStopsHolds == Spec => []EndStops
<1>1. Init => EndStops
  BY DEF Init, EndStops
<1> QED
  BY <1>1, EndStopsStep, EngineInvariant, PTL DEF Spec

\* Nothing is started after an End node, however deep it is in branches, try and catch
\* blocks, and whatever the blocks around it still had to do.
THEOREM NothingAfterEndHolds == Spec => NothingAfterEnd
<1> SUFFICES ASSUME EngineInv, EndStops, [Next]_vars
             PROVE  [EndedIn(Root) => starts' = starts]_vars
  BY EndStopsHolds, EngineInvariant, PTL DEF Spec, NothingAfterEnd
<1> SUFFICES ASSUME EndedIn(Root) PROVE starts' = starts
  OBVIOUS
<1>1. PICK m \in Subtree[Root] \ {Root} : Kind[m] = "end" /\ starts[m] > 0
  BY DEF EndedIn
<1>2. m \in Nodes
  BY SubtreeFacts DEF Places
<1>3. pc # "start"
  BY <1>1, <1>2 DEF EndStops
<1> QED
  BY <1>3, StepKinds
     DEF StayPut, IntoCatch, Works, Enters, Starts, Yields, Skips, Refuses, Ends, Closes

-----------------------------------------------------------------------------
(* The loops and what has been started. *)

Frames == 1..Len(stack)

\* The block at which loop l stands has begun.
Active(l) == l < Len(stack) \/ pc \in {"running", "panic", "leave", "over"}

\* A loop is in a phase of its node; a TryCatch answers errors.
PhaseFits(f) ==
  /\ f.phase = "branches" <=> f.node \in Nodes /\ Kind[f.node] = "condition"
  /\ f.phase \in {"try", "catch"} <=> f.node \in Nodes /\ Kind[f.node] = "tryCatch"
  /\ f.phase = "catch" => f.errs # {}

PhasesFit == \A l \in Frames : PhaseFits(stack[l])

FramesDiffer == \A l, m \in Frames : stack[l].node = stack[m].node => l = m

\* What is running has been started, and was not disabled.
Began(n) == n \in Nodes /\ n \notin Disabled /\ starts[n] > 0
HaveBegun ==
  /\ \A l \in Frames : l > 1 => Began(stack[l].node)
  /\ pc = "running" => Began(Child(Top)) /\ Kind[Child(Top)] \notin Loops

\* Nothing starts before the node around it.
NothingEarly == \A n \in Nodes : \A m \in Subtree[n] : starts[m] > 0 => starts[n] > 0

\* A loop has started blocks it has passed, and the one at which it stands.
Reached(f, k, active) ==
  IF Runs(f.phase, Kind[Blocks[f.node][k]])
  THEN k < f.i \/ (HasNext(f) /\ k = At(f) /\ active)
  ELSE f.phase = "catch"
InOrder ==
  \A l \in Frames : \A k \in 1..Len(Blocks[stack[l].node]) :
    starts[Blocks[stack[l].node][k]] > 0 => Reached(stack[l], k, Active(l))

LoopInv == PhasesFit /\ FramesDiffer /\ HaveBegun /\ NothingEarly /\ InOrder

LEMMA FrameFacts ==
  ASSUME EngineInv, NEW l \in Frames
  PROVE  /\ stack[l] \in Frame /\ stack[l].node \in Places /\ Len(stack) \in Frames
         /\ stack[l].i \in Nat /\ stack[l].phase \in Phases /\ stack[l].errs \in SUBSET Errors
         /\ l < Len(stack) => HasNext(stack[l]) /\ stack[l + 1].node = Child(stack[l])
         /\ stack[1].node = Root /\ Top = stack[Len(stack)] /\ starts \in [Nodes -> Nat]
<1>1. StackShape(stack)
  BY StackIsSound
<1>2. stack[l] \in Frame /\ Len(stack) \in Frames
  BY <1>1 DEF StackShape, Frames
<1>3. l < Len(stack) => HasNext(stack[l]) /\ stack[l + 1].node = Child(stack[l])
  BY DEF EngineInv, LoopsAreNested, Frames
<1> QED
  BY <1>1, <1>2, <1>3 DEF Frame, StackShape, Top, EngineInv, TypeOK

LEMMA IntoCatchStack ==
  ASSUME EngineInv, IntoCatch
  PROVE  /\ Len(stack') = Len(stack) /\ \A l \in 1..(Len(stack) - 1) : stack'[l] = stack[l]
         /\ stack'[Len(stack)].node = Top.node /\ stack'[Len(stack)].phase = "catch"
         /\ stack'[Len(stack)].i = 1 /\ stack'[Len(stack)].errs = Top.errs
         /\ stack' \in Seq(Frame)
<1> DEFINE g == [Top EXCEPT !.phase = "catch", !.i = 1]
<1>1. Top \in Frame /\ stack \in Seq(Frame) /\ Len(stack) \in Nat \ {0}
  BY StackIsSound DEF StackShape
<1>2. g \in Frame /\ g.node = Top.node /\ g.phase = "catch" /\ g.i = 1 /\ g.errs = Top.errs
  <2>1. 1 \in Nat \ {0} /\ "catch" \in Phases
    BY DEF Phases
  <2> QED
    BY <1>1, <2>1 DEF Frame
<1>3. stack' = WithTop(stack, g)
  BY DEF IntoCatch
<1> HIDE DEF g
<1>4. /\ Len(stack') = Len(stack) /\ stack'[Len(stack)] = g /\ stack' \in Seq(Frame)
      /\ \A l \in 1..(Len(stack) - 1) : stack'[l] = stack[l]
  BY <1>1, <1>2, <1>3 DEF WithTop
<1> QED
  BY <1>2, <1>4

LEMMA EntersStack ==
  ASSUME EngineInv, NEW n \in Nodes, Enters(n)
  PROVE  /\ Len(stack') = Len(stack) + 1 /\ \A l \in 1..Len(stack) : stack'[l] = stack[l]
         /\ stack'[Len(stack) + 1] = NewFrame(n, PhaseOf(n))
         /\ NewFrame(n, PhaseOf(n)) \in Frame
         /\ HasNext(Top) /\ n = Child(Top) /\ Top \in Frame /\ Top.node \in Places
<1>1. Top \in Frame /\ stack \in Seq(Frame) /\ Len(stack) \in Nat \ {0} /\ HasNext(Top)
  BY StackIsSound DEF StackShape, Enters, Starts, EngineInv, LoopsAreNested
<1>2. PhaseOf(n) \in Phases
  BY DEF PhaseOf, Phases
<1>3. NewFrame(n, PhaseOf(n)) \in Frame
  BY <1>2 DEF NewFrame, Frame, Places
<1> DEFINE f == NewFrame(n, PhaseOf(n))
<1>4. stack' = Append(stack, f) /\ n = Child(Top)
  BY DEF Enters, Starts
<1> HIDE DEF f
<1>5. /\ Len(stack') = Len(stack) + 1 /\ \A l \in 1..Len(stack) : stack'[l] = stack[l]
      /\ stack'[Len(stack) + 1] = f
  BY <1>1, <1>3, <1>4
<1> QED
  BY <1>1, <1>3, <1>4, <1>5 DEF f, Frame

\* What is known of the block that is about to begin, and of its loop.
LEMMA ChosenFacts ==
  ASSUME EngineInv, pc = "start"
  PROVE  /\ HasNext(Top) /\ Top \in Frame /\ Top.node \in Places
         /\ At(Top) \in 1..Len(Blocks[Top.node]) /\ Child(Top) = Blocks[Top.node][At(Top)]
         /\ Runs(Top.phase, Kind[Child(Top)]) /\ Child(Top) \in Nodes
<1>1. HasNext(Top) /\ Top \in Frame
  BY StackIsSound DEF EngineInv, LoopsAreNested
<1> QED
  BY <1>1, AtIsFirst DEF Child

LEMMA StartsFacts ==
  ASSUME EngineInv, NEW n \in Nodes, Starts(n)
  PROVE  /\ pc = "start" /\ HasNext(Top) /\ Top \in Frame /\ n = Child(Top)
         /\ At(Top) \in 1..Len(Blocks[Top.node]) /\ n = Blocks[Top.node][At(Top)]
         /\ Runs(Top.phase, Kind[n]) /\ Top.node \in Places
         /\ \A m \in Nodes : starts'[m] > 0 <=> starts[m] > 0 \/ m = n
<1>1. starts \in [Nodes -> Nat] /\ starts' = [starts EXCEPT ![n] = @ + 1]
  BY DEF Starts, EngineInv, TypeOK
<1>2. \A m \in Nodes : starts'[m] > 0 <=> starts[m] > 0 \/ m = n
  BY <1>1
<1>3. pc = "start" /\ n = Child(Top)
  BY DEF Starts
<1> QED
  BY <1>2, <1>3, ChosenFacts

\* A node that is about to start has not been started before, and no loop runs it.
LEMMA FreshChild ==
  ASSUME EngineInv, LoopInv, pc = "start"
  PROVE  ~(starts[Child(Top)] > 0) /\ \A l \in Frames : stack[l].node # Child(Top)
<1>1. /\ Len(stack) \in Frames /\ Top = stack[Len(stack)] /\ stack[1].node = Root
      /\ At(Top) \in Nat /\ Top.i \in Nat /\ At(Top) >= Top.i
  BY FrameFacts, StackIsSound, ChosenFacts, AtIsFirst DEF Frames
<1>2. ~(starts[Child(Top)] > 0)
  <2> SUFFICES ASSUME starts[Child(Top)] > 0 PROVE FALSE
    OBVIOUS
  <2>1. Reached(Top, At(Top), Active(Len(stack)))
    BY <1>1, ChosenFacts DEF LoopInv, InOrder
  <2>2. ~Active(Len(stack))
    BY <1>1 DEF Active, Frames
  <2> QED
    BY <1>1, <2>1, <2>2, ChosenFacts DEF Reached
<1>3. ASSUME NEW l \in Frames PROVE stack[l].node # Child(Top)
  <2>1. CASE l = 1
    BY <1>1, <2>1, ChosenFacts, RootAssumption
  <2>2. CASE l # 1
    <3>1. l > 1
      BY <2>2 DEF Frames
    <3> QED
      BY <1>2, <3>1 DEF LoopInv, HaveBegun, Began
  <2> QED
    BY <2>1, <2>2
<1> QED
  BY <1>2, <1>3

\* A loop stays in a phase of its node.
LEMMA PhasesFitStep ==
  ASSUME EngineInv, LoopInv, [Next]_vars
  PROVE  PhasesFit'
<1> SUFFICES ASSUME NEW l \in Frames' PROVE PhaseFits(stack'[l])
  BY DEF PhasesFit
<1>1. \A m \in Frames : PhaseFits(stack[m])
  BY DEF LoopInv, PhasesFit
<1>2. StackShape(stack)
  BY StackIsSound
<1>3. CASE StayPut \/ \E n \in Nodes : Works(n)
  BY <1>1, <1>3 DEF StayPut, Works, Frames
<1>4. CASE IntoCatch
  <2>1. CASE l = Len(stack)
    <3>1. PhaseFits(Top) /\ Top.phase = "try" /\ Top.errs # {}
      BY <1>1, <1>2, <1>4 DEF Top, Frames, IntoCatch, StackShape
    <3> QED
      BY <1>4, <2>1, <3>1, IntoCatchStack DEF PhaseFits
  <2>2. CASE l # Len(stack)
    BY <1>1, <1>2, <1>4, <2>2, IntoCatchStack DEF Frames, StackShape
  <2> QED
    BY <2>1, <2>2
<1>5. ASSUME NEW n \in Nodes, Enters(n) PROVE PhaseFits(stack'[l])
  <2>1. CASE l = Len(stack) + 1
    <3>1. PhaseFits(NewFrame(n, PhaseOf(n)))
      BY DEF PhaseFits, NewFrame, PhaseOf
    <3> QED
      BY <1>5, <2>1, <3>1, EntersStack
  <2>2. CASE l # Len(stack) + 1
    BY <1>1, <1>2, <1>5, <2>2, EntersStack DEF Frames, StackShape
  <2> QED
    BY <2>1, <2>2
<1>6. ASSUME NEW n \in Nodes, NEW err \in SUBSET Errors, NEW L \in 1..Len(stack),
             Takes(L, n, err)
      PROVE  PhaseFits(stack'[l])
  <2>1. CASE l = L
    <3>1. PhaseFits(stack[L])
      BY <1>1 DEF Frames
    <3>2. /\ stack'[L].node = stack[L].node /\ stack'[L].phase = stack[L].phase
          /\ stack[L].errs # {} => stack'[L].errs # {}
      BY <1>6 DEF Takes
    <3> QED
      BY <2>1, <3>1, <3>2 DEF PhaseFits
  <2>2. CASE l # L
    <3>1. l \in 1..(L - 1) /\ l \in Frames
      BY <1>2, <1>6, <2>2 DEF Takes, Frames, StackShape
    <3> QED
      BY <1>1, <1>6, <3>1 DEF Takes
  <2> QED
    BY <2>1, <2>2
<1> QED
  BY <1>3, <1>4, <1>5, <1>6, StepKinds

\* The loops after a step run the nodes they ran before, but for a new innermost one.
LEMMA NodesOfFrames ==
  ASSUME EngineInv, [Next]_vars, NEW l \in Frames'
  PROVE  \/ l \in Frames /\ stack'[l].node = stack[l].node
         \/ /\ l = Len(stack) + 1
            /\ \E n \in Nodes : Enters(n) /\ stack'[l].node = n
<1>1. StackShape(stack)
  BY StackIsSound
<1>2. CASE StayPut \/ \E n \in Nodes : Works(n)
  BY <1>2 DEF StayPut, Works, Frames
<1>3. CASE IntoCatch
  <2>1. l \in 1..Len(stack)
    BY <1>3, IntoCatchStack DEF Frames
  <2>2. CASE l = Len(stack)
    BY <1>3, <2>1, <2>2, IntoCatchStack DEF Frames, Top
  <2>3. CASE l # Len(stack)
    BY <1>1, <1>3, <2>1, <2>3, IntoCatchStack DEF Frames, StackShape
  <2> QED
    BY <2>2, <2>3
<1>4. ASSUME NEW n \in Nodes, Enters(n)
      PROVE  \/ l \in Frames /\ stack'[l].node = stack[l].node
             \/ l = Len(stack) + 1 /\ stack'[l].node = n
  <2>1. CASE l = Len(stack) + 1
    <3>1. NewFrame(n, PhaseOf(n)).node = n
      BY DEF NewFrame
    <3> QED
      BY <1>4, <2>1, <3>1, EntersStack
  <2>2. CASE l # Len(stack) + 1
    BY <1>1, <1>4, <2>2, EntersStack DEF Frames, StackShape
  <2> QED
    BY <2>1, <2>2
<1>5. ASSUME NEW n \in Nodes, NEW err \in SUBSET Errors, NEW L \in 1..Len(stack),
             Takes(L, n, err)
      PROVE  l \in Frames /\ stack'[l].node = stack[l].node
  <2>1. CASE l = L
    BY <1>5, <2>1 DEF Takes, Frames
  <2>2. CASE l # L
    BY <1>1, <1>5, <2>2 DEF Takes, Frames, StackShape
  <2> QED
    BY <2>1, <2>2
<1> QED
  BY <1>2, <1>3, <1>4, <1>5, StepKinds

\* Only a start changes what has been started.
LEMMA OnlyStartsStart ==
  ASSUME EngineInv, [Next]_vars
  PROVE  UNCHANGED starts \/ \E n \in Nodes : Starts(n)
BY StepKinds DEF StayPut, IntoCatch, Works, Enters, Yields, Skips, Refuses, Ends, Closes

LEMMA FramesDifferStep ==
  ASSUME EngineInv, LoopInv, [Next]_vars
  PROVE  FramesDiffer'
<1> SUFFICES ASSUME NEW l \in Frames', NEW m \in Frames', stack'[l].node = stack'[m].node
             PROVE  l = m
  BY DEF FramesDiffer
<1>1. \A n \in Nodes : Enters(n) => \A k \in Frames : stack[k].node # n
  BY FreshChild DEF Enters, Starts
<1> QED
  BY <1>1, NodesOfFrames DEF LoopInv, FramesDiffer

LEMMA HaveBegunStep ==
  ASSUME EngineInv, LoopInv, [Next]_vars
  PROVE  HaveBegun'
<1>1. \A n : Began(n) => Began(n)'
  BY StepKinds DEF Began, Grows
<1>2. \A n \in Nodes : Starts(n) => Began(n)'
  BY StartsFacts DEF Began, Starts
<1>3. ASSUME NEW l \in Frames', l > 1 PROVE Began(stack[l].node)'
  <2>1. CASE l \in Frames /\ stack'[l].node = stack[l].node
    BY <1>1, <1>3, <2>1 DEF LoopInv, HaveBegun
  <2>2. ASSUME NEW n \in Nodes, Enters(n), stack'[l].node = n PROVE Began(stack[l].node)'
    BY <1>2, <2>2 DEF Enters
  <2> QED
    BY <2>1, <2>2, NodesOfFrames
<1>4. ASSUME pc' = "running" PROVE (Began(Child(Top)) /\ Kind[Child(Top)] \notin Loops)'
  <2>1. CASE StayPut
    <3>1. pc = "running" /\ Child(Top)' = Child(Top)
      BY <1>4, <2>1 DEF StayPut, Top, Child, At, Ahead
    <3> QED
      BY <1>1, <3>1 DEF LoopInv, HaveBegun
  <2>2. ASSUME NEW n \in Nodes, Works(n)
        PROVE  (Began(Child(Top)) /\ Kind[Child(Top)] \notin Loops)'
    <3>1. Starts(n) /\ Child(Top)' = n /\ Kind[n] \notin Loops
      BY <2>2 DEF Works, Starts, Top, Child, At, Ahead
    <3> QED
      BY <1>2, <3>1
  <2> QED
    BY <1>4, <2>1, <2>2, StepKinds DEF IntoCatch, Enters, Takes
<1> QED
  BY <1>3, <1>4 DEF HaveBegun

\* A start is below the innermost loop, whose node has begun.
LEMMA NothingEarlyStep ==
  ASSUME EngineInv, LoopInv, [Next]_vars
  PROVE  NothingEarly'
<1> SUFFICES ASSUME NEW n \in Nodes, NEW m \in Subtree[n], starts'[m] > 0
             PROVE  starts'[n] > 0
  BY DEF NothingEarly
<1>1. m \in Nodes
  BY SubtreeOfNode
<1>2. starts[n] > 0 => starts'[n] > 0
  BY StepKinds DEF Grows
<1>3. starts[m] > 0 => starts[n] > 0
  BY DEF LoopInv, NothingEarly
<1>4. ASSUME Starts(m) PROVE starts'[n] > 0
  <2>1. CASE m = n
    BY <2>1
  <2>2. CASE m # n
    <3>1. Top.node \in Subtree[n]
      BY <1>1, <1>4, <2>2, StartsFacts, SubtreeFacts DEF Places
    <3>2. Top.node \in Nodes /\ Top.node # Root
      BY <3>1, SubtreeOfNode, RootAssumption
    <3>3. Len(stack) \in Frames /\ Top = stack[Len(stack)] /\ stack[1].node = Root
      BY FrameFacts, StackIsSound DEF Frames
    <3>4. Len(stack) > 1
      BY <3>2, <3>3 DEF Frames
    <3>5. starts[Top.node] > 0
      BY <3>3, <3>4 DEF LoopInv, HaveBegun, Began
    <3> QED
      BY <1>2, <3>1, <3>5 DEF LoopInv, NothingEarly
  <2> QED
    BY <2>1, <2>2
<1>5. starts[m] > 0 \/ Starts(m)
  BY <1>1, OnlyStartsStart, StartsFacts
<1> QED
  BY <1>2, <1>3, <1>4, <1>5

\* The loop that starts a node is the innermost one; what has begun of its blocks it
\* has reached.
LEMMA NowReached ==
  ASSUME EngineInv, LoopInv, [Next]_vars,
         NEW l \in Frames, NEW k \in 1..Len(Blocks[stack[l].node]),
         starts'[Blocks[stack[l].node][k]] > 0
  PROVE  Reached(stack[l], k, TRUE)
<1>1. stack[l].node \in Places
  BY FrameFacts
<1>2. Blocks[stack[l].node][k] \in Nodes
  BY <1>1, BlockFacts
<1>3. CASE starts[Blocks[stack[l].node][k]] > 0
  BY <1>3 DEF LoopInv, InOrder, Reached
<1>4. ASSUME NEW n \in Nodes, Starts(n), Blocks[stack[l].node][k] = n
      PROVE  Reached(stack[l], k, TRUE)
  <2>1. /\ HasNext(Top) /\ At(Top) \in 1..Len(Blocks[Top.node]) /\ Top.node \in Places
        /\ n = Blocks[Top.node][At(Top)] /\ Runs(Top.phase, Kind[n])
    BY <1>4, StartsFacts
  <2>2. stack[l].node = Top.node /\ k = At(Top)
    BY <1>1, <1>4, <2>1, BlockFacts
  <2>3. stack[l] = Top
    BY <2>2, FrameFacts DEF LoopInv, FramesDiffer
  <2> QED
    BY <1>4, <2>1, <2>2, <2>3 DEF Reached
<1> QED
  BY <1>2, <1>3, <1>4, StartsFacts, OnlyStartsStart

\* A loop reaches its blocks in order.
LEMMA InOrderStep ==
  ASSUME EngineInv, LoopInv, [Next]_vars
  PROVE  InOrder'
<1> SUFFICES ASSUME NEW l \in Frames', NEW k \in 1..Len(Blocks[stack'[l].node]),
                    starts'[Blocks[stack'[l].node][k]] > 0
             PROVE  Reached(stack'[l], k, Active(l)')
  BY DEF InOrder, Reached, HasNext, At, Ahead
<1>0. StackShape(stack) /\ Len(stack) \in Frames /\ Top = stack[Len(stack)]
  BY StackIsSound, FrameFacts DEF Frames
<1>1. CASE StayPut
  BY <1>1 DEF StayPut, Active, LoopInv, InOrder, Reached, Frames
<1>2. CASE IntoCatch
  <2>1. l \in Frames /\ UNCHANGED starts /\ (Active(l)' <=> Active(l))
    BY <1>2, IntoCatchStack DEF Frames, IntoCatch, Active
  <2>2. CASE l = Len(stack)
    <3>1. stack'[l].node = Top.node /\ stack'[l].phase = "catch" /\ Top.phase = "try"
      BY <1>2, <2>2, IntoCatchStack DEF IntoCatch
    <3>2. Reached(Top, k, Active(l))
      BY <1>0, <2>1, <2>2, <3>1 DEF LoopInv, InOrder
    <3>3. Kind[Blocks[Top.node][k]] = "try"
      BY <3>1, <3>2 DEF Reached, Runs
    <3> QED
      BY <3>1, <3>3 DEF Reached, Runs
  <2>3. CASE l # Len(stack)
    <3>1. stack'[l] = stack[l]
      BY <1>0, <1>2, <2>1, <2>3, IntoCatchStack DEF Frames, StackShape
    <3> QED
      BY <2>1, <3>1 DEF LoopInv, InOrder, Reached
  <2> QED
    BY <2>2, <2>3
<1>3. ASSUME Active(l)', l \in Frames, stack'[l] = stack[l]
      PROVE  Reached(stack'[l], k, Active(l)')
  BY <1>3, NowReached DEF Reached
<1>4. ASSUME NEW n \in Nodes, Works(n) PROVE Reached(stack'[l], k, Active(l)')
  BY <1>3, <1>4 DEF Works, Active, Frames
<1>5. ASSUME NEW n \in Nodes, Enters(n) PROVE Reached(stack'[l], k, Active(l)')
  <2>1. CASE l = Len(stack) + 1
    <3>0. NewFrame(n, PhaseOf(n)).node = n
      BY DEF NewFrame
    <3>1. stack'[l].node = n /\ n \in Places
      BY <1>5, <2>1, <3>0, EntersStack DEF Places
    <3>2. Blocks[n][k] \in Nodes /\ Blocks[n][k] \in Subtree[n]
      BY <3>1, BlockFacts, SubtreeFacts
    <3>3. Starts(n) /\ ~(starts[n] > 0) /\ Top.node # n
      BY <1>0, <1>5, FreshChild DEF Enters, Starts
    <3>4. Blocks[n][k] = n
      BY <3>1, <3>2, <3>3, StartsFacts DEF LoopInv, NothingEarly
    <3>5. n = Top.node
      BY <3>1, <3>3, <3>4, StartsFacts, BlockFacts
    <3> QED
      BY <3>3, <3>5
  <2>2. CASE l # Len(stack) + 1
    <3>1. l \in Frames /\ stack'[l] = stack[l] /\ Active(l)'
      BY <1>0, <1>5, <2>2, EntersStack DEF Frames, StackShape, Active
    <3> QED
      BY <1>3, <3>1
  <2> QED
    BY <2>1, <2>2
<1>6. ASSUME NEW n \in Nodes, NEW err \in SUBSET Errors, NEW L \in 1..Len(stack),
             Takes(L, n, err)
      PROVE  Reached(stack'[l], k, Active(l)')
  <2>1. /\ Len(stack') = L /\ \A j \in 1..(L - 1) : stack'[j] = stack[j]
        /\ stack[L] \in Frame /\ HasNext(stack[L])
    BY <1>6 DEF Takes
  <2>2. l \in 1..L /\ l \in Frames
    BY <1>0, <2>1 DEF Frames, StackShape
  <2>3. CASE l # L
    BY <1>3, <2>1, <2>2, <2>3 DEF Active
  <2>4. CASE l = L /\ ~GoesOn(stack[L], err)
    <3>1. stack'[l] = stack[l] /\ pc' = "leave"
      BY <1>6, <2>4 DEF Takes
    <3> QED
      BY <1>3, <2>2, <3>1 DEF Active
  <2>5. CASE l = L /\ GoesOn(stack[L], err)
    <3>1. /\ stack'[l].node = stack[L].node /\ stack'[l].phase = stack[L].phase
          /\ stack'[l].i = At(stack[L]) + 1
      BY <1>6, <2>5 DEF Takes
    <3>2. Reached(stack[L], k, TRUE)
      BY <2>2, <2>5, <3>1, NowReached
    <3>3. At(stack[L]) \in Nat /\ At(stack[L]) >= stack[L].i /\ stack[L].i \in Nat
      BY <2>1, <2>2, <2>5, AtIsFirst, FrameFacts
    <3> QED
      BY <3>1, <3>2, <3>3 DEF Reached
  <2> QED
    BY <2>3, <2>4, <2>5
<1> QED
  BY <1>1, <1>2, <1>4, <1>5, <1>6, StepKinds

LEMMA LoopInvHolds == Spec => []LoopInv
<1>1. Init => LoopInv
  <2> SUFFICES ASSUME Init PROVE LoopInv
    OBVIOUS
  <2>1. Len(stack) = 1 /\ stack[1] = NewFrame(Root, "blocks") /\ pc = "check"
    BY DEF Init
  <2>2. stack[1].node = Root /\ stack[1].phase = "blocks"
    BY <2>1 DEF NewFrame
  <2>3. \A p \in Places : \A k \in 1..Len(Blocks[p]) : ~(starts[Blocks[p][k]] > 0)
    BY BlockFacts DEF Init
  <2>4. \A n \in Nodes : \A m \in Subtree[n] : ~(starts[m] > 0)
    BY SubtreeOfNode DEF Init
  <2>5. PhasesFit /\ FramesDiffer /\ HaveBegun
    BY <2>1, <2>2, RootAssumption DEF PhasesFit, PhaseFits, FramesDiffer, HaveBegun, Frames
  <2>6. NothingEarly /\ InOrder
    BY <2>1, <2>2, <2>3, <2>4 DEF NothingEarly, InOrder, Frames, Places
  <2> QED
    BY <2>5, <2>6 DEF LoopInv
<1>2. ASSUME EngineInv, LoopInv, [Next]_vars PROVE LoopInv'
  BY <1>2, PhasesFitStep, FramesDifferStep, HaveBegunStep, NothingEarlyStep, InOrderStep
     DEF LoopInv
<1> QED
  BY <1>1, <1>2, EngineInvariant, PTL DEF Spec

\* A run executes a node at most once: nested loops that go on after an error neither
\* repeat a certificate request nor a deployment.
THEOREM NodeRunsOnceHolds == Spec => []NodeRunsOnce
<1>1. Init => NodeRunsOnce
  BY DEF Init, NodeRunsOnce
<1>2. ASSUME EngineInv, LoopInv, NodeRunsOnce, [Next]_vars PROVE NodeRunsOnce'
  <2>1. \A n \in Nodes : Starts(n) => starts[n] = 0 /\ starts' = [starts EXCEPT ![n] = 1]
    <3> SUFFICES ASSUME NEW n \in Nodes, Starts(n)
                 PROVE  starts[n] = 0 /\ starts' = [starts EXCEPT ![n] = 1]
      OBVIOUS
    <3>1. starts[n] \in Nat /\ ~(starts[n] > 0)
      BY <1>2, FreshChild DEF Starts, EngineInv, TypeOK
    <3>2. starts[n] = 0
      BY <3>1
    <3> QED
      BY <3>2 DEF Starts
  <2>2. starts \in [Nodes -> Nat]
    BY <1>2 DEF EngineInv, TypeOK
  <2> QED
    BY <1>2, <2>1, <2>2, OnlyStartsStart DEF NodeRunsOnce
<1> QED
  BY <1>1, <1>2, EngineInvariant, LoopInvHolds, PTL DEF Spec

-----------------------------------------------------------------------------
(* The loops and the subtrees they are in. *)

\* The node of a loop is below those of the loops around it, and every node that
\* it is below runs a loop of its own.
SubtreesNested ==
  \A l, m \in Frames : l <= m => stack[m].node \in Subtree[stack[l].node]
AncestorsRun ==
  \A l \in Frames : \A n \in Nodes :
    stack[l].node \in Subtree[n] => \E m \in 1..l : stack[m].node = n

TreeInv == SubtreesNested /\ AncestorsRun

LEMMA TreeStep ==
  ASSUME EngineInv, LoopInv, TreeInv, [Next]_vars
  PROVE  TreeInv'
<1>0. /\ Len(stack) \in Frames /\ Len(stack) \in Nat /\ Top = stack[Len(stack)]
      /\ \A l \in Frames : l \in Nat /\ stack[l].node \in Places
      /\ Len(stack') \in Nat
  <2>1. EngineInv'
    BY NextInv
  <2> QED
    BY <2>1, FrameFacts, StackIsSound DEF Frames, EngineInv, TypeOK
<1>1. ASSUME NEW n \in Nodes, Enters(n)
      PROVE  /\ Top.node \in Places /\ n \in Places /\ n \in Subtree[n]
             /\ \A p \in Places : Top.node \in Subtree[p] => n \in Subtree[p]
             /\ \A p \in Places : n \in Subtree[p] => n = p \/ Top.node \in Subtree[p]
  <2>1. At(Top) \in 1..Len(Blocks[Top.node]) /\ n = Blocks[Top.node][At(Top)] /\ Top.node \in Places
    BY <1>1, StartsFacts DEF Enters
  <2> QED
    BY <2>1, SubtreeFacts DEF Places
<1>2. SubtreesNested'
  <2> SUFFICES ASSUME NEW l \in Frames', NEW m \in Frames', l <= m
               PROVE  stack'[m].node \in Subtree[stack'[l].node]
    BY DEF SubtreesNested
  <2>1. CASE m \in Frames /\ stack'[m].node = stack[m].node
    <3>1. l \in Frames /\ stack'[l].node = stack[l].node
      BY <1>0, <2>1, NodesOfFrames DEF Frames
    <3> QED
      BY <2>1, <3>1 DEF TreeInv, SubtreesNested
  <2>2. ASSUME NEW n \in Nodes, Enters(n), m = Len(stack) + 1, stack'[m].node = n
        PROVE  stack'[m].node \in Subtree[stack'[l].node]
    <3>1. CASE l = m
      BY <1>1, <2>2, <3>1
    <3>2. CASE l # m
      <4>1. l \in Frames /\ stack'[l].node = stack[l].node
        BY <1>0, <2>2, <3>2, NodesOfFrames DEF Frames
      <4>2. Top.node \in Subtree[stack[l].node]
        BY <1>0, <4>1 DEF TreeInv, SubtreesNested, Frames
      <4> QED
        BY <1>0, <1>1, <2>2, <4>1, <4>2
    <3> QED
      BY <3>1, <3>2
  <2> QED
    BY <2>1, <2>2, NodesOfFrames
<1>3. AncestorsRun'
  <2> SUFFICES ASSUME NEW l \in Frames', NEW n \in Nodes, stack'[l].node \in Subtree[n]
               PROVE  \E m \in 1..l : stack'[m].node = n
    BY DEF AncestorsRun
  <2>1. \A m \in Frames : m <= l => stack'[m].node = stack[m].node
    <3> SUFFICES ASSUME NEW m \in Frames, m <= l PROVE stack'[m].node = stack[m].node
      OBVIOUS
    <3>1. m \in Frames'
      BY <1>0 DEF Frames
    <3> QED
      BY <1>0, <3>1, NodesOfFrames DEF Frames
  <2>2. ASSUME NEW k \in Frames, k <= l, stack[k].node \in Subtree[n]
        PROVE  \E m \in 1..l : stack'[m].node = n
    <3>1. PICK m \in 1..k : stack[m].node = n
      BY <2>2 DEF TreeInv, AncestorsRun
    <3>2. m \in Frames /\ m \in 1..l /\ m <= l
      BY <1>0, <2>2 DEF Frames
    <3> QED
      BY <2>1, <3>1, <3>2
  <2>3. CASE l \in Frames /\ stack'[l].node = stack[l].node
    BY <1>0, <2>2, <2>3
  <2>4. ASSUME NEW x \in Nodes, Enters(x), l = Len(stack) + 1, stack'[l].node = x
        PROVE  \E m \in 1..l : stack'[m].node = n
    <3>1. CASE x = n
      BY <1>0, <2>4, <3>1
    <3>2. CASE x # n
      <4>1. stack[Len(stack)].node \in Subtree[n]
        BY <1>0, <1>1, <2>4, <3>2 DEF Places
      <4> QED
        BY <1>0, <2>2, <2>4, <4>1
    <3> QED
      BY <3>1, <3>2
  <2> QED
    BY <2>3, <2>4, NodesOfFrames
<1> QED
  BY <1>2, <1>3 DEF TreeInv

LEMMA TreeInvHolds == Spec => []TreeInv
<1>1. Init => TreeInv
  <2> SUFFICES ASSUME Init PROVE TreeInv
    OBVIOUS
  <2>1. Len(stack) = 1 /\ stack[1] = NewFrame(Root, "blocks")
    BY DEF Init
  <2>2. stack[1].node = Root /\ Root \in Places /\ Frames = {1}
    BY <2>1 DEF NewFrame, Places, Frames
  <2>3. Root \in Subtree[Root] /\ \A n \in Nodes : Root \notin Subtree[n]
    BY <2>2, SubtreeFacts, SubtreeOfNode, RootAssumption
  <2> QED
    BY <2>2, <2>3 DEF TreeInv, SubtreesNested, AncestorsRun
<1> QED
  BY <1>1, TreeStep, EngineInvariant, LoopInvHolds, PTL DEF Spec

\* The loop around a loop runs the block it stands at.
LEMMA AroundIt ==
  ASSUME EngineInv, LoopInv, NEW l \in Frames, stack[l].node # Root,
         NEW p \in Places, NEW k \in 1..Len(Blocks[p]), Blocks[p][k] = stack[l].node
  PROVE  /\ l - 1 \in Frames /\ l - 1 < Len(stack) /\ stack[l - 1].node = p
         /\ HasNext(stack[l - 1]) /\ At(stack[l - 1]) = k
         /\ Runs(stack[l - 1].phase, Kind[stack[l].node])
<1>1. l # 1 /\ Len(stack) \in Frames
  BY FrameFacts
<1>2. l - 1 \in Frames /\ l - 1 < Len(stack) /\ (l - 1) + 1 = l
  BY <1>1, StackIsSound DEF Frames
<1> DEFINE j == l - 1
<1>3. HasNext(stack[j]) /\ stack[l].node = Child(stack[j]) /\ stack[j] \in Frame
  BY <1>2, FrameFacts
<1>4. /\ At(stack[j]) \in 1..Len(Blocks[stack[j].node]) /\ stack[j].node \in Places
      /\ Runs(stack[j].phase, Kind[stack[l].node])
  BY <1>3, AtIsFirst
<1>5. stack[j].node = p /\ At(stack[j]) = k
  BY <1>3, <1>4, BlockFacts DEF Child
<1> QED
  BY <1>2, <1>3, <1>4, <1>5

-----------------------------------------------------------------------------
(* What an error says of the nodes it comes through. *)

\* The error is that of an End node, or of a failure, or of the context.
ComesFrom(n, err) ==
  /\ "terminated" \in err => EndedIn(n)
  /\ err # {} /\ "terminated" \notin err => done \/ FailedIn(n)

ErrorsComeFrom ==
  /\ \A l \in Frames : ComesFrom(stack[l].node, stack[l].errs)
  /\ pc = "leave" => ComesFrom(Top.node, ret)

\* A failure is on its way: a loop has collected it, or the loop inside has it, or the
\* loop returns it.
FailuresShow ==
  pc # "over" => \A l \in Frames : FailedIn(stack[l].node) =>
    \/ stack[l].errs # {} /\ ~(l = Len(stack) /\ pc = "leave")
    \/ l < Len(stack) /\ FailedIn(stack[l + 1].node)
    \/ l = Len(stack) /\ pc = "leave" /\ ret # {}

FailedBegan == \A n \in failed : starts[n] > 0

\* The errors a TryCatch has collected before its catch blocks are those of its try.
TryErrors ==
  \A l \in Frames :
    stack[l].phase \in {"try", "catch"} /\ stack[l].errs # {} =>
      Blocks[stack[l].node] # <<>> /\ (done \/ FailedIn(Blocks[stack[l].node][1]))

ErrorInv == ErrorsComeFrom /\ FailuresShow /\ FailedBegan /\ TryErrors

LEMMA WhatHappenedStays ==
  ASSUME EngineInv, [Next]_vars
  PROVE  /\ done => done'
         /\ \A p \in Places : (EndedIn(p) => EndedIn(p)') /\ (FailedIn(p) => FailedIn(p)')
         /\ \A p \in Places : \A err : ComesFrom(p, err) => ComesFrom(p, err)'
<1>1. Grows
  BY StepKinds
<1>2. \A p \in Places : (EndedIn(p) => EndedIn(p)') /\ (FailedIn(p) => FailedIn(p)')
  <2> SUFFICES ASSUME NEW p \in Places
               PROVE  (EndedIn(p) => EndedIn(p)') /\ (FailedIn(p) => FailedIn(p)')
    OBVIOUS
  <2>1. Subtree[p] \ {Root} \subseteq Nodes
    BY SubtreeFacts DEF Places
  <2> QED
    BY <1>1, <2>1 DEF EndedIn, FailedIn, Grows
<1> QED
  BY <1>1, <1>2 DEF Grows, ComesFrom

\* What is below a block is below its place.
LEMMA BlocksBelow ==
  ASSUME NEW p \in Places, NEW k \in 1..Len(Blocks[p])
  PROVE  /\ Blocks[p][k] \in Nodes /\ Blocks[p][k] \in Places /\ Blocks[p][k] \in Subtree[p]
         /\ EndedIn(Blocks[p][k]) => EndedIn(p)
         /\ FailedIn(Blocks[p][k]) => FailedIn(p)
<1>1. Subtree[Blocks[p][k]] \subseteq Subtree[p] /\ Blocks[p][k] \in Nodes
  BY SubtreeFacts, BlockFacts
<1> QED
  BY <1>1, SubtreeFacts DEF EndedIn, FailedIn, Places

\* The loop that takes the error of n has n among its blocks.
LEMMA TakesFacts ==
  ASSUME EngineInv, TreeInv, NEW n \in Nodes, NEW err \in SUBSET Errors, NEW L \in 1..Len(stack),
         Takes(L, n, err)
  PROVE  /\ L \in Frames /\ stack[L] \in Frame /\ stack[L].node \in Places
         /\ stack[L].phase \in Phases
         /\ HasNext(stack[L]) /\ At(stack[L]) \in Ahead(stack[L])
         /\ At(stack[L]) \in 1..Len(Blocks[stack[L].node])
         /\ n = Blocks[stack[L].node][At(stack[L])] /\ Runs(stack[L].phase, Kind[n])
         /\ n \in Subtree[stack[L].node] /\ Subtree[n] \subseteq Subtree[stack[L].node]
         /\ n \in Places /\ n \in Subtree[n]
         /\ Len(stack') = L /\ L \in Frames' /\ Top' = stack'[L]
         /\ stack'[L].node = stack[L].node /\ stack'[L].phase = stack[L].phase
<1>1. /\ stack[L] \in Frame /\ HasNext(stack[L]) /\ n = Child(stack[L])
      /\ IF pc = "leave" THEN L = Len(stack) - 1 ELSE L = Len(stack)
      /\ Len(stack') = L /\ \A l \in 1..(L - 1) : stack'[l] = stack[l]
      /\ stack'[L].node = stack[L].node /\ stack'[L].phase = stack[L].phase
  BY DEF Takes
<1>2. /\ L \in Frames /\ L \in Nat /\ L >= 1 /\ Len(stack) \in Frames /\ Len(stack) \in Nat
      /\ Top = stack[Len(stack)]
      /\ L \in Frames' /\ Top' = stack'[L]
  BY <1>1, FrameFacts, StackIsSound DEF Frames, Top
<1>3. /\ At(stack[L]) \in Ahead(stack[L])
      /\ At(stack[L]) \in 1..Len(Blocks[stack[L].node])
      /\ n = Blocks[stack[L].node][At(stack[L])] /\ Runs(stack[L].phase, Kind[n])
      /\ stack[L].node \in Places /\ stack[L].phase \in Phases
  BY <1>1, <1>2, AtIsFirst, FrameFacts DEF Child
<1>4. /\ n \in Subtree[stack[L].node] /\ Subtree[n] \subseteq Subtree[stack[L].node]
      /\ n \in Places /\ n \in Subtree[n]
  BY <1>3, SubtreeFacts DEF Places
<1> QED
  BY <1>1, <1>2, <1>3, <1>4

LEMMA TakesWhere ==
  ASSUME EngineInv, NEW n \in Nodes, NEW err \in SUBSET Errors, NEW L \in 1..Len(stack),
         Takes(L, n, err)
  PROVE  /\ pc \in {"start", "running"} => L = Len(stack) /\ stack[L] = Top
         /\ pc = "leave" => L + 1 = Len(stack) /\ L < Len(stack) /\ n = Top.node
<1>1. /\ n = Child(stack[L])
      /\ IF pc = "leave" THEN L = Len(stack) - 1 ELSE L = Len(stack)
  BY DEF Takes
<1>2. L \in Frames /\ L \in Nat /\ Len(stack) \in Nat /\ Top = stack[Len(stack)]
  BY FrameFacts, StackIsSound DEF Frames, Top
<1> QED
  BY <1>1, <1>2, FrameFacts

\* The loops around it stay where they are, each at the block that has n below it.
LEMMA TakesBelow ==
  ASSUME EngineInv, TreeInv, NEW n \in Nodes, NEW err \in SUBSET Errors, NEW L \in 1..Len(stack),
         Takes(L, n, err), NEW l \in Frames', l # L
  PROVE  /\ l \in Frames /\ l < L /\ l < Len(stack)
         /\ stack'[l] = stack[l] /\ stack[l].node \in Places
         /\ HasNext(stack[l]) /\ stack[l + 1].node = Child(stack[l])
         /\ n \in Subtree[stack[l + 1].node] /\ stack'[l + 1].node = stack[l + 1].node
         /\ stack[l + 1].node \in Places /\ l + 1 \in Frames
         /\ n \in Subtree[stack[l].node]
<1>1. /\ Len(stack') = L /\ \A k \in 1..(L - 1) : stack'[k] = stack[k]
      /\ stack'[L].node = stack[L].node
  BY DEF Takes
<1>2. /\ L \in Frames /\ L \in Nat /\ L >= 1 /\ Len(stack) \in Frames /\ Len(stack) \in Nat
  BY FrameFacts, StackIsSound DEF Frames
<1>3. n \in Subtree[stack[L].node] /\ n = Blocks[stack[L].node][At(stack[L])]
      /\ At(stack[L]) \in 1..Len(Blocks[stack[L].node]) /\ stack[L].node \in Places
  BY TakesFacts
<1>4. l \in 1..(L - 1) /\ l \in Frames /\ l < L /\ l + 1 \in Frames /\ l + 1 <= L /\ l < Len(stack)
  BY <1>1, <1>2 DEF Frames
<1>5. /\ stack[l].node \in Places /\ stack[l + 1].node \in Places
      /\ HasNext(stack[l]) /\ stack[l + 1].node = Child(stack[l])
  BY <1>4, FrameFacts
<1>6. stack'[l + 1].node = stack[l + 1].node
  <2>1. CASE l + 1 = L
    BY <1>1, <2>1
  <2>2. CASE l + 1 # L
    BY <1>1, <1>2, <1>4, <2>2
  <2> QED
    BY <2>1, <2>2
<1>7. stack[L].node \in Subtree[stack[l + 1].node] /\ stack[L].node \in Subtree[stack[l].node]
  BY <1>2, <1>4 DEF TreeInv, SubtreesNested, Frames
<1>8. n \in Subtree[stack[l + 1].node] /\ n \in Subtree[stack[l].node]
  BY <1>3, <1>5, <1>7, SubtreeFacts
<1> QED
  BY <1>1, <1>4, <1>5, <1>6, <1>8

\* A node that returns has begun, unless it is disabled.
LEMMA YieldBegan ==
  ASSUME EngineInv, LoopInv, TreeInv, NEW n \in Nodes, NEW err \in SUBSET Errors,
         NEW L \in 1..Len(stack), Takes(L, n, err), Yields(n, err), n \notin Disabled
  PROVE  starts'[n] > 0
<1>1. CASE Skips(n, err)
  BY <1>1 DEF Skips
<1>2. CASE Refuses(n, err)
  BY <1>2, StartsFacts DEF Refuses
<1>3. CASE Ends(n, err)
  BY <1>3 DEF Ends, LoopInv, HaveBegun, Began
<1>4. CASE Closes(n, err)
  <2>1. UNCHANGED starts /\ pc = "leave" /\ n = Top.node /\ n # Root
    BY <1>4, SubtreeOfNode DEF Closes
  <2>2. Len(stack) \in Frames /\ Len(stack) > 1 /\ Top = stack[Len(stack)]
    BY <2>1, FrameFacts, StackIsSound DEF Frames
  <2> QED
    BY <2>1, <2>2 DEF LoopInv, HaveBegun, Began
<1> QED
  BY <1>1, <1>2, <1>3, <1>4 DEF Yields

\* Only what returns an error of its own is newly failed.
LEMMA YieldFails ==
  ASSUME NEW n \in Nodes, NEW err \in SUBSET Errors, Yields(n, err)
  PROVE  failed' = failed \/ (failed' = failed \cup {n} /\ err # {} /\ pc \in {"start", "running"})
<1>1. CASE Skips(n, err)
  BY <1>1 DEF Skips
<1>2. CASE Refuses(n, err)
  BY <1>2 DEF Refuses, Starts
<1>3. CASE Ends(n, err)
  BY <1>3 DEF Ends
<1>4. CASE Closes(n, err)
  BY <1>4 DEF Closes
<1> QED
  BY <1>1, <1>2, <1>3, <1>4 DEF Yields

LEMMA YieldComesFrom ==
  ASSUME EngineInv, LoopInv, TreeInv, ErrorInv, [Next]_vars,
         NEW n \in Nodes, NEW err \in SUBSET Errors,
         NEW L \in 1..Len(stack), Takes(L, n, err), Yields(n, err)
  PROVE  ComesFrom(n, err)'
<1>0. n \in Places /\ n \in Subtree[n] /\ n # Root
  BY TakesFacts, SubtreeOfNode
<1>1. CASE Skips(n, err)
  BY <1>1 DEF Skips, ComesFrom
<1>2. CASE Refuses(n, err)
  <2>1. "terminated" \notin err /\ (err # {} => n \in failed')
    BY <1>2 DEF Refuses
  <2> QED
    BY <1>0, <2>1 DEF ComesFrom, FailedIn
<1>3. CASE Ends(n, err)
  <2>1. CASE err = {"terminated"}
    <3>1. Kind[n] = "end" /\ starts'[n] > 0
      BY <1>3, <2>1 DEF Ends, LoopInv, HaveBegun, Began
    <3> QED
      BY <1>0, <2>1, <3>1 DEF ComesFrom, EndedIn
  <2>2. CASE err # {"terminated"}
    <3>1. "terminated" \notin err /\ (err # {} => n \in failed')
      BY <1>3, <2>2 DEF Ends, LeafErrors
    <3> QED
      BY <1>0, <3>1 DEF ComesFrom, FailedIn
  <2> QED
    BY <2>1, <2>2
<1>4. CASE Closes(n, err)
  <2>1. pc = "leave" /\ n = Top.node /\ (err = ret \/ (err = ret \cup {"blocks"} /\ ret # {}))
    BY <1>4 DEF Closes
  <2>2. ComesFrom(n, ret)
    BY <2>1 DEF ErrorInv, ErrorsComeFrom
  <2>3. ComesFrom(n, err)
    BY <2>1, <2>2 DEF ComesFrom
  <2> QED
    BY <1>0, <2>3, WhatHappenedStays
<1> QED
  BY <1>1, <1>2, <1>3, <1>4 DEF Yields

\* Nothing in what is about to start has failed.
LEMMA NothingFailedYet ==
  ASSUME EngineInv, LoopInv, FailedBegan, pc = "start"
  PROVE  ~FailedIn(Child(Top))
<1>1. Child(Top) \in Nodes /\ ~(starts[Child(Top)] > 0)
  BY ChosenFacts, FreshChild
<1> QED
  BY <1>1 DEF FailedIn, FailedBegan, LoopInv, NothingEarly

\* A failure in a loop leaves it with an error.
LEMMA YieldShows ==
  ASSUME EngineInv, LoopInv, TreeInv, ErrorInv,
         NEW n \in Nodes, NEW err \in SUBSET Errors,
         NEW L \in 1..Len(stack), Takes(L, n, err), Yields(n, err),
         Kind[n] \in Loops, FailedIn(n)'
  PROVE  err # {}
<1> SUFFICES ASSUME err = {} PROVE FALSE
  OBVIOUS
<1>1. FailedIn(n)
  BY YieldFails DEF FailedIn
<1>2. ~(pc = "start" /\ n = Child(Top))
  BY <1>1, NothingFailedYet DEF ErrorInv
<1>3. ~(pc = "running" /\ n = Child(Top))
  BY DEF LoopInv, HaveBegun
<1>4. Closes(n, err)
  BY <1>2, <1>3 DEF Yields, Skips, Refuses, Starts, Ends
<1>5. ret = {} /\ pc = "leave" /\ n = Top.node
  BY <1>4 DEF Closes
<1>6. Len(stack) \in Frames /\ Len(stack) \in Nat /\ Top = stack[Len(stack)]
  BY FrameFacts, StackIsSound DEF Frames
<1> QED
  BY <1>1, <1>5, <1>6 DEF ErrorInv, FailuresShow

LEMMA FailedBeganStep ==
  ASSUME EngineInv, LoopInv, TreeInv, ErrorInv, [Next]_vars
  PROVE  FailedBegan'
<1>0. failed \subseteq Nodes /\ \A m \in failed : starts[m] > 0 /\ starts'[m] > 0
  BY StepKinds DEF ErrorInv, FailedBegan, EngineInv, TypeOK, Grows
<1>1. ASSUME UNCHANGED failed PROVE FailedBegan'
  BY <1>0, <1>1 DEF FailedBegan
<1>2. ASSUME NEW n \in Nodes, NEW err \in SUBSET Errors, NEW L \in 1..Len(stack),
             Yields(n, err), Takes(L, n, err)
      PROVE  FailedBegan'
  <2>1. CASE failed' = failed
    BY <1>1, <2>1
  <2>2. CASE failed' = failed \cup {n} /\ err # {}
    <3>1. starts'[n] > 0
      <4>1. CASE Skips(n, err)
        BY <2>2, <4>1 DEF Skips
      <4>2. CASE Refuses(n, err)
        BY <4>2, StartsFacts DEF Refuses
      <4>3. CASE Ends(n, err)
        BY <4>3 DEF Ends, LoopInv, HaveBegun, Began
      <4>4. CASE Closes(n, err)
        BY <1>0, <2>2, <4>4 DEF Closes
      <4> QED
        BY <1>2, <4>1, <4>2, <4>3, <4>4 DEF Yields
    <3> QED
      BY <1>0, <2>2, <3>1 DEF FailedBegan
  <2> QED
    BY <1>2, <2>1, <2>2, YieldFails
<1> QED
  BY <1>1, <1>2, StepKinds DEF StayPut, IntoCatch, Works, Enters

LEMMA ErrorsComeFromStep ==
  ASSUME EngineInv, LoopInv, TreeInv, ErrorInv, [Next]_vars
  PROVE  ErrorsComeFrom'
<1>0. /\ \A l \in Frames : ComesFrom(stack[l].node, stack[l].errs) /\ stack[l].node \in Places
      /\ Len(stack) \in Frames /\ Len(stack) \in Nat /\ Top = stack[Len(stack)]
  BY FrameFacts, StackIsSound DEF ErrorInv, ErrorsComeFrom, Frames
<1>1. CASE StayPut \/ \E n \in Nodes : Works(n)
  <2>1. UNCHANGED stack /\ Top' = Top /\ Frames' = Frames
    BY <1>1 DEF StayPut, Works, Top, Frames
  <2>2. \A l \in Frames' : ComesFrom(stack[l].node, stack[l].errs)'
    BY <1>0, <2>1, WhatHappenedStays
  <2>3. ASSUME pc' = "leave" PROVE ComesFrom(Top.node, ret)'
    <3>1. CASE pc = "leave" /\ ret' = ret
      BY <1>0, <2>1, <3>1, WhatHappenedStays DEF ErrorInv, ErrorsComeFrom
    <3>2. CASE done /\ ret' = {"canceled"}
      BY <3>2, WhatHappenedStays DEF ComesFrom
    <3>3. CASE ret' = Top.errs \/ (ret' = Top.errs \cup {"blocks"} /\ Top.errs # {})
      <4>1. ComesFrom(Top.node, Top.errs)'
        BY <1>0, <2>1, WhatHappenedStays
      <4> QED
        BY <2>1, <3>3, <4>1 DEF ComesFrom
    <3> QED
      BY <1>1, <2>3, <3>1, <3>2, <3>3 DEF StayPut, Works
  <2> QED
    BY <2>2, <2>3 DEF ErrorsComeFrom
<1>2. CASE IntoCatch
  <2>1. pc' # "leave"
    BY <1>2 DEF IntoCatch
  <2> SUFFICES ASSUME NEW l \in Frames' PROVE ComesFrom(stack[l].node, stack[l].errs)'
    BY <2>1 DEF ErrorsComeFrom
  <2>2. l \in Frames /\ stack'[l].node = stack[l].node /\ stack'[l].errs = stack[l].errs
    <3>1. l \in Frames
      BY <1>2, IntoCatchStack DEF Frames
    <3>2. CASE l = Len(stack)
      BY <1>0, <1>2, <3>1, <3>2, IntoCatchStack
    <3>3. CASE l # Len(stack)
      <4>1. l \in 1..(Len(stack) - 1)
        BY <1>0, <3>1, <3>3 DEF Frames
      <4> QED
        BY <1>2, <3>1, <4>1, IntoCatchStack
    <3> QED
      BY <3>2, <3>3
  <2> QED
    BY <1>0, <2>2, WhatHappenedStays
<1>3. ASSUME NEW n \in Nodes, Enters(n) PROVE ErrorsComeFrom'
  <2>1. pc' # "leave"
    BY <1>3 DEF Enters
  <2> SUFFICES ASSUME NEW l \in Frames' PROVE ComesFrom(stack[l].node, stack[l].errs)'
    BY <2>1 DEF ErrorsComeFrom
  <2>2. CASE l = Len(stack) + 1
    <3>1. NewFrame(n, PhaseOf(n)).errs = {}
      BY DEF NewFrame
    <3>2. stack'[l].errs = {}
      BY <1>3, <2>2, <3>1, EntersStack
    <3> QED
      BY <3>2 DEF ComesFrom
  <2>3. CASE l # Len(stack) + 1
    <3>1. l \in Frames /\ stack'[l] = stack[l]
      BY <1>0, <1>3, <2>3, EntersStack DEF Frames
    <3> QED
      BY <1>0, <3>1, WhatHappenedStays
  <2> QED
    BY <2>2, <2>3
<1>4. ASSUME NEW n \in Nodes, NEW err \in SUBSET Errors, NEW L \in 1..Len(stack),
             Yields(n, err), Takes(L, n, err)
      PROVE  ErrorsComeFrom'
  <2>1. ComesFrom(n, err)'
    BY <1>4, YieldComesFrom
  <2>2. PICK p \in Places, errs \in SUBSET Errors : p = stack[L].node /\ errs = stack[L].errs
    BY <1>0, FrameFacts DEF Frames
  <2>3. ComesFrom(p, err)'
    <3>1. p \in Places /\ Subtree[n] \subseteq Subtree[p]
      BY <1>4, <2>2, TakesFacts
    <3> QED
      BY <2>1, <3>1 DEF ComesFrom, EndedIn, FailedIn
  <2>4. ComesFrom(p, errs)'
    BY <1>0, <2>2, WhatHappenedStays DEF Frames
  <2>5. stack'[L].node = p /\ Top'.node = p
    BY <1>4, <2>2, TakesFacts
  <2>6. ASSUME NEW l \in Frames' PROVE ComesFrom(stack[l].node, stack[l].errs)'
    <3>1. CASE l # L
      <4>1. l \in Frames /\ stack'[l] = stack[l]
        BY <1>4, <2>6, <3>1, TakesBelow
      <4> QED
        BY <1>0, <4>1, WhatHappenedStays
    <3>2. CASE l = L /\ GoesOn(stack[L], err)
      <4>1. stack'[L].errs = errs \cup err
        BY <1>4, <2>2, <3>2 DEF Takes
      <4> QED
        BY <2>3, <2>4, <2>5, <3>2, <4>1 DEF ComesFrom
    <3>3. CASE l = L /\ ~GoesOn(stack[L], err)
      BY <1>4, <2>2, <2>4, <3>3 DEF Takes
    <3> QED
      BY <3>1, <3>2, <3>3
  <2>7. ASSUME pc' = "leave" PROVE ComesFrom(Top.node, ret)'
    <3>1. ret' = err
      BY <1>4, <2>7 DEF Takes
    <3> QED
      BY <2>3, <2>5, <3>1
  <2> QED
    BY <2>6, <2>7 DEF ErrorsComeFrom
<1> QED
  BY <1>1, <1>2, <1>3, <1>4, StepKinds

LEMMA FailuresShowStep ==
  ASSUME EngineInv, LoopInv, TreeInv, ErrorInv, [Next]_vars
  PROVE  FailuresShow'
<1> SUFFICES ASSUME pc' # "over", NEW l \in Frames', FailedIn(stack[l].node)'
             PROVE  \/ stack'[l].errs # {} /\ ~(l = Len(stack') /\ pc' = "leave")
                    \/ l < Len(stack') /\ FailedIn(stack[l + 1].node)'
                    \/ l = Len(stack') /\ pc' = "leave" /\ ret' # {}
  BY DEF FailuresShow
<1>0. /\ Len(stack) \in Frames /\ Len(stack) \in Nat /\ Top = stack[Len(stack)]
      /\ \A k \in Frames : k \in Nat /\ stack[k].node \in Places
  BY FrameFacts, StackIsSound DEF Frames
<1>1. pc # "over" => \A k \in Frames : FailedIn(stack[k].node) =>
        \/ stack[k].errs # {} /\ ~(k = Len(stack) /\ pc = "leave")
        \/ k < Len(stack) /\ FailedIn(stack[k + 1].node)
        \/ k = Len(stack) /\ pc = "leave" /\ ret # {}
  BY DEF ErrorInv, FailuresShow
<1>2. ASSUME UNCHANGED <<stack, failed>>
      PROVE  l \in Frames /\ FailedIn(stack[l].node)
  BY <1>2 DEF Frames, FailedIn
<1>3. CASE StayPut
  <2>1. UNCHANGED <<stack, failed>> /\ pc # "over"
    BY <1>3 DEF StayPut
  <2>2. \/ stack[l].errs # {} /\ ~(l = Len(stack) /\ pc = "leave")
        \/ l < Len(stack) /\ FailedIn(stack[l + 1].node)
        \/ l = Len(stack) /\ pc = "leave" /\ ret # {}
    BY <1>1, <1>2, <2>1
  <2>3. l = Len(stack) /\ pc = "check" /\ stack[l].errs # {} /\ pc' = "leave" => ret' # {}
    BY <1>0, <1>3 DEF StayPut
  <2>4. pc' = "leave" => pc \in {"check", "leave"} /\ (pc = "leave" => UNCHANGED ret)
    BY <1>3 DEF StayPut
  <2>5. pc = "leave" => pc' = "leave"
    BY <1>3 DEF StayPut
  <2> QED
    BY <2>1, <2>2, <2>3, <2>4, <2>5 DEF FailedIn
<1>4. CASE \E n \in Nodes : Works(n)
  <2>1. UNCHANGED <<stack, failed>> /\ pc = "start" /\ pc' = "running"
    BY <1>4 DEF Works, Starts
  <2> QED
    BY <1>1, <1>2, <2>1 DEF FailedIn
<1>5. CASE IntoCatch
  <2>1. UNCHANGED failed /\ pc = "check" /\ pc' = "check" /\ Len(stack') = Len(stack)
    BY <1>5, IntoCatchStack DEF IntoCatch
  <2>2. \A k \in Frames : stack'[k].node = stack[k].node /\ stack'[k].errs = stack[k].errs
    <3> SUFFICES ASSUME NEW k \in Frames
                 PROVE  stack'[k].node = stack[k].node /\ stack'[k].errs = stack[k].errs
      OBVIOUS
    <3>1. CASE k = Len(stack)
      BY <1>0, <1>5, <3>1, IntoCatchStack
    <3>2. CASE k # Len(stack)
      <4>1. k \in 1..(Len(stack) - 1)
        BY <1>0, <3>2 DEF Frames
      <4> QED
        BY <1>5, <4>1, IntoCatchStack
    <3> QED
      BY <3>1, <3>2
  <2>3. l \in Frames /\ (l < Len(stack) => l + 1 \in Frames)
    BY <1>0, <2>1 DEF Frames
  <2> QED
    BY <1>1, <2>1, <2>2, <2>3 DEF FailedIn
<1>6. ASSUME NEW n \in Nodes, Enters(n)
      PROVE  \/ stack'[l].errs # {} /\ ~(l = Len(stack') /\ pc' = "leave")
             \/ l < Len(stack') /\ FailedIn(stack[l + 1].node)'
  <2>1. /\ UNCHANGED failed /\ pc = "start" /\ pc' = "check" /\ n = Child(Top)
        /\ Len(stack') = Len(stack) + 1 /\ \A k \in Frames : stack'[k] = stack[k]
    BY <1>6, EntersStack DEF Enters, Starts, Frames
  <2>2. CASE l = Len(stack) + 1
    <3>1. NewFrame(n, PhaseOf(n)).node = n
      BY DEF NewFrame
    <3>2. FailedIn(n)
      BY <1>6, <2>1, <2>2, <3>1, EntersStack DEF FailedIn
    <3> QED
      BY <2>1, <3>2, NothingFailedYet DEF ErrorInv
  <2>3. CASE l # Len(stack) + 1
    <3>1. l \in Frames /\ (l < Len(stack) => l + 1 \in Frames)
      BY <1>0, <2>1, <2>3 DEF Frames
    <3> QED
      BY <1>0, <1>1, <2>1, <3>1 DEF FailedIn
  <2> QED
    BY <2>2, <2>3
<1>7. ASSUME NEW n \in Nodes, NEW err \in SUBSET Errors, NEW L \in 1..Len(stack),
             Yields(n, err), Takes(L, n, err)
      PROVE  \/ stack'[l].errs # {} /\ ~(l = Len(stack') /\ pc' = "leave")
             \/ l < Len(stack') /\ FailedIn(stack[l + 1].node)'
             \/ l = Len(stack') /\ pc' = "leave" /\ ret' # {}
  <2>0. pc # "over"
    BY <1>7 DEF Yields, Skips, Refuses, Starts, Ends, Closes
  <2>1. /\ Len(stack') = L /\ L \in Frames /\ pc # "over"
        /\ stack'[L].node = stack[L].node
        /\ stack[L].node \in Places /\ n \in Subtree[stack[L].node]
    BY <1>7, <2>0, TakesFacts
  <2>2. failed' = failed \/ (failed' = failed \cup {n} /\ err # {} /\ pc \in {"start", "running"})
    BY <1>7, YieldFails
  <2>3. CASE l # L
    <3>1. /\ l \in Frames /\ l < L /\ l < Len(stack) /\ stack'[l] = stack[l]
          /\ n \in Subtree[stack[l + 1].node] /\ stack'[l + 1].node = stack[l + 1].node
      BY <1>7, <2>3, TakesBelow
    <3>2. CASE failed' = failed
      <4>1. FailedIn(stack[l].node)
        BY <3>1, <3>2 DEF FailedIn
      <4> QED
        BY <1>0, <1>1, <2>1, <3>1, <3>2, <4>1 DEF FailedIn
    <3>3. CASE failed' = failed \cup {n}
      BY <2>1, <3>1, <3>3 DEF FailedIn
    <3> QED
      BY <2>2, <3>2, <3>3
  <2>4. CASE l = L
    <3>1. \/ stack[L].errs # {} /\ pc # "leave"
          \/ err # {}
          \/ pc = "leave" /\ stack[L].errs # {}
      <4>1. CASE failed' = failed
        <5>1. FailedIn(stack[L].node)
          BY <2>1, <2>4, <4>1 DEF FailedIn
        <5>2. CASE pc # "leave"
          <6>1. L = Len(stack)
            BY <1>7, <5>2 DEF Takes
          <6> QED
            BY <1>0, <1>1, <2>1, <5>1, <5>2, <6>1
        <5>3. CASE pc = "leave" /\ stack[L].errs = {}
          <6>1. L < Len(stack) /\ L + 1 = Len(stack) /\ n = Top.node
            BY <1>7, <5>3, TakesWhere
          <6>2. FailedIn(stack[Len(stack)].node)
            BY <1>0, <1>1, <2>1, <5>1, <5>3, <6>1
          <6>3. ret # {}
            BY <1>0, <1>1, <2>1, <5>3, <6>2
          <6> QED
            BY <1>7, <5>3, <6>3 DEF Yields, Skips, Refuses, Starts, Ends, Closes
        <5> QED
          BY <5>2, <5>3
      <4> QED
        BY <2>2, <4>1
    <3>2. CASE GoesOn(stack[L], err)
      <4>1. pc' = "check" /\ stack'[L].errs = stack[L].errs \cup err
        BY <1>7, <3>2 DEF Takes
      <4> QED
        BY <2>4, <3>1, <4>1
    <3>3. CASE ~GoesOn(stack[L], err)
      <4>1. pc' = "leave" /\ ret' = err /\ err # {}
        BY <1>7, <3>3 DEF Takes, GoesOn
      <4> QED
        BY <2>1, <2>4, <4>1
    <3> QED
      BY <3>2, <3>3
  <2> QED
    BY <2>3, <2>4
<1> QED
  BY <1>3, <1>4, <1>5, <1>6, <1>7, StepKinds

\* The only block that a TryCatch in its try phase can stand at is the try block.
LEMMA AtTry ==
  ASSUME NEW f \in Frame, HasNext(f), f.phase = "try", PhaseFits(f)
  PROVE  At(f) = 1 /\ Child(f) = Blocks[f.node][1] /\ Blocks[f.node] # <<>>
<1>1. /\ At(f) \in 1..Len(Blocks[f.node]) /\ Runs(f.phase, Kind[Child(f)])
      /\ f.node \in Places
  BY AtIsFirst
<1>2. Kind[Child(f)] = "try"
  BY <1>1 DEF Runs
<1>3. At(f) = 1
  BY <1>1, <1>2, BlockFacts DEF Child
<1> QED
  BY <1>1, <1>3 DEF Child

LEMMA TryErrorsStep ==
  ASSUME EngineInv, LoopInv, TreeInv, ErrorInv, [Next]_vars
  PROVE  TryErrors'
<1> SUFFICES ASSUME NEW l \in Frames', stack'[l].phase \in {"try", "catch"}, stack'[l].errs # {}
             PROVE  /\ Blocks[stack'[l].node] # <<>>
                    /\ done' \/ FailedIn(Blocks[stack[l].node][1])'
  BY DEF TryErrors
<1>0. /\ Len(stack) \in Frames /\ Len(stack) \in Nat /\ Top = stack[Len(stack)]
      /\ \A k \in Frames : k \in Nat /\ stack[k].node \in Places
  BY FrameFacts, StackIsSound DEF Frames
<1>1. ASSUME l \in Frames, stack'[l].node = stack[l].node, stack[l].errs # {},
             stack[l].phase \in {"try", "catch"}
      PROVE  /\ Blocks[stack'[l].node] # <<>>
             /\ done' \/ FailedIn(Blocks[stack[l].node][1])'
  <2>1. PICK p \in Places : p = stack[l].node /\ p = stack'[l].node
    BY <1>0, <1>1
  <2>2. Blocks[p] # <<>> /\ (done \/ FailedIn(Blocks[p][1]))
    BY <1>1, <2>1 DEF ErrorInv, TryErrors
  <2>3. Blocks[p] \in Seq(Nodes)
    BY <2>1, BlocksAssumption DEF Places
  <2>4. Blocks[p][1] \in Places
    BY <2>2, <2>3 DEF Places
  <2>5. done' \/ FailedIn(Blocks[p][1])'
    BY <2>2, <2>4, WhatHappenedStays
  <2> QED
    BY <2>1, <2>2, <2>5
<1>2. CASE StayPut \/ \E n \in Nodes : Works(n)
  BY <1>1, <1>2 DEF StayPut, Works, Frames
<1>3. CASE IntoCatch
  <2>1. l \in Frames
    BY <1>3, IntoCatchStack DEF Frames
  <2>2. CASE l = Len(stack)
    BY <1>0, <1>1, <1>3, <2>1, <2>2, IntoCatchStack DEF IntoCatch
  <2>3. CASE l # Len(stack)
    <3>1. stack'[l] = stack[l]
      BY <1>0, <1>3, <2>1, <2>3, IntoCatchStack DEF Frames
    <3> QED
      BY <1>1, <2>1, <3>1
  <2> QED
    BY <2>2, <2>3
<1>4. ASSUME NEW n \in Nodes, Enters(n)
      PROVE  /\ Blocks[stack'[l].node] # <<>>
             /\ done' \/ FailedIn(Blocks[stack[l].node][1])'
  <2>1. l # Len(stack) + 1
    <3>1. NewFrame(n, PhaseOf(n)).errs = {}
      BY DEF NewFrame
    <3> QED
      BY <1>4, <3>1, EntersStack
  <2>2. l \in Frames /\ stack'[l] = stack[l]
    BY <1>0, <1>4, <2>1, EntersStack DEF Frames
  <2> QED
    BY <1>1, <2>2
<1>5. ASSUME NEW n \in Nodes, NEW err \in SUBSET Errors, NEW L \in 1..Len(stack),
             Yields(n, err), Takes(L, n, err)
      PROVE  /\ Blocks[stack'[l].node] # <<>>
             /\ done' \/ FailedIn(Blocks[stack[l].node][1])'
  <2>1. L \in Frames /\ stack'[L].node = stack[L].node /\ stack'[L].phase = stack[L].phase
    BY <1>5, TakesFacts
  <2>2. CASE l # L
    BY <1>1, <1>5, <2>2, TakesBelow
  <2>3. CASE l = L /\ stack[L].errs # {}
    BY <1>1, <2>1, <2>3
  <2>4. CASE l = L /\ stack[L].errs = {}
    <3>1. stack[L].phase = "try" /\ PhaseFits(stack[L])
      BY <2>1, <2>4 DEF LoopInv, PhasesFit, PhaseFits
    <3>2. err # {} /\ "terminated" \notin err
      BY <1>5, <2>4 DEF Takes, GoesOn
    <3>3. n = Blocks[stack[L].node][1] /\ Blocks[stack[L].node] # <<>>
      <4>1. stack[L] \in Frame /\ HasNext(stack[L]) /\ n = Child(stack[L])
        BY <1>5 DEF Takes
      <4> QED
        BY <3>1, <4>1, AtTry
    <3>4. done' \/ FailedIn(n)'
      BY <1>5, <3>2, YieldComesFrom DEF ComesFrom
    <3>5. n = Blocks[stack'[l].node][1]
      BY <2>1, <2>4, <3>3
    <3> QED
      BY <2>1, <2>4, <3>3, <3>4, <3>5
  <2> QED
    BY <2>2, <2>3, <2>4
<1> QED
  BY <1>2, <1>3, <1>4, <1>5, StepKinds

LEMMA ErrorInvHolds == Spec => []ErrorInv
<1>1. Init => ErrorInv
  <2> SUFFICES ASSUME Init PROVE ErrorInv
    OBVIOUS
  <2>1. Len(stack) = 1 /\ stack[1] = NewFrame(Root, "blocks") /\ pc = "check" /\ failed = {}
    BY DEF Init
  <2>2. stack[1].errs = {} /\ Frames = {1}
    BY <2>1 DEF NewFrame, Frames
  <2> QED
    BY <2>1, <2>2 DEF ErrorInv, ErrorsComeFrom, ComesFrom, FailuresShow, FailedIn, FailedBegan,
                      TryErrors
<1>2. ASSUME EngineInv, LoopInv, TreeInv, ErrorInv, [Next]_vars PROVE ErrorInv'
  BY <1>2, ErrorsComeFromStep, FailuresShowStep, FailedBeganStep, TryErrorsStep DEF ErrorInv
<1> QED
  BY <1>1, <1>2, EngineInvariant, LoopInvHolds, TreeInvHolds, PTL DEF Spec

-----------------------------------------------------------------------------
(* A catch block answers its try. *)

\* What has run of a TryCatch when a catch block has begun.
CatchRan ==
  \A p \in Places : \A k \in Pairs(p) :
    LET a == Blocks[p][k] b == Blocks[p][k + 1] IN
    Kind[a] = "try" /\ Kind[b] = "catch" /\ starts[b] > 0 =>
      (done \/ FailedIn(a)) /\ ~EndedIn(a)

LEMMA PairFacts ==
  ASSUME NEW p \in Places, NEW k \in Pairs(p)
  PROVE  /\ k \in 1..Len(Blocks[p]) /\ k + 1 \in 1..Len(Blocks[p]) /\ k \in Nat
         /\ Blocks[p][k] \in Nodes /\ Blocks[p][k + 1] \in Nodes
         /\ Blocks[p][k] \in Places /\ Blocks[p][k + 1] \in Places
<1>1. Blocks[p] \in Seq(Nodes)
  BY BlocksAssumption DEF Places
<1>2. Len(Blocks[p]) \in Nat
  BY <1>1
<1>3. k \in 1..Len(Blocks[p]) /\ k + 1 \in 1..Len(Blocks[p]) /\ k \in Nat
  BY <1>2 DEF Pairs
<1> QED
  BY <1>3, BlockFacts DEF Places

\* Block b of p follows block a, the k-th.
PairIs(p, k, a, b) == a = Blocks[p][k] /\ b = Blocks[p][k + 1]

\* The loop around a running try block is in its try phase, so no catch block has begun.
LEMMA AroundTry ==
  ASSUME EngineInv, LoopInv, NEW p \in Places, NEW k \in Pairs(p),
         Kind[Blocks[p][k]] = "try", NEW l \in Frames, stack[l].node = Blocks[p][k]
  PROVE  /\ ~(starts[Blocks[p][k + 1]] > 0)
         /\ \E j \in Frames : /\ j < Len(stack) /\ stack[j].node = p
                              /\ stack[j].phase = "try" /\ 1 \in Ahead(stack[j])
<1>1. /\ k \in 1..Len(Blocks[p]) /\ k + 1 \in 1..Len(Blocks[p]) /\ Blocks[p][k] \in Nodes
      /\ k \in Nat /\ Blocks[p][k + 1] \in Nodes
  BY PairFacts
<1>2. stack[l].node # Root
  BY <1>1, RootAssumption
<1>3. /\ l - 1 \in Frames /\ l - 1 < Len(stack) /\ stack[l - 1].node = p
      /\ HasNext(stack[l - 1]) /\ At(stack[l - 1]) = k
      /\ Runs(stack[l - 1].phase, Kind[stack[l].node])
  BY <1>1, <1>2, AroundIt
<1>4. k = 1 /\ p \in Nodes /\ Kind[p] = "tryCatch"
  BY <1>1, BlockFacts
<1>5. stack[l - 1].phase = "try"
  BY <1>3, <1>4 DEF LoopInv, PhasesFit, PhaseFits, Runs
<1>6. At(stack[l - 1]) \in Ahead(stack[l - 1])
  BY <1>3, AtIsFirst, FrameFacts
<1>7. Kind[Blocks[p][k + 1]] = "catch"
  BY <1>1, <1>4, BlockFacts
<1>8. ~(starts[Blocks[p][k + 1]] > 0)
  BY <1>1, <1>3, <1>5, <1>7 DEF LoopInv, InOrder, Reached, Runs
<1> QED
  BY <1>3, <1>4, <1>5, <1>6, <1>8

\* What is about to start below a node starts in its loop.
LEMMA StartsBelow ==
  ASSUME EngineInv, LoopInv, TreeInv, pc = "start", NEW a \in Nodes,
         Child(Top) \in Subtree[a], Child(Top) # a
  PROVE  \E l \in Frames : stack[l].node = a
<1>1. Top.node \in Subtree[a]
  BY ChosenFacts, SubtreeFacts DEF Places
<1>2. Len(stack) \in Frames /\ Top = stack[Len(stack)]
  BY FrameFacts, StackIsSound DEF Frames
<1> QED
  BY <1>1, <1>2 DEF TreeInv, AncestorsRun, Frames

LEMMA CatchRanStep ==
  ASSUME EngineInv, LoopInv, TreeInv, ErrorInv, EndStops, CatchRan, [Next]_vars
  PROVE  CatchRan'
<1> SUFFICES ASSUME NEW p \in Places, NEW k \in Pairs(p), NEW a, NEW b,
                    a = Blocks[p][k], b = Blocks[p][k + 1],
                    Kind[a] = "try", Kind[b] = "catch", starts'[b] > 0
             PROVE  (done' \/ FailedIn(a)') /\ ~(EndedIn(a)')
  BY DEF CatchRan
<1>1. /\ a \in Nodes /\ b \in Nodes /\ a \in Places /\ k = 1
      /\ k + 1 \in 1..Len(Blocks[p]) /\ p \in Nodes /\ Kind[p] = "tryCatch"
  BY PairFacts, BlockFacts
<1>2. starts[b] > 0 \/ Starts(b)
  BY <1>1, StartsFacts, OnlyStartsStart
<1>3. CASE starts[b] > 0
  <2>1. (done \/ FailedIn(a)) /\ ~EndedIn(a)
    BY <1>3 DEF CatchRan
  <2>2. done' \/ FailedIn(a)'
    BY <1>1, <2>1, WhatHappenedStays
  <2>3. ASSUME NEW m \in Subtree[a] \ {Root}, Kind[m] = "end", starts'[m] > 0 PROVE FALSE
    <3>1. m \in Nodes /\ m # a
      BY <1>1, <2>3, SubtreeOfNode
    <3>2. Starts(m)
      BY <2>1, <2>3, <3>1, StartsFacts, OnlyStartsStart DEF EndedIn
    <3>3. pc = "start" /\ Child(Top) = m
      BY <3>2 DEF Starts
    <3>4. PICK l \in Frames : stack[l].node = a
      BY <1>1, <2>3, <3>1, <3>3, StartsBelow
    <3> QED
      BY <1>3, <3>4, AroundTry
  <2> QED
    BY <2>2, <2>3 DEF EndedIn
<1>4. CASE Starts(b)
  <2>1. /\ HasNext(Top) /\ At(Top) \in 1..Len(Blocks[Top.node]) /\ b = Blocks[Top.node][At(Top)]
        /\ Runs(Top.phase, Kind[b]) /\ Top.node \in Places /\ pc = "start"
    BY <1>1, <1>4, StartsFacts
  <2>2. Top.node = p
    BY <1>1, <2>1, BlockFacts
  <2>3. Len(stack) \in Frames /\ Top = stack[Len(stack)]
    BY FrameFacts, StackIsSound DEF Frames
  <2>4. Top.phase = "catch" /\ Top.errs # {}
    BY <1>1, <2>1, <2>2, <2>3 DEF LoopInv, PhasesFit, PhaseFits, Runs
  <2>5. done \/ FailedIn(a)
    BY <1>1, <2>2, <2>3, <2>4 DEF ErrorInv, TryErrors
  <2>6. done' \/ FailedIn(a)'
    BY <1>1, <2>5, WhatHappenedStays
  <2>7. ASSUME NEW m \in Subtree[a] \ {Root}, Kind[m] = "end", starts'[m] > 0 PROVE FALSE
    <3>1. m \in Nodes /\ m # b
      BY <1>1, <2>7, SubtreeOfNode
    <3>2. starts[m] > 0
      BY <1>1, <1>4, <2>7, <3>1, StartsFacts
    <3> QED
      BY <2>1, <2>7, <3>1, <3>2 DEF EndStops
  <2> QED
    BY <2>6, <2>7 DEF EndedIn
<1> QED
  BY <1>2, <1>3, <1>4

LEMMA CatchRanHolds == Spec => []CatchRan
<1>1. Init => CatchRan
  BY PairFacts DEF Init, CatchRan
<1> QED
  BY <1>1, CatchRanStep, EngineInvariant, LoopInvHolds, TreeInvHolds, ErrorInvHolds, EndStopsHolds,
     PTL DEF Spec

-----------------------------------------------------------------------------
(* What an error does not skip. *)

Undisturbed == ~done /\ "panic" \notin faults

\* The loop at level l has not come to leave.
Open(l) == l < Len(stack) \/ pc \in {"check", "start", "running"}

\* While a block follows one that has run well, or that may fail, it is still ahead in
\* the loop that runs both.
Onward ==
  Undisturbed => \A p \in Places : \A k \in Pairs(p) :
    LET a == Blocks[p][k] b == Blocks[p][k + 1] IN
    /\ starts[a] > 0 /\ ~EndedIn(a)
    /\ Kind[a] \in {"tryCatch", "branch"} \/ ~FailedIn(a)
    /\ Kind[b] # "catch" /\ b \notin Disabled
    => \/ starts[b] > 0
       \/ \E l \in Frames : stack[l].node = p /\ Open(l) /\ k + 1 \in Ahead(stack[l])

\* While a try block has failed, its TryCatch is on the way to the catch block.
Answers ==
  Undisturbed => \A p \in Places : \A k \in Pairs(p) :
    LET a == Blocks[p][k] b == Blocks[p][k + 1] IN
    /\ Kind[a] = "try" /\ Kind[b] = "catch" /\ b \notin Disabled
    /\ FailedIn(a) /\ ~EndedIn(a)
    => \/ starts[b] > 0
       \/ \E l \in Frames :
            /\ stack[l].node = p /\ Open(l)
            /\ \/ stack[l].phase = "try" /\ (stack[l].errs # {} \/ 1 \in Ahead(stack[l]))
               \/ stack[l].phase = "catch" /\ k + 1 \in Ahead(stack[l])

\* A panic apart, a run is over when its outermost loop is.
Settled == pc = "over" => "panic" \in faults \/ Len(stack) = 1

LEMMA SettledStep ==
  ASSUME EngineInv, LoopInv, Settled, [Next]_vars
  PROVE  Settled'
<1>1. Grows
  BY StepKinds
<1>2. /\ Len(stack) \in Frames /\ Top = stack[Len(stack)] /\ 1 \in Frames /\ stack[1].node = Root
  BY FrameFacts, StackIsSound DEF Frames
<1>3. CASE StayPut
  <2>1. pc = "panic" => "panic" \in faults
    BY DEF EngineInv, LogsKnowFaults
  <2>2. Top.node = Root => Len(stack) = 1
    BY <1>2 DEF LoopInv, FramesDiffer
  <2> QED
    BY <1>1, <1>3, <2>1, <2>2 DEF StayPut, Settled, Grows
<1>4. ASSUME ~StayPut PROVE pc' # "over"
  BY <1>4, StepKinds DEF IntoCatch, Works, Enters, Takes
<1> QED
  BY <1>3, <1>4 DEF Settled

\* A loop that has something left stays as it is, goes on to its catch blocks, or takes
\* what its block returns.
LEMMA LoopGoesOn ==
  ASSUME EngineInv, TreeInv, [Next]_vars, Undisturbed', NEW l \in Frames, Open(l),
         HasNext(stack[l]) \/ (stack[l].phase = "try" /\ stack[l].errs # {})
  PROVE  \/ l \in Frames' /\ stack'[l] = stack[l] /\ Open(l)'
         \/ IntoCatch /\ l = Len(stack) /\ l \in Frames' /\ Open(l)'
         \/ \E n \in Nodes : \E err \in SUBSET Errors : Yields(n, err) /\ Takes(l, n, err)
<1>0. /\ Len(stack) \in Frames /\ Len(stack) \in Nat /\ Top = stack[Len(stack)] /\ l \in Nat
      /\ 1 <= l /\ l <= Len(stack) /\ ~done
  BY FrameFacts, StackIsSound, WhatHappenedStays DEF Frames, Undisturbed
<1>1. CASE StayPut
  <2>1. UNCHANGED stack /\ l \in Frames'
    BY <1>1 DEF StayPut, Frames
  <2>2. Open(l)'
    <3>1. CASE l < Len(stack)
      BY <2>1, <3>1 DEF Open
    <3>2. CASE l = Len(stack)
      <4>1. pc \in {"check", "start", "running"}
        BY <3>2 DEF Open
      <4>2. pc' \in {"check", "start", "running"}
        BY <1>0, <1>1, <3>2, <4>1 DEF StayPut, Undisturbed
      <4> QED
        BY <4>2 DEF Open
    <3> QED
      BY <1>0, <3>1, <3>2
  <2> QED
    BY <2>1, <2>2
<1>2. CASE IntoCatch
  <2>1. l \in Frames' /\ pc' = "check"
    BY <1>2, IntoCatchStack DEF Frames, IntoCatch
  <2>2. l # Len(stack) => stack'[l] = stack[l]
    BY <1>0, <1>2, IntoCatchStack
  <2> QED
    BY <1>2, <2>1, <2>2 DEF Open
<1>3. ASSUME NEW n \in Nodes, Works(n)
      PROVE  l \in Frames' /\ stack'[l] = stack[l] /\ Open(l)'
  BY <1>3 DEF Works, Frames, Open
<1>4. ASSUME NEW n \in Nodes, Enters(n)
      PROVE  l \in Frames' /\ stack'[l] = stack[l] /\ Open(l)'
  BY <1>0, <1>4, EntersStack DEF Frames, Open
<1>5. ASSUME NEW n \in Nodes, NEW err \in SUBSET Errors, NEW L \in 1..Len(stack),
             Yields(n, err), Takes(L, n, err), L # l
      PROVE  l \in Frames' /\ stack'[l] = stack[l] /\ Open(l)'
  <2>1. /\ Len(stack') = L /\ \A k \in 1..(L - 1) : stack'[k] = stack[k]
        /\ IF pc = "leave" THEN L = Len(stack) - 1 ELSE L = Len(stack)
    BY <1>5 DEF Takes
  <2>2. l < L
    BY <1>0, <1>5, <2>1 DEF Open
  <2> QED
    BY <1>0, <2>1, <2>2 DEF Frames, Open
<1> QED
  BY <1>1, <1>2, <1>3, <1>4, <1>5, StepKinds DEF Frames

\* Where a block runs the next one does too, but for the catch block after a try.
LEMMA NextAhead ==
  ASSUME NEW f \in Frame, PhaseFits(f), HasNext(f), At(f) \in Pairs(f.node),
         Kind[Blocks[f.node][At(f) + 1]] # "catch"
  PROVE  At(f) + 1 \in Ahead(f)
<1> DEFINE k == At(f)
           p == f.node
<1>1. /\ p \in Places /\ f.phase \in Phases /\ f.i \in Nat /\ k >= f.i
      /\ Runs(f.phase, Kind[Blocks[p][k]])
  BY AtIsFirst DEF Child, Frame
<1>2. k \in 1..Len(Blocks[p]) /\ k + 1 \in 1..Len(Blocks[p]) /\ k \in Nat /\ Len(Blocks[p]) \in Nat
  BY <1>1, PairFacts, BlockFacts
<1>3. Runs(f.phase, Kind[Blocks[p][k + 1]])
  <2>1. CASE f.phase = "branches"
    BY <1>1, <1>2, <2>1, BlockFacts DEF PhaseFits, Runs
  <2>2. CASE f.phase \in {"try", "catch"}
    <3>1. p \in Nodes /\ Kind[p] = "tryCatch" /\ k + 1 > 1
      BY <1>2, <2>2 DEF PhaseFits
    <3> QED
      BY <1>1, <1>2, <3>1, BlockFacts
  <2>3. CASE f.phase = "blocks"
    BY <2>3 DEF Runs
  <2> QED
    BY <1>1, <2>1, <2>2, <2>3 DEF Phases
<1>4. k + 1 \in f.i..Len(Blocks[p])
  BY <1>1, <1>2
<1> QED
  BY <1>3, <1>4 DEF Ahead

LEMMA OnwardStep ==
  ASSUME EngineInv, LoopInv, TreeInv, ErrorInv, Onward, [Next]_vars
  PROVE  Onward'
<1> SUFFICES ASSUME Undisturbed', NEW p \in Places, NEW k \in Pairs(p), NEW a, NEW b,
                    PairIs(p, k, a, b),
                    starts'[a] > 0, ~(EndedIn(a)'),
                    Kind[a] \in {"tryCatch", "branch"} \/ ~(FailedIn(a)'),
                    Kind[b] # "catch", b \notin Disabled, ~(starts'[b] > 0)
             PROVE  \E l \in Frames' : /\ stack'[l].node = p /\ Open(l)'
                                       /\ k + 1 \in Ahead(stack'[l])
  BY DEF Onward, PairIs
<1>1. /\ a \in Nodes /\ b \in Nodes /\ a \in Places /\ k \in Nat
      /\ k \in 1..Len(Blocks[p]) /\ a = Blocks[p][k]
  BY PairFacts DEF PairIs
<1>8. k + 1 \in 1..Len(Blocks[p]) /\ b = Blocks[p][k + 1]
  BY PairFacts DEF PairIs
<1>2. Undisturbed /\ ~(starts[b] > 0) /\ ~EndedIn(a)
      /\ (Kind[a] \in {"tryCatch", "branch"} \/ ~FailedIn(a))
  BY <1>1, StepKinds, WhatHappenedStays DEF Grows, Undisturbed
<1>3. PICK l \in Frames : stack[l].node = p /\ Open(l) /\ k + 1 \in Ahead(stack[l])
  <2>1. CASE starts[a] > 0
    BY <1>1, <1>2, <1>8, <2>1 DEF Onward
  <2>2. CASE Starts(a)
    <3>1. /\ pc = "start" /\ HasNext(Top) /\ Top \in Frame /\ Top.node \in Places
          /\ At(Top) \in 1..Len(Blocks[Top.node]) /\ a = Blocks[Top.node][At(Top)]
      BY <1>1, <2>2, StartsFacts
    <3>2. Top.node = p /\ At(Top) = k
      <4>1. Blocks[Top.node][At(Top)] = Blocks[p][k]
        BY <1>1, <3>1
      <4>2. At(Top) \in 1..Len(Blocks[Top.node]) /\ k \in 1..Len(Blocks[p]) /\ Top.node \in Places
        BY <1>1, <3>1
      <4> QED
        BY <4>1, <4>2, OnePlace
    <3>3. Len(stack) \in Frames /\ Top = stack[Len(stack)]
      BY FrameFacts, StackIsSound DEF Frames
    <3>4. PhaseFits(Top)
      BY <3>3 DEF LoopInv, PhasesFit
    <3>5. k + 1 \in Ahead(Top)
      <4>1. At(Top) \in Pairs(Top.node) /\ Kind[Blocks[Top.node][At(Top) + 1]] # "catch"
        BY <1>8, <3>2
      <4>2. At(Top) + 1 \in Ahead(Top)
        BY <3>1, <3>4, <4>1, NextAhead
      <4> QED
        BY <3>2, <4>2
    <3> QED
      BY <3>1, <3>2, <3>3, <3>5 DEF Open
  <2> QED
    BY <1>1, <2>1, <2>2, StartsFacts, OnlyStartsStart
<1>4. /\ stack[l] \in Frame /\ HasNext(stack[l]) /\ stack[l].i \in Nat
      /\ Runs(stack[l].phase, Kind[b]) /\ Ahead(stack[l]) # {} /\ PhaseFits(stack[l])
  BY <1>3, <1>8, FrameFacts DEF HasNext, Ahead, LoopInv, PhasesFit
<1>5. CASE l \in Frames' /\ stack'[l] = stack[l] /\ Open(l)'
  BY <1>3, <1>5
<1>6. CASE IntoCatch /\ l = Len(stack)
  BY <1>4, <1>6, FrameFacts DEF IntoCatch
<1>7. ASSUME NEW n \in Nodes, NEW err \in SUBSET Errors, Yields(n, err), Takes(l, n, err)
      PROVE  l \in Frames' /\ stack'[l].node = p /\ Open(l)' /\ k + 1 \in Ahead(stack'[l])
  <2>0. l \in 1..Len(stack)
    BY DEF Frames
  <2> DEFINE f == stack[l]
  <2>9. /\ l \in Frames' /\ stack'[l].node = f.node /\ stack'[l].phase = f.phase
        /\ n = Blocks[f.node][At(f)] /\ At(f) \in 1..Len(Blocks[f.node])
    BY <1>7, <2>0, TakesFacts
  <2>1. /\ l \in Frames' /\ stack'[l].node = p /\ stack'[l].phase = stack[l].phase
        /\ n = Blocks[p][At(stack[l])] /\ At(stack[l]) \in 1..Len(Blocks[p])
    BY <1>3, <2>9
  <2>2. At(stack[l]) \in Nat /\ At(stack[l]) >= stack[l].i /\ At(stack[l]) <= k + 1
    BY <1>3, <1>4, AtIsFirst
  <2>3. At(stack[l]) # k + 1
    BY <1>7, <1>8, <2>0, <2>1, YieldBegan
  <2>4. At(stack[l]) <= k
    BY <1>1, <2>2, <2>3
  <2>5. CASE GoesOn(stack[l], err)
    <3>1. stack'[l].i = At(stack[l]) + 1 /\ pc' = "check"
      BY <1>7, <2>5 DEF Takes
    <3>2. k + 1 \in stack'[l].i..Len(Blocks[p])
      BY <1>1, <1>8, <2>2, <2>4, <3>1
    <3> QED
      BY <1>4, <1>8, <2>1, <3>1, <3>2 DEF Ahead, Open
  <2>6. CASE ~GoesOn(stack[l], err)
    <3>1. Reached(stack[l], k, TRUE)
      BY <1>1, <1>3, NowReached
    <3>2. n = a
      <4>1. ~(k < stack[l].i)
        BY <1>1, <1>4, <2>2, <2>4
      <4>2. stack[l].phase # "catch"
        BY <1>4 DEF Runs
      <4> QED
        BY <1>1, <1>3, <2>1, <3>1, <4>1, <4>2 DEF Reached
    <3>3. err # {} /\ ("terminated" \notin err => stack[l].phase = "blocks" /\ Kind[a] # "tryCatch")
      BY <1>7, <2>6, <3>2 DEF GoesOn, Takes
    <3>4. ComesFrom(a, err)'
      BY <1>7, <2>0, <3>2, YieldComesFrom
    <3>5. "terminated" \notin err /\ FailedIn(a)'
      BY <3>3, <3>4 DEF ComesFrom, Undisturbed
    <3>6. Kind[a] = "branch"
      BY <3>3, <3>5
    <3>7. stack[l].phase = "branches"
      BY <1>1, <1>3, <1>4, <3>6, BlockFacts DEF PhaseFits
    <3> QED
      BY <3>3, <3>5, <3>7
  <2> QED
    BY <2>5, <2>6
<1> QED
  BY <1>3, <1>4, <1>5, <1>6, <1>7, LoopGoesOn

LEMMA AnswersStep ==
  ASSUME EngineInv, LoopInv, TreeInv, ErrorInv, Answers, [Next]_vars
  PROVE  Answers'
<1> SUFFICES ASSUME Undisturbed', NEW p \in Places, NEW k \in Pairs(p), NEW a, NEW b,
                    PairIs(p, k, a, b),
                    Kind[a] = "try", Kind[b] = "catch", b \notin Disabled,
                    FailedIn(a)', ~(EndedIn(a)'), ~(starts'[b] > 0)
             PROVE  \E l \in Frames' :
                      /\ stack'[l].node = p /\ Open(l)'
                      /\ \/ stack'[l].phase = "try"
                            /\ (stack'[l].errs # {} \/ 1 \in Ahead(stack'[l]))
                         \/ stack'[l].phase = "catch" /\ k + 1 \in Ahead(stack'[l])
  BY DEF Answers, PairIs
<1>1. /\ a \in Nodes /\ b \in Nodes /\ a \in Places /\ k \in Nat /\ k = 1
      /\ k \in 1..Len(Blocks[p]) /\ a = Blocks[p][k]
      /\ p \in Nodes /\ Kind[p] = "tryCatch"
  BY PairFacts, BlockFacts DEF PairIs
<1>8. k + 1 \in 1..Len(Blocks[p]) /\ b = Blocks[p][k + 1]
  BY PairFacts DEF PairIs
<1>2. Undisturbed /\ ~(starts[b] > 0) /\ ~EndedIn(a)
  BY <1>1, StepKinds, WhatHappenedStays DEF Grows, Undisturbed
<1>3. PICK l \in Frames :
        /\ stack[l].node = p /\ Open(l)
        /\ \/ stack[l].phase = "try" /\ (stack[l].errs # {} \/ 1 \in Ahead(stack[l]))
           \/ stack[l].phase = "catch" /\ k + 1 \in Ahead(stack[l])
  <2>1. CASE FailedIn(a)
    BY <1>1, <1>2, <1>8, <2>1 DEF Answers
  <2>2. CASE ~FailedIn(a)
    <3>1. PICK n \in Nodes, err \in SUBSET Errors, L \in 1..Len(stack) :
            Yields(n, err) /\ Takes(L, n, err) /\ failed' # failed
      BY <2>2, StepKinds DEF FailedIn, StayPut, IntoCatch, Works, Enters
    <3>2. failed' = failed \cup {n} /\ pc \in {"start", "running"}
      BY <3>1, YieldFails
    <3>3. n \in Subtree[a]
      BY <2>2, <3>2 DEF FailedIn
    <3>4. /\ L \in Frames /\ stack[L] \in Frame /\ stack[L].node \in Places /\ HasNext(stack[L])
          /\ At(stack[L]) \in Ahead(stack[L])
          /\ At(stack[L]) \in 1..Len(Blocks[stack[L].node])
          /\ n = Blocks[stack[L].node][At(stack[L])] /\ Runs(stack[L].phase, Kind[n])
      BY <3>1, TakesFacts
    <3>5. CASE n = a
      <4>1. stack[L].node = p /\ At(stack[L]) = k
        <5>1. Blocks[stack[L].node][At(stack[L])] = Blocks[p][k]
          BY <1>1, <3>4, <3>5
        <5> QED
          BY <1>1, <3>4, <5>1, OnePlace
      <4>2. stack[L].phase = "try"
        BY <1>1, <3>4, <3>5, <4>1 DEF LoopInv, PhasesFit, PhaseFits, Runs
      <4> QED
        BY <1>1, <3>2, <3>4, <4>1, <4>2 DEF Open
    <3>6. CASE n # a
      <4>1. stack[L].node \in Subtree[a]
        BY <1>1, <3>3, <3>4, <3>6, SubtreeFacts
      <4>2. PICK j \in 1..L : stack[j].node = a
        BY <1>1, <3>4, <4>1 DEF TreeInv, AncestorsRun
      <4>3. j \in Frames
        BY <3>4 DEF Frames
      <4> QED
        BY <1>1, <4>2, <4>3, AroundTry DEF Open
    <3> QED
      BY <3>5, <3>6
  <2> QED
    BY <2>1, <2>2
<1>4. /\ stack[l] \in Frame /\ PhaseFits(stack[l]) /\ stack[l].i \in Nat
      /\ HasNext(stack[l]) \/ (stack[l].phase = "try" /\ stack[l].errs # {})
  BY <1>3, FrameFacts DEF HasNext, LoopInv, PhasesFit
<1>5. CASE l \in Frames' /\ stack'[l] = stack[l] /\ Open(l)'
  BY <1>3, <1>5
<1>6. CASE IntoCatch /\ l = Len(stack) /\ l \in Frames' /\ Open(l)'
  <2>1. stack'[l].node = p /\ stack'[l].phase = "catch" /\ stack'[l].i = 1
    BY <1>3, <1>6, IntoCatchStack, FrameFacts
  <2>2. k + 1 \in stack'[l].i..Len(Blocks[p])
    BY <1>1, <1>8, <2>1
  <2> QED
    BY <1>6, <1>8, <2>1, <2>2 DEF Ahead, Runs
<1>7. ASSUME NEW n \in Nodes, NEW err \in SUBSET Errors, Yields(n, err), Takes(l, n, err)
      PROVE  l \in Frames' /\ stack'[l].node = p /\ Open(l)' /\ stack'[l].phase = "try"
             /\ stack'[l].errs # {}
  <2>0. l \in 1..Len(stack)
    BY DEF Frames
  <2>1. /\ l \in Frames' /\ stack'[l].node = p /\ stack'[l].phase = stack[l].phase
        /\ n = Blocks[p][At(stack[l])] /\ At(stack[l]) \in 1..Len(Blocks[p])
        /\ HasNext(stack[l]) /\ Runs(stack[l].phase, Kind[n])
    BY <1>3, <1>7, <2>0, TakesFacts
  <2>2. CASE stack[l].phase = "try"
    <3>1. n = a
      BY <1>1, <1>3, <1>4, <2>1, <2>2, AtTry
    <3>2. err # {}
      BY <1>7, <2>0, <3>1, YieldShows DEF Loops
    <3>3. ComesFrom(a, err)'
      BY <1>7, <2>0, <3>1, YieldComesFrom
    <3>4. GoesOn(stack[l], err)
      BY <2>2, <3>3 DEF ComesFrom, GoesOn
    <3>5. pc' = "check" /\ stack'[l].errs = stack[l].errs \cup err
      BY <1>7, <3>4 DEF Takes
    <3> QED
      BY <2>1, <2>2, <3>2, <3>5 DEF Open
  <2>3. CASE stack[l].phase = "catch"
    <3>1. k + 1 \in Ahead(stack[l]) /\ Kind[n] = "catch"
      BY <1>3, <2>1, <2>3 DEF Runs
    <3>2. At(stack[l]) > 1
      BY <2>1, <3>1, BlockFacts
    <3>3. At(stack[l]) <= k + 1 /\ At(stack[l]) \in Nat
      BY <1>4, <2>1, <3>1, AtIsFirst
    <3>4. n = b
      BY <1>1, <1>8, <2>1, <3>2, <3>3
    <3> QED
      BY <1>7, <2>0, <3>4, YieldBegan
  <2> QED
    BY <1>3, <2>2, <2>3
<1> QED
  BY <1>4, <1>3, <1>5, <1>6, <1>7, LoopGoesOn

LEMMA ProgressHolds == Spec => [](Settled /\ Onward /\ Answers)
<1>1. Init => Settled /\ Onward /\ Answers
  <2> SUFFICES ASSUME Init PROVE Settled /\ Onward /\ Answers
    OBVIOUS
  <2>1. pc = "check" /\ failed = {} /\ \A n \in Nodes : ~(starts[n] > 0)
    BY DEF Init
  <2> QED
    BY <2>1, PairFacts DEF Settled, Onward, Answers, FailedIn
<1>2. ASSUME EngineInv, LoopInv, TreeInv, ErrorInv, Settled /\ Onward /\ Answers, [Next]_vars
      PROVE  (Settled /\ Onward /\ Answers)'
  BY <1>2, SettledStep, OnwardStep, AnswersStep
<1> QED
  BY <1>1, <1>2, EngineInvariant, LoopInvHolds, TreeInvHolds, ErrorInvHolds, PTL DEF Spec

LEMMA OverIsClosed ==
  ASSUME EngineInv, Settled, outcome # "none", Undisturbed, NEW l \in Frames
  PROVE  ~Open(l)
BY StackIsSound DEF EngineInv, Settled, Undisturbed, Open, Frames

\* Unless a run is canceled, panics or ends, an error skips the rest of its own block
\* only: the other branches of a condition and the nodes after a TryCatch run.
THEOREM NothingIsSkippedHolds == Spec => []NothingIsSkipped
<1>1. ASSUME EngineInv, Settled, Onward PROVE NothingIsSkipped
  BY <1>1, OverIsClosed DEF NothingIsSkipped, Onward, Undisturbed
<1> QED
  BY <1>1, EngineInvariant, ProgressHolds, PTL

\* The catch block after a try block runs when something in the try block has failed,
\* and only then.
THEOREM CatchAnswersTryHolds == Spec => []CatchAnswersTry
<1>1. ASSUME EngineInv, Settled, Answers, CatchRan PROVE CatchAnswersTry
  BY <1>1, OverIsClosed DEF CatchAnswersTry, Answers, CatchRan, Undisturbed
<1> QED
  BY <1>1, EngineInvariant, CatchRanHolds, ProgressHolds, PTL

-----------------------------------------------------------------------------
(* Which node error.nodeId names. *)

\* Only a loop that has found the context done returns an error without a name, and
\* after that no node is started.
Sure == ~done \/ pc = "start"

\* Until then an error that a loop has, or returns, comes with the name of a node below.
KnowsNode ==
  Sure =>
    /\ \A l \in Frames : stack[l].errs # {} => errorNode \in Subtree[stack[l].node]
    /\ pc = "leave" /\ ret # {} /\ "terminated" \notin ret =>
         errorNode \in Subtree[Top.node]

\* Until its first catch block begins a TryCatch knows of its try block.
BeforeCatch(f) ==
  f.phase = "catch" => 2 \in Ahead(f) /\ ~(starts[Blocks[f.node][2]] > 0)
KnowsTry ==
  Sure =>
    \A l \in Frames :
      stack[l].phase \in {"try", "catch"} /\ stack[l].errs # {} /\ BeforeCatch(stack[l])
      => errorNode \in Subtree[Blocks[stack[l].node][1]]

NameInv == KnowsNode /\ KnowsTry /\ CatchKnowsItsError

\* What was unsure stays so; what begins leaves no doubt behind.
LEMMA SureBefore ==
  ASSUME EngineInv, [Next]_vars, Sure'
  PROVE  Sure
<1>1. done => done'
  BY StepKinds DEF Grows
<1>2. ASSUME pc' = "start" PROVE pc = "start" \/ ~done
  BY <1>2, StepKinds DEF StayPut, IntoCatch, Works, Enters, Takes
<1> QED
  BY <1>1, <1>2 DEF Sure

\* An error that is not an end comes with a name below n.
LEMMA YieldKnows ==
  ASSUME EngineInv, KnowsNode, Sure, NEW n \in Nodes, NEW err \in SUBSET Errors,
         Yields(n, err), Names(n, err), err # {}, "terminated" \notin err
  PROVE  errorNode' \in Subtree[n]
<1>1. n \in Subtree[n]
  BY SubtreeFacts DEF Places
<1>2. CASE "blocks" \notin err
  <2>1. errorNode' = n
    BY <1>2 DEF Names
  <2> QED
    BY <1>1, <2>1
<1>3. CASE "blocks" \in err
  <2>1. Closes(n, err)
    BY <1>3 DEF Yields, Skips, Refuses, Ends, LeafErrors
  <2>2. pc = "leave" /\ n = Top.node /\ ret # {} /\ "terminated" \notin ret
    BY <2>1 DEF Closes
  <2>3. errorNode' = errorNode
    BY <1>3 DEF Names
  <2> QED
    BY <2>2, <2>3 DEF KnowsNode
<1> QED
  BY <1>2, <1>3

LEMMA NoNewName ==
  ASSUME NEW n \in Nodes, NEW err \in SUBSET Errors, Names(n, err),
         err = {} \/ "terminated" \in err
  PROVE  errorNode' = errorNode
BY DEF Names

LEMMA NewName ==
  ASSUME NEW n \in Nodes, NEW err \in SUBSET Errors, Names(n, err)
  PROVE  errorNode' \in {errorNode, n}
BY DEF Names

LEMMA KnowsNodeStep ==
  ASSUME EngineInv, LoopInv, TreeInv, KnowsNode, [Next]_vars
  PROVE  KnowsNode'
<1> SUFFICES ASSUME Sure' PROVE KnowsNode'
  BY DEF KnowsNode
<1>a. Sure
  BY SureBefore
<1>0. /\ \A l \in Frames : stack[l].errs # {} => errorNode \in Subtree[stack[l].node]
      /\ Len(stack) \in Frames /\ Len(stack) \in Nat /\ Top = stack[Len(stack)]
  BY <1>a, FrameFacts, StackIsSound DEF KnowsNode, Frames
<1>1. CASE StayPut \/ \E n \in Nodes : Works(n)
  <2>1. UNCHANGED <<stack, errorNode>> /\ Top' = Top /\ Frames' = Frames
    BY <1>1 DEF StayPut, Works, Top, Frames
  <2>2. ASSUME pc' = "leave", ret' # {}, "terminated" \notin ret'
        PROVE  errorNode \in Subtree[Top.node]
    <3>1. CASE pc = "leave" /\ UNCHANGED ret
      BY <1>a, <2>2, <3>1 DEF KnowsNode
    <3>2. CASE ret' = Top.errs \/ (ret' = Top.errs \cup {"blocks"} /\ Top.errs # {})
      <4>1. Top.errs # {}
        BY <2>2, <3>2
      <4> QED
        BY <1>0, <4>1
    <3>3. CASE done
      <4>1. done'
        BY <3>3, StepKinds DEF Grows
      <4> QED
        BY <2>2, <4>1 DEF Sure
    <3> QED
      BY <1>1, <2>2, <3>1, <3>2, <3>3 DEF StayPut, Works
  <2> QED
    BY <1>0, <2>1, <2>2 DEF KnowsNode
<1>2. CASE IntoCatch
  <2>1. pc' # "leave" /\ errorNode' = errorNode
    BY <1>2 DEF IntoCatch
  <2>2. ASSUME NEW l \in Frames'
        PROVE  l \in Frames /\ stack'[l].node = stack[l].node /\ stack'[l].errs = stack[l].errs
    <3>1. l \in Frames
      BY <1>2, <2>2, IntoCatchStack DEF Frames
    <3>2. CASE l = Len(stack)
      BY <1>0, <1>2, <3>1, <3>2, IntoCatchStack
    <3>3. CASE l # Len(stack)
      <4>1. l \in 1..(Len(stack) - 1)
        BY <1>0, <3>1, <3>3 DEF Frames
      <4> QED
        BY <1>2, <3>1, <4>1, IntoCatchStack
    <3> QED
      BY <3>2, <3>3
  <2> QED
    BY <1>0, <2>1, <2>2 DEF KnowsNode
<1>3. ASSUME NEW n \in Nodes, Enters(n) PROVE KnowsNode'
  <2>1. pc' # "leave" /\ errorNode' = errorNode
    BY <1>3 DEF Enters
  <2>2. ASSUME NEW l \in Frames', stack'[l].errs # {}
        PROVE  l \in Frames /\ stack'[l] = stack[l]
    <3>1. NewFrame(n, PhaseOf(n)).errs = {}
      BY DEF NewFrame
    <3>2. l # Len(stack) + 1
      BY <1>3, <2>2, <3>1, EntersStack
    <3> QED
      BY <1>0, <1>3, <3>2, EntersStack DEF Frames
  <2> QED
    BY <1>0, <2>1, <2>2 DEF KnowsNode
<1>4. ASSUME NEW n \in Nodes, NEW err \in SUBSET Errors, NEW L \in 1..Len(stack),
             Yields(n, err), Names(n, err), Takes(L, n, err)
      PROVE  KnowsNode'
  <2>1. /\ L \in Frames /\ n \in Subtree[stack[L].node]
        /\ Subtree[n] \subseteq Subtree[stack[L].node]
        /\ Top' = stack'[L] /\ stack'[L].node = stack[L].node
    BY <1>4, TakesFacts
  <2>2. err # {} /\ "terminated" \notin err => errorNode' \in Subtree[stack[L].node]
    BY <1>4, <1>a, <2>1, YieldKnows
  <2>3. ASSUME NEW l \in Frames', stack'[l].errs # {}
        PROVE  errorNode' \in Subtree[stack'[l].node]
    <3>1. CASE l # L
      <4>1. l \in Frames /\ stack'[l] = stack[l] /\ n \in Subtree[stack[l].node]
        BY <1>4, <3>1, TakesBelow
      <4>2. errorNode' \in {errorNode, n}
        BY <1>4, NewName
      <4> QED
        BY <1>0, <2>3, <4>1, <4>2
    <3>2. CASE l = L /\ GoesOn(stack[L], err)
      <4>1. stack'[L].errs = stack[L].errs \cup err
        BY <1>4, <3>2 DEF Takes
      <4>2. CASE err = {}
        <5>1. errorNode' = errorNode
          BY <1>4, <4>2, NoNewName
        <5> QED
          BY <1>0, <2>1, <2>3, <3>2, <4>1, <4>2, <5>1
      <4>3. CASE err # {}
        <5>1. "terminated" \notin err
          BY <3>2, <4>3 DEF GoesOn
        <5> QED
          BY <2>1, <2>2, <3>2, <4>3, <5>1
      <4> QED
        BY <4>2, <4>3
    <3>3. CASE l = L /\ ~GoesOn(stack[L], err)
      <4>1. stack'[L] = stack[L]
        BY <1>4, <3>3 DEF Takes
      <4>2. errorNode' \in {errorNode, n}
        BY <1>4, NewName
      <4> QED
        BY <1>0, <2>1, <2>3, <3>3, <4>1, <4>2
    <3> QED
      BY <3>1, <3>2, <3>3
  <2>4. pc' = "leave" => ret' = err
    BY <1>4 DEF Takes
  <2> QED
    BY <2>1, <2>2, <2>3, <2>4 DEF KnowsNode
<1> QED
  BY <1>1, <1>2, <1>3, <1>4, StepKinds

LEMMA KnowsTryStep ==
  ASSUME EngineInv, LoopInv, TreeInv, KnowsNode, KnowsTry, [Next]_vars
  PROVE  KnowsTry'
<1> SUFFICES ASSUME Sure' PROVE KnowsTry'
  BY DEF KnowsTry
<1>a. Sure
  BY SureBefore
<1>7. ASSUME NEW n \in Nodes, NEW err \in SUBSET Errors, NEW L \in 1..Len(stack),
             Takes(L, n, err), NEW l \in Frames', l # L
      PROVE  /\ l \in Frames /\ l < Len(stack) /\ stack'[l] = stack[l]
             /\ HasNext(stack[l]) /\ stack[l + 1].node = Child(stack[l])
             /\ n \in Subtree[stack[l + 1].node] /\ l + 1 \in Frames
  BY <1>7, TakesBelow
<1>8. ASSUME NEW n \in Nodes, NEW err \in SUBSET Errors, NEW L \in 1..Len(stack),
             Takes(L, n, err)
      PROVE  /\ L \in Frames /\ stack[L] \in Frame /\ HasNext(stack[L]) /\ stack[L].node \in Places
             /\ At(stack[L]) \in 1..Len(Blocks[stack[L].node])
             /\ n = Blocks[stack[L].node][At(stack[L])] /\ Runs(stack[L].phase, Kind[n])
             /\ stack'[L].node = stack[L].node /\ stack'[L].phase = stack[L].phase
  BY <1>8, TakesFacts
<1> SUFFICES ASSUME NEW l \in Frames', stack'[l].phase \in {"try", "catch"}, stack'[l].errs # {},
                    BeforeCatch(stack[l])'
             PROVE  errorNode' \in Subtree[Blocks[stack'[l].node][1]]
  BY DEF KnowsTry
<1>0. /\ Len(stack) \in Frames /\ Len(stack) \in Nat /\ Top = stack[Len(stack)]
      /\ \A k \in Frames : k \in Nat /\ stack[k].node \in Places /\ stack[k] \in Frame
                           /\ PhaseFits(stack[k])
  BY FrameFacts, StackIsSound DEF Frames, LoopInv, PhasesFit
<1>1. ASSUME l \in Frames, stack'[l] = stack[l]
      PROVE  /\ stack[l].phase = "catch" =>
                  2 \in Ahead(stack[l]) /\ ~(starts[Blocks[stack[l].node][2]] > 0)
             /\ errorNode \in Subtree[Blocks[stack[l].node][1]]
  <2>1. stack[l].phase = "catch" =>
          2 \in Ahead(stack[l]) /\ ~(starts'[Blocks[stack[l].node][2]] > 0)
    BY <1>1 DEF BeforeCatch, Ahead
  <2>2. 2 \in Ahead(stack[l]) => Blocks[stack[l].node][2] \in Nodes
    <3> SUFFICES ASSUME 2 \in Ahead(stack[l]) PROVE Blocks[stack[l].node][2] \in Nodes
      OBVIOUS
    <3>1. stack[l].i \in Nat \ {0} /\ Blocks[stack[l].node] \in Seq(Nodes)
      BY <1>0, <1>1, BlocksAssumption DEF Frame, Places
    <3>2. 2 \in 1..Len(Blocks[stack[l].node])
      BY <3>1 DEF Ahead
    <3> QED
      BY <3>1, <3>2
  <2>3. stack[l].phase = "catch" =>
          2 \in Ahead(stack[l]) /\ ~(starts[Blocks[stack[l].node][2]] > 0)
    BY <2>1, <2>2, StepKinds DEF Grows
  <2> QED
    BY <1>1, <1>a, <2>3 DEF KnowsTry, BeforeCatch
<1>2. ASSUME l \in Frames, stack'[l] = stack[l], errorNode' = errorNode
      PROVE  errorNode' \in Subtree[Blocks[stack'[l].node][1]]
  BY <1>1, <1>2
<1>3. CASE StayPut \/ \E n \in Nodes : Works(n)
  BY <1>2, <1>3 DEF StayPut, Works, Frames
<1>4. CASE IntoCatch
  <2>1. l \in Frames /\ errorNode' = errorNode
    BY <1>4, IntoCatchStack DEF Frames, IntoCatch
  <2>2. CASE l = Len(stack)
    <3>1. Top.phase = "try" /\ stack'[l].node = Top.node /\ stack'[l].errs = Top.errs
      BY <1>4, <2>2, IntoCatchStack DEF IntoCatch
    <3> QED
      BY <1>0, <1>a, <2>1, <2>2, <3>1 DEF KnowsTry, BeforeCatch
  <2>3. CASE l # Len(stack)
    <3>1. stack'[l] = stack[l]
      BY <1>0, <1>4, <2>1, <2>3, IntoCatchStack DEF Frames
    <3> QED
      BY <1>2, <2>1, <3>1
  <2> QED
    BY <2>2, <2>3
<1>5. ASSUME NEW n \in Nodes, Enters(n)
      PROVE  errorNode' \in Subtree[Blocks[stack'[l].node][1]]
  <2>1. NewFrame(n, PhaseOf(n)).errs = {}
    BY DEF NewFrame
  <2>2. l # Len(stack) + 1
    BY <1>5, <2>1, EntersStack
  <2>3. l \in Frames /\ stack'[l] = stack[l] /\ errorNode' = errorNode
    BY <1>0, <1>5, <2>2, EntersStack DEF Frames, Enters
  <2> QED
    BY <1>2, <2>3
<1>6. ASSUME NEW n \in Nodes, NEW err \in SUBSET Errors, NEW L \in 1..Len(stack),
             Yields(n, err), Names(n, err), Takes(L, n, err)
      PROVE  errorNode' \in Subtree[Blocks[stack'[l].node][1]]
  <2>1. CASE l # L
    <3>1. /\ l \in Frames /\ l < Len(stack) /\ stack'[l] = stack[l]
          /\ HasNext(stack[l]) /\ stack[l + 1].node = Child(stack[l])
          /\ n \in Subtree[stack[l + 1].node] /\ l + 1 \in Frames
      BY <1>6, <1>7, <2>1
    <3>2. errorNode \in Subtree[Blocks[stack[l].node][1]]
      BY <1>1, <3>1
    <3>3. stack[l].phase = "try"
      <4> SUFFICES ASSUME stack[l].phase = "catch" PROVE FALSE
        BY <3>1
      <4>1. 2 \in Ahead(stack[l]) /\ ~(starts[Blocks[stack[l].node][2]] > 0)
        BY <1>1, <3>1
      <4>2. /\ At(stack[l]) \in 1..Len(Blocks[stack[l].node]) /\ At(stack[l]) <= 2
            /\ Kind[Child(stack[l])] = "catch" /\ stack[l].node \in Places
        BY <1>0, <3>1, <4>1, AtIsFirst DEF Runs
      <4>3. At(stack[l]) = 2
        BY <4>2, BlockFacts DEF Child
      <4>4. starts[stack[l + 1].node] > 0
        BY <1>0, <3>1 DEF LoopInv, HaveBegun, Began, Frames
      <4> QED
        BY <3>1, <4>1, <4>3, <4>4 DEF Child
    <3>4. stack[l + 1].node = Blocks[stack[l].node][1]
      BY <1>0, <3>1, <3>3, AtTry
    <3>5. errorNode' \in {errorNode, n}
      BY <1>6, NewName
    <3> QED
      BY <3>1, <3>2, <3>4, <3>5
  <2>2. CASE l = L
    <3>1. /\ L \in Frames /\ stack[L] \in Frame /\ HasNext(stack[L]) /\ stack[L].node \in Places
          /\ At(stack[L]) \in 1..Len(Blocks[stack[L].node])
          /\ n = Blocks[stack[L].node][At(stack[L])] /\ Runs(stack[L].phase, Kind[n])
          /\ stack'[L].node = stack[L].node /\ stack'[L].phase = stack[L].phase
      BY <1>6, <1>8
    <3>2. CASE ~GoesOn(stack[L], err)
      <4>1. stack'[L] = stack[L]
        BY <1>6, <3>2 DEF Takes
      <4>2. stack[L].phase # "blocks" /\ "terminated" \in err
        BY <2>2, <3>1, <3>2 DEF GoesOn
      <4> QED
        BY <1>2, <1>6, <2>2, <3>1, <4>1, <4>2, NoNewName
    <3>3. CASE GoesOn(stack[L], err) /\ stack[L].phase = "try"
      <4>1. stack'[L].errs = stack[L].errs \cup err
        BY <1>6, <3>3 DEF Takes
      <4>2. n = Blocks[stack[L].node][1]
        BY <1>0, <3>1, <3>3, AtTry DEF Child
      <4>3. CASE err = {}
        BY <1>6, <1>a, <2>2, <3>1, <3>3, <4>1, <4>3, NoNewName DEF KnowsTry, BeforeCatch
      <4>4. CASE err # {}
        <5>1. "terminated" \notin err
          BY <3>3, <4>4 DEF GoesOn
        <5>2. errorNode' \in Subtree[n]
          BY <1>6, <1>a, <4>4, <5>1, YieldKnows
        <5> QED
          BY <2>2, <3>1, <4>2, <5>2
      <4> QED
        BY <4>3, <4>4
    <3>4. CASE GoesOn(stack[L], err) /\ stack[L].phase = "catch"
      <4>1. stack'[L].i = At(stack[L]) + 1
        BY <1>6, <3>4 DEF Takes
      <4>2. At(stack[L]) > 1
        BY <3>1, <3>4, BlockFacts DEF Runs
      <4>3. 2 \in stack'[L].i..Len(Blocks[stack[L].node])
        BY <2>2, <3>1, <3>4 DEF BeforeCatch, Ahead
      <4> QED
        BY <3>1, <4>1, <4>2, <4>3
    <3> QED
      BY <2>2, <3>1, <3>2, <3>3, <3>4
  <2> QED
    BY <2>1, <2>2
<1> QED
  BY <1>3, <1>4, <1>5, <1>6, StepKinds

LEMMA TryPair ==
  ASSUME NEW p \in Places, NEW k \in Pairs(p), NEW a, NEW b, PairIs(p, k, a, b), Kind[a] = "try"
  PROVE  /\ k = 1 /\ p \in Nodes /\ Kind[p] = "tryCatch"
         /\ a = Blocks[p][1] /\ a \in Nodes
         /\ 2 \in 1..Len(Blocks[p]) /\ b = Blocks[p][2] /\ b \in Nodes
<1>1. a = Blocks[p][k] /\ b = Blocks[p][k + 1]
  BY DEF PairIs
<1>2. k \in 1..Len(Blocks[p]) /\ k + 1 \in 1..Len(Blocks[p]) /\ a \in Nodes /\ b \in Nodes
  BY <1>1, PairFacts
<1>3. k = 1 /\ p \in Nodes /\ Kind[p] = "tryCatch"
  BY <1>1, <1>2, BlockFacts
<1>4. k + 1 = 2
  BY <1>3
<1> QED
  BY <1>1, <1>2, <1>3, <1>4

LEMMA CatchKnowsStep ==
  ASSUME EngineInv, LoopInv, TreeInv, NameInv, [Next]_vars
  PROVE  CatchKnowsItsError'
<1> SUFFICES ASSUME pc' = "check", Top'.i = 1,
                    NEW p \in Places, NEW k \in Pairs(p), NEW a, NEW b, PairIs(p, k, a, b),
                    Kind[a] = "try", Kind[b] = "catch", b = Top'.node
             PROVE  errorNode' \in Subtree[a]
  BY DEF CatchKnowsItsError, PairIs
<1>1. /\ a \in Nodes /\ b \in Nodes /\ k = 1 /\ p \in Nodes /\ Kind[p] = "tryCatch"
      /\ a = Blocks[p][1]
  BY TryPair
<1>2. 2 \in 1..Len(Blocks[p]) /\ b = Blocks[p][2]
  BY TryPair
<1>3. Len(stack) \in Frames /\ Top = stack[Len(stack)] /\ PhaseFits(Top) /\ Top \in Frame
  BY FrameFacts, StackIsSound DEF Frames, LoopInv, PhasesFit
<1>4. CASE StayPut
  <2>1. pc = "check" /\ Top' = Top /\ errorNode' = errorNode
    BY <1>4 DEF StayPut, Top
  <2> QED
    BY <2>1 DEF NameInv, CatchKnowsItsError, PairIs
<1>5. CASE IntoCatch
  <2>1. Top'.node = Top.node /\ Top.phase = "try"
    BY <1>5, IntoCatchStack DEF IntoCatch, Top
  <2> QED
    BY <1>3, <2>1 DEF PhaseFits
<1>6. ASSUME NEW n \in Nodes, Enters(n) PROVE errorNode' \in Subtree[a]
  <2>1. NewFrame(n, PhaseOf(n)).node = n
    BY DEF NewFrame
  <2>2. Starts(n) /\ n = b /\ errorNode' = errorNode
    BY <1>6, <2>1, EntersStack DEF Enters, Top
  <2>3. /\ HasNext(Top) /\ At(Top) \in 1..Len(Blocks[Top.node]) /\ Top.node \in Places
        /\ b = Blocks[Top.node][At(Top)] /\ Runs(Top.phase, Kind[b]) /\ pc = "start"
        /\ b = Child(Top)
    BY <2>2, StartsFacts
  <2>4. Top.node = p /\ At(Top) = 2
    <3>1. Blocks[Top.node][At(Top)] = Blocks[p][2]
      BY <1>2, <2>3
    <3> QED
      BY <1>2, <2>3, <3>1, OnePlace
  <2>5. Top.phase = "catch" /\ Top.errs # {}
    BY <1>1, <1>3, <2>3, <2>4 DEF PhaseFits, Runs
  <2>6. 2 \in Ahead(Top) /\ ~(starts[Blocks[Top.node][2]] > 0)
    BY <1>3, <2>3, <2>4, AtIsFirst, FreshChild
  <2>7. Sure
    BY <2>3 DEF Sure
  <2> QED
    BY <1>1, <1>3, <2>2, <2>4, <2>5, <2>6, <2>7 DEF NameInv, KnowsTry, BeforeCatch
<1>7. ASSUME NEW n \in Nodes, NEW err \in SUBSET Errors, NEW L \in 1..Len(stack),
             Takes(L, n, err)
      PROVE  FALSE
  <2>1. /\ Len(stack') = L /\ GoesOn(stack[L], err)
        /\ stack'[L].i = At(stack[L]) + 1 /\ stack[L] \in Frame /\ HasNext(stack[L])
    BY <1>7 DEF Takes
  <2>2. At(stack[L]) \in 1..Len(Blocks[stack[L].node])
    BY <2>1, AtIsFirst
  <2>3. Top' = stack'[L]
    BY <2>1 DEF Top
  <2> QED
    BY <2>1, <2>2, <2>3
<1> QED
  BY <1>4, <1>5, <1>6, <1>7, StepKinds DEF Works

LEMMA NameInvHolds == Spec => []NameInv
<1>1. Init => NameInv
  <2> SUFFICES ASSUME Init PROVE NameInv
    OBVIOUS
  <2>1. Len(stack) = 1 /\ stack[1] = NewFrame(Root, "blocks") /\ pc = "check"
    BY DEF Init
  <2>2. stack[1].errs = {} /\ Frames = {1} /\ Top.node = Root
    BY <2>1 DEF NewFrame, Frames, Top
  <2>3. CatchKnowsItsError
    BY <2>2, PairFacts, RootAssumption DEF CatchKnowsItsError
  <2> QED
    BY <2>1, <2>2, <2>3 DEF NameInv, KnowsNode, KnowsTry
<1>2. ASSUME EngineInv, LoopInv, TreeInv, NameInv, [Next]_vars PROVE NameInv'
  <2>1. KnowsNode /\ KnowsTry
    BY <1>2 DEF NameInv
  <2> QED
    BY <1>2, <2>1, KnowsNodeStep, KnowsTryStep, CatchKnowsStep DEF NameInv
<1> QED
  BY <1>1, <1>2, EngineInvariant, LoopInvHolds, TreeInvHolds, PTL DEF Spec

\* When the catch block after a try block begins, error.nodeId names a node of the try.
THEOREM CatchKnowsItsErrorHolds == Spec => []CatchKnowsItsError
BY NameInvHolds, PTL DEF NameInv
=============================================================================
