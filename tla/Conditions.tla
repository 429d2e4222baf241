----------------------------- MODULE Conditions -----------------------------
(* The condition of a branch of a workflow (internal/domain/expr, evaluated by *)
(* executor_condition.go).  The engine's model lets a branch be entered,       *)
(* skipped or fail as it likes; this module says which of the three an         *)
(* expression and the variables of the run lead to.                            *)
(*                                                                             *)
(* An expression is a record whose type says which of the five kinds it is.    *)
(* All variables are handed over as texts, a constant is a text, and the       *)
(* declared type says how to read it; what an operator computes is a Go bool,  *)
(* of type "boolean" too.  The texts are the few that tell the readings apart, *)
(* in the order Go compares them: "10" is less than "2" as a text and greater  *)
(* as a number.                                                                *)
EXTENDS Integers, Sequences

Texts == <<"10", "2", "false", "true">>
AsNumber == [t \in {"10", "2"} |-> IF t = "10" THEN 10 ELSE 2]
AsBoolean == [t \in {"false", "true"} |-> t = "true"]
Rank(text) == CHOOSE i \in DOMAIN Texts : Texts[i] = text

\* What the evaluation of an expression returns: a value, which is a Go string or
\* a Go bool, or an error.
Text(type, text) == [type |-> type, go |-> "string", text |-> text]
Bool(b) == [type |-> "boolean", go |-> "bool", text |-> IF b THEN "true" ELSE "false"]
Error == [type |-> "error", go |-> "error", text |-> "error"]

\* GetFloat64, GetBool: the reading of a value by its type may fail.
Reads(v) ==
  CASE v.type = "number" -> v.text \in DOMAIN AsNumber
    [] v.type = "boolean" -> v.text \in DOMAIN AsBoolean
    [] OTHER -> v.type = "string"

Ordered(op, l, r) ==
  CASE op = "gt" -> l > r [] op = "gte" -> l >= r [] op = "lt" -> l < r
    [] op = "lte" -> l <= r [] op = "eq" -> l = r [] op = "neq" -> l # r

\* GreaterThan, GreaterOrEqual, LessThan, LessOrEqual, Equal, NotEqual.
Compare(op, l, r) ==
  IF l.type # r.type \/ ~ Reads(l) \/ ~ Reads(r) THEN Error
  ELSE CASE l.type = "string" -> Bool(Ordered(op, Rank(l.text), Rank(r.text)))
         [] l.type = "number" -> Bool(Ordered(op, AsNumber[l.text], AsNumber[r.text]))
         [] l.type = "boolean" /\ op \in {"eq", "neq"} ->
              Bool((AsBoolean[l.text] = AsBoolean[r.text]) <=> (op = "eq"))
         [] OTHER -> Error

\* And, Or: both sides have been evaluated, and both are read.
Connect(op, l, r) ==
  IF l.type # "boolean" \/ r.type # "boolean" \/ ~ Reads(l) \/ ~ Reads(r) THEN Error
  ELSE Bool(IF op = "and" THEN AsBoolean[l.text] /\ AsBoolean[r.text]
                          ELSE AsBoolean[l.text] \/ AsBoolean[r.text])

Negate(v) == IF v.type = "boolean" /\ Reads(v) THEN Bool(~ AsBoolean[v.text]) ELSE Error

\* Eval: an error of either side is the error of the whole, there is no short
\* circuit.  variables maps an identifier of a node and a name to a text.
RECURSIVE Eval(_, _)
Eval(e, variables) ==
  CASE e.type = "const" -> Text(e.valueType, e.value)
    [] e.type = "var" -> IF e.selector \in DOMAIN variables
                           THEN Text(e.valueType, variables[e.selector]) ELSE Error
    [] e.type = "not" -> Negate(Eval(e.expr, variables))
    [] e.type = "comparison" ->
         Compare(e.operator, Eval(e.left, variables), Eval(e.right, variables))
    [] e.type = "logical" ->
         Connect(e.operator, Eval(e.left, variables), Eval(e.right, variables))

\* branchBlockNodeExecutor: what becomes of a branch.  Only the Go bool false
\* skips it.
Branch(e, variables) ==
  LET v == Eval(e, variables) IN
  IF v = Error THEN "fails" ELSE IF v = Bool(FALSE) THEN "skipped" ELSE "entered"
-----------------------------------------------------------------------------
(* What a condition means to the user who draws it in the editor: an           *)
(* expression whose parts have the types their operators ask for, and whose    *)
(* texts can be read, is true or false in the ordinary sense.                  *)
IsLeaf(e) == e.type \in {"const", "var"}
TextOf(e, variables) == IF e.type = "const" THEN e.value ELSE variables[e.selector]

RECURSIVE Sensible(_, _, _), True(_, _)
Sensible(e, type, variables) ==
  CASE IsLeaf(e) -> /\ e.valueType = type
                    /\ e.type = "var" => e.selector \in DOMAIN variables
                    /\ type = "number" => TextOf(e, variables) \in {"10", "2"}
                    /\ type = "boolean" => TextOf(e, variables) \in {"true", "false"}
    [] e.type = "not" -> type = "boolean" /\ Sensible(e.expr, "boolean", variables)
    [] e.type = "logical" -> /\ type = "boolean"
                             /\ Sensible(e.left, "boolean", variables)
                             /\ Sensible(e.right, "boolean", variables)
    [] e.type = "comparison" ->
         /\ type = "boolean"
         /\ \E t \in {"string", "number", "boolean"} :
              /\ Sensible(e.left, t, variables) /\ Sensible(e.right, t, variables)
              /\ t = "boolean" => e.operator \in {"eq", "neq"}

\* Precedes(l, r): l comes before r in the reading both have.
Precedes(l, r, variables) ==
  LET a == TextOf(l, variables)
      b == TextOf(r, variables)
  IN <<a, b>> \in IF l.valueType = "number" THEN {<<"2", "10">>}
                  ELSE {<<"10", "2">>, <<"10", "false">>, <<"10", "true">>,
                        <<"2", "false">>, <<"2", "true">>, <<"false", "true">>}
True(e, variables) ==
  CASE IsLeaf(e) -> TextOf(e, variables) = "true"
    [] e.type = "not" -> ~ True(e.expr, variables)
    [] e.type = "logical" /\ e.operator = "and" -> True(e.left, variables) /\ True(e.right, variables)
    [] e.type = "logical" /\ e.operator = "or" -> True(e.left, variables) \/ True(e.right, variables)
    [] ~ (IsLeaf(e.left) /\ IsLeaf(e.right)) ->      \* booleans: eq or neq
         (True(e.left, variables) <=> True(e.right, variables)) <=> e.operator = "eq"
    [] e.operator = "lt" -> Precedes(e.left, e.right, variables)
    [] e.operator = "lte" -> ~ Precedes(e.right, e.left, variables)
    [] e.operator = "gt" -> Precedes(e.right, e.left, variables)
    [] e.operator = "gte" -> ~ Precedes(e.left, e.right, variables)
    [] e.operator = "eq" -> TextOf(e.left, variables) = TextOf(e.right, variables)
    [] e.operator = "neq" -> TextOf(e.left, variables) # TextOf(e.right, variables)
-----------------------------------------------------------------------------
\* The expressions the two are compared on: every comparison of two leaves, and
\* everything one and two connectives make of some of them.
Known == [selector \in {"ready", "days"} |-> IF selector = "ready" THEN "false" ELSE "10"]
Constants(texts) == [type : {"const"}, valueType : {"string", "number", "boolean"}, value : texts]
Variants == [type : {"var"}, valueType : {"number", "boolean"}, selector : {"ready", "days", "gone"}]
Comparisons(leaves) ==
  [type : {"comparison"}, operator : {"gt", "gte", "lt", "lte", "eq", "neq"},
   left : leaves, right : leaves]
Connected(parts) ==
  [type : {"logical"}, operator : {"and", "or"}, left : parts, right : parts]
    \cup [type : {"not"}, expr : parts]
    \cup [type : {"comparison"}, operator : {"eq", "neq", "lt"}, left : parts, right : parts]

AnyLeaf == Constants({"10", "2", "false", "true"}) \cup Variants
SomeLeaves == {[type |-> "const", valueType |-> "boolean", value |-> "true"],
               [type |-> "var", valueType |-> "boolean", selector |-> "ready"],
               [type |-> "var", valueType |-> "number", selector |-> "days"],
               [type |-> "const", valueType |-> "number", value |-> "2"]}
Once == Connected(SomeLeaves)
Compound == Comparisons(AnyLeaf) \cup Connected(Once \cup SomeLeaves)

\* The evaluation of a composed condition is an error exactly when the condition
\* makes no sense, and has its ordinary meaning otherwise; so a branch with such a
\* condition is entered exactly when it is true (expr.go, executor_condition.go).
ASSUME ConditionsMeanWhatTheySay ==
  \A e \in Compound :
    Branch(e, Known) = IF ~ Sensible(e, "boolean", Known) THEN "fails"
                       ELSE IF True(e, Known) THEN "entered" ELSE "skipped"

\* A lone value as the condition is never skipped, not even a variable whose
\* value is false: the text "false" is not the Go bool false
\* (executor_condition.go:84).
ASSUME LoneValuesAreEntered ==
  \A e \in AnyLeaf :
    Branch(e, Known) = IF e.type = "var" /\ e.selector \notin DOMAIN Known THEN "fails" ELSE "entered"
=============================================================================
