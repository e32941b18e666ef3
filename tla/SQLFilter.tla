------------------------------ MODULE SQLFilter ------------------------------
(***************************************************************************)
(* The transaction filter: the classifier's verdict on a statement, the    *)
(* rule matrix of a filter mode, the keep/drop decision and the inference  *)
(* of the transaction status (src/pkg/filter).                             *)
(*                                                                         *)
(* SQL text is a non-empty sequence of statements, as separated by the     *)
(* semicolons outside quotes, comments and parentheses; a statement is the *)
(* kind the lexer and the leading-keyword tests make of it.                *)
(***************************************************************************)
EXTENDS Integers, Sequences, FiniteSets, SequencesExt

CONSTANTS Excluded,   \* texts that match an exclude pattern
          Included,   \* texts that match an include pattern or call a replayable procedure
          Overrides   \* cfg.Rules: a function on some of the classes

Kinds == {"call", "dml", "ddl", "begin", "commit", "rollbackTo", "savepoint",
          "set", "resetAll", "discardAll", "copyFrom", "copyTo", "select",
          "procSelect", "deallocateAll", "abort", "other"}

Status == {"Idle", "InTx", "Failed"}

\* allRuleClasses; "Unknown" has no rule.
RuleClasses == {"PlainSelect", "ProcSelect", "Call", "DML", "DDL", "Begin",
                "CommitRollback", "CopyFrom", "Utility"}
Classes == RuleClasses \union {"Unknown"}

\* Keywords the switch does not list, DEALLOCATE and ABORT among them, are Unknown.
classifySingle(kind) ==
  CASE kind = "call"       -> "Call"
    [] kind = "dml"        -> "DML"
    [] kind = "ddl"        -> "DDL"
    [] kind = "begin"      -> "Begin"
    [] kind = "commit"     -> "CommitRollback"
    [] kind \in {"rollbackTo", "savepoint", "set", "resetAll", "discardAll"} -> "Utility"
    [] kind = "copyFrom"   -> "CopyFrom"
    [] kind = "select"     -> "PlainSelect"
    [] kind = "procSelect" -> "ProcSelect"
    [] OTHER               -> "Unknown"

stmtClassPriority ==
  [class \in Classes |->
     CASE class = "Unknown"        -> 0
       [] class = "PlainSelect"    -> 1
       [] class = "Utility"        -> 2
       [] class = "ProcSelect"     -> 3
       [] class = "CopyFrom"       -> 4
       [] class \in {"DML", "Call"} -> 5
       [] class = "DDL"            -> 6
       [] class = "Begin"          -> 7
       [] class = "CommitRollback" -> 8]

Classify_Last(sql) == classifySingle(sql[Len(sql)])
\* The first statement of the highest priority names the class of the batch.
Classify(sql) ==
  LET pri(i) == stmtClassPriority[classifySingle(sql[i])]
      best   == CHOOSE i \in DOMAIN sql : /\ \A j \in DOMAIN sql : pri(j) <= pri(i)
                                          /\ \A j \in 1..(i - 1) : pri(j) < pri(i)
  IN  classifySingle(sql[best])

Keep == "keep"
Drop == "drop"
Rule(in, out) == [in |-> in, out |-> out]

defaultRules ==
  [class \in RuleClasses |-> Rule(Keep, IF class = "PlainSelect" THEN Drop ELSE Keep)]

onlyKeep(kept) ==
  [class \in RuleClasses |-> IF class = kept THEN Rule(Keep, Keep) ELSE Rule(Drop, Drop)]

resolveRules(mode) ==
  CASE mode = "custom"     -> [class \in RuleClasses |-> IF class \in DOMAIN Overrides
                                                         THEN Overrides[class]
                                                         ELSE defaultRules[class]]
    [] mode = "write_only" -> [defaultRules EXCEPT !["PlainSelect"] = Rule(Drop, Drop)]
    [] mode = "all"        -> [defaultRules EXCEPT !["PlainSelect"] = Rule(Keep, Keep)]
    [] mode = "ddl_only"   -> onlyKeep("DDL")
    [] mode = "dml_only"   -> onlyKeep("DML")

ruleAction(mode, class, status) ==
  IF status = "InTx" THEN resolveRules(mode)[class].in ELSE resolveRules(mode)[class].out

Decide(mode, sql, status) ==
  LET class == Classify(sql)
  IN  IF sql \in Excluded \/ class = "Unknown" THEN Drop
      ELSE IF class \in {"PlainSelect", "ProcSelect"} /\ sql \in Included THEN Keep
      ELSE ruleAction(mode, class, status)

\* The inference from the request stream alone.
OnStatement(status, class) ==
  CASE class = "Begin"          -> "InTx"
    [] class = "CommitRollback" -> "Idle"
    [] OTHER                    -> status
=============================================================================
