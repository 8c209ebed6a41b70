------------------------------ MODULE MCStores ------------------------------
(***************************************************************************)
(* Four components of the row store and its callers, each on its own: the  *)
(* recovery of a failed runtime, the requirement questions, the task tree  *)
(* and an audit batch.  They share no state; part says which of them a     *)
(* behaviour is about.                                                     *)
(***************************************************************************)
EXTENDS RuntimeRecovery, QuestionBatches, TaskTree, AuditBatch, TLC

CONSTANTS
  v, s, l,   \* profiles: of unknown capacity, small, large
  Parts      \* the components the instance is about

SomeCapacity ==
  [p \in {v, s, l} |-> CASE p = s -> 1 [] p = l -> 2 [] OTHER -> 0]
SomeRoute == [p \in {v, s, l} |-> IF p = s THEN l ELSE p]

(* Tasks that are no synthesis tasks are alike.                            *)
TaskSymmetry == Permutations(Tasks \ SynthesisTasks)

VARIABLE part

storeVars == <<recoveryVars, questionVars, treeVars, auditVars, part>>

(* A component a behaviour is not about stays in one initial state.        *)
StoresInit ==
  /\ RecoveryInit /\ QuestionsInit /\ TreeInit /\ AuditInit
  /\ part \in Parts
  /\ part # "recovery" => ~auto /\ ~report /\ base = v
  /\ part # "questions" => ~audit

StoresNext ==
  \/ part = "recovery" /\ RecoveryNext
       /\ UNCHANGED <<questionVars, treeVars, auditVars, part>>
  \/ part = "questions" /\ QuestionsNext
       /\ UNCHANGED <<recoveryVars, treeVars, auditVars, part>>
  \/ part = "tree" /\ TreeNext
       /\ UNCHANGED <<recoveryVars, questionVars, auditVars, part>>
  \/ part = "audit" /\ AuditNext
       /\ UNCHANGED <<recoveryVars, questionVars, treeVars, part>>

StoresSpec == StoresInit /\ [][StoresNext]_storeVars
=============================================================================
