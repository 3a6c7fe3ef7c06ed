--------------------------- MODULE WorkflowRules ---------------------------
(****************************************************************************)
(* One workflow rule: WorkflowService.evaluateRuleInternal, for the daily   *)
(* cron and for a manager who evaluates the rule by hand.  An evaluation    *)
(* lists the entities that match; for each it looks for an execution of the *)
(* rule on it, runs the action if there is none, and then records the       *)
(* execution.  An error of the action or of the record is logged, and the   *)
(* evaluation goes on.                                                      *)
(****************************************************************************)
EXTENDS Integers, FiniteSets

CONSTANTS
    Evaluations,  \* the evaluations that may overlap
    Daily,        \* that of the cron
    Targets,      \* the entities that may match
    MaxManual, MaxResets, MaxActionErrors  \* bounds

ASSUME RulesAssumption ==
    /\ Daily \in Evaluations
    /\ MaxManual \in Nat /\ MaxResets \in Nat /\ MaxActionErrors \in Nat

VARIABLES
    matching,     \* the entities that the trigger finds
    executions,   \* those with a WorkflowExecution
    eval,         \* where each evaluation is, and what it has listed
    manual, resets, actionErrors,
    acts,         \* history: how often the action was run on each since the
                  \* executions were reset
    repeatable    \* history: the entities on which two evaluations were about
                  \* to act at a time, or one did not record what it did

ruleVars == <<matching, executions, eval, manual, resets, actionErrors, acts, repeatable>>

RulesTypeOK ==
    /\ matching \subseteq Targets /\ executions \subseteq Targets
    /\ \A e \in Evaluations : /\ eval[e].at \in {"idle", "look", "act", "record"}
                              /\ eval[e].todo \subseteq Targets
                              /\ eval[e].at \in {"act", "record"} <=> eval[e].now # {}
    /\ manual \in 0..MaxManual /\ resets \in 0..MaxResets /\ actionErrors \in 0..MaxActionErrors
    /\ acts \in [Targets -> Nat] /\ repeatable \subseteq Targets

NoEval == [at |-> "idle", todo |-> {}, now |-> {}]

RulesInit ==
    /\ matching = Targets /\ executions = {}
    /\ eval = [e \in Evaluations |-> NoEval]
    /\ manual = 0 /\ resets = 0 /\ actionErrors = 0
    /\ acts = [t \in Targets |-> 0] /\ repeatable = {}

StartEvaluation(e) ==
    /\ eval[e].at = "idle" /\ matching # {}
    /\ e # Daily => manual < MaxManual
    /\ manual' = IF e = Daily THEN manual ELSE manual + 1
    /\ eval' = [eval EXCEPT ![e] = [at |-> "look", todo |-> matching, now |-> {}]]
    /\ UNCHANGED <<matching, executions, resets, actionErrors, acts, repeatable>>

\* An entity without an execution is taken on, one with an execution passed over.
Rivals(e, t) == {d \in Evaluations \ {e} : eval[d].now = {t}}

LookForExecution(e) ==
    /\ eval[e].at = "look"
    /\ \E t \in eval[e].todo :
         IF t \in executions
         THEN eval' = [eval EXCEPT ![e].todo = @ \ {t}] /\ UNCHANGED repeatable
         ELSE /\ eval' = [eval EXCEPT ![e] = [at |-> "act", todo |-> @.todo \ {t}, now |-> {t}]]
              /\ repeatable' = IF Rivals(e, t) = {} THEN repeatable ELSE repeatable \cup {t}
    /\ UNCHANGED <<matching, executions, manual, resets, actionErrors, acts>>

Released(e) == eval' = [eval EXCEPT ![e].at = "look", ![e].now = {}]

\* A task is created, or notifications are pushed.
ActsOn(e) == \E t \in eval[e].now : acts' = [acts EXCEPT ![t] = @ + 1]
RunAction(e) ==
    /\ eval[e].at = "act"
    /\ ActsOn(e)
    /\ eval' = [eval EXCEPT ![e].at = "record"]
    /\ UNCHANGED <<matching, executions, manual, resets, actionErrors, repeatable>>

\* What a failure leaves: nothing done, an action that is not recorded, or one that
\* is done in part, as some of those to be notified were when one could not be.
Leaves(e) ==
    \/ eval[e].at # "record" /\ UNCHANGED <<acts, repeatable>>
    \/ /\ eval[e].at \in {"act", "record"}
       /\ repeatable' = repeatable \cup eval[e].now
       /\ IF eval[e].at = "act" THEN ActsOn(e) ELSE UNCHANGED acts

\* The action fails, or its record: the evaluation goes on.
ActionFails(e) ==
    /\ eval[e].at \in {"act", "record"} /\ actionErrors < MaxActionErrors
    /\ actionErrors' = actionErrors + 1
    /\ Released(e) /\ Leaves(e)
    /\ UNCHANGED <<matching, executions, manual, resets>>

\* The key of the executions refuses a second one, which is logged.
Recorded_Slip(e) == {}
Recorded(e) == eval[e].now

RecordExecution(e) ==
    /\ eval[e].at = "record"
    /\ executions' = executions \cup Recorded(e)
    /\ Released(e)
    /\ UNCHANGED <<matching, manual, resets, actionErrors, acts, repeatable>>

EndEvaluation(e) ==
    /\ eval[e].at = "look" /\ eval[e].todo = {}
    /\ eval' = [eval EXCEPT ![e] = NoEval]
    /\ UNCHANGED <<matching, executions, manual, resets, actionErrors, acts, repeatable>>

\* The process dies.
EvaluationDies(e) ==
    /\ eval[e].at # "idle" /\ actionErrors < MaxActionErrors
    /\ actionErrors' = actionErrors + 1
    /\ eval' = [eval EXCEPT ![e] = NoEval] /\ Leaves(e)
    /\ UNCHANGED <<matching, executions, manual, resets>>

\* resetExecutions: the rule may act again on every entity.
ResetExecutions ==
    /\ resets < MaxResets /\ resets' = resets + 1
    /\ executions' = {} /\ acts' = [t \in Targets |-> 0]
    /\ repeatable' = repeatable \cup UNION {eval[e].now : e \in Evaluations}
    /\ UNCHANGED <<matching, eval, manual, actionErrors>>

\* External to the rule: an entity stops matching, an overdue invoice is paid.
StopsMatching(t) ==
    /\ t \in matching /\ matching' = matching \ {t}
    /\ UNCHANGED <<executions, eval, manual, resets, actionErrors, acts, repeatable>>

RunEvaluation(e) == LookForExecution(e) \/ RunAction(e) \/ RecordExecution(e) \/ EndEvaluation(e)

RulesNext ==
    \/ \E e \in Evaluations : \/ StartEvaluation(e) \/ RunEvaluation(e)
                              \/ ActionFails(e) \/ EvaluationDies(e)
    \/ ResetExecutions
    \/ \E t \in Targets : StopsMatching(t)

\* The cron comes every day, and works through its list.
RulesSpec == RulesInit /\ [][RulesNext]_ruleVars
             /\ WF_ruleVars(StartEvaluation(Daily)) /\ WF_ruleVars(RunEvaluation(Daily))

(***************************************************************************)
(* Properties.                                                             *)
(***************************************************************************)

\* A rule acts once on an entity until its executions are reset, however often
\* it is evaluated and whatever fails, unless two evaluations are about to act
\* on it at a time or what was done is not recorded, as the process died or a
\* part of it failed; and what is recorded was done.
FiredOnce ==
    \A t \in Targets \ repeatable : acts[t] <= 1 /\ (t \in executions => acts[t] = 1)

\* An entity that goes on matching is acted on in the end: an action that failed
\* is tried again the next day.
ActionLeft == ~(matching \subseteq executions)
RulesFire == []<>~ActionLeft
=============================================================================
