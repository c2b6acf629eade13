----------------------------- MODULE StepRunner -----------------------------
(***************************************************************************)
(* The execution of a plan by the agent: the graph of its steps (dag.rs),  *)
(* the runner of one step (runner.rs) and the store that keeps each step's *)
(* status across restarts (agent-store).  The process may die between any  *)
(* two of its writes and calls, and every save and every call may fail.    *)
(*                                                                         *)
(* Nothing in the repository calls run_step outside of tests.  The caller  *)
(* is modelled by what the functions are made for: it validates the graph, *)
(* runs the steps runnable() returns, stores what block_downstream() marks,*)
(* runs a step again that a restart or an error left unfinished, and never *)
(* runs one step twice at the same time.  A connector is modelled by its   *)
(* contract: execute answers Ok only when the effect took place, verify    *)
(* answers true only when it is there.                                     *)
(***************************************************************************)
EXTENDS FiniteSets, Naturals

CONSTANTS
  Steps,     \* ids of the plan's steps
  Unknown,   \* an id that is no step's
  MaxCalls   \* bound: calls of execute for one step

ASSUME StepRunnerAssumption ==
  /\ IsFiniteSet(Steps)
  /\ Unknown \notin Steps
  /\ MaxCalls \in Nat \ {0}

VARIABLES
  deps,     \* the dependencies of each step, as submitted
  plan,     \* whether the plan is submitted, accepted or rejected
  stored,   \* the status of each step in the store
  run,      \* what run_step does next for a step, or "idle"
  calls,    \* how often execute was called for a step
  effect    \* whether the step's effect is in place at the customer's system

vars == <<deps, plan, stored, run, calls, effect>>

Unsuccessful == {"failed", "needs_review", "blocked"}
Final        == {"succeeded"} \cup Unsuccessful
Unfinished   == {"prepared", "in_flight", "verifying"}
Statuses     == {"pending"} \cup Unfinished \cup Final

-----------------------------------------------------------------------------
(* The graph.                                                              *)

\* A wrong version, which never looks behind the first dependency; likewise
\* every operator named Bad... is a slip that some property must notice.
BadHasCycle(s) == \E d \in deps[s] : s \in deps[d]

\* has_cycle: the search comes back to a step it is visiting.
HasCycle(s) ==
  LET from[visiting \in SUBSET Steps] ==
        [id \in Steps |-> \/ id \in visiting
                          \/ \E d \in deps[id] : from[visiting \cup {id}][d]]
  IN  from[{}][s]

\* validate_dag
ValidDag ==
  /\ \A s \in Steps : deps[s] \subseteq Steps \ {s}
  /\ \A s \in Steps : ~HasCycle(s)

\* runnable
Runnable ==
  {s \in Steps : /\ stored[s] = "pending"
                 /\ \A d \in deps[s] : stored[d] = "succeeded"}

\* One pass of the loop of block_downstream.
BlockedOnce(status) ==
  [s \in Steps |->
     IF /\ status[s] = "pending"
        /\ \E d \in deps[s] : status[d] \in Unsuccessful
       THEN "blocked" ELSE status[s]]

\* Leaves after the first pass.
BadBlockDownstream(status) == BlockedOnce(status)

\* block_downstream: passes until nothing changes, at most one for each step.
BlockDownstream(status) ==
  LET after[n \in 0..Cardinality(Steps)] ==
        IF n = 0 THEN status ELSE BlockedOnce(after[n - 1])
  IN  after[Cardinality(Steps)]

-----------------------------------------------------------------------------
(* The caller.                                                             *)

Validate ==
  /\ plan = "submitted"
  /\ plan' = IF ValidDag THEN "accepted" ELSE "rejected"
  /\ UNCHANGED <<deps, stored, run, calls, effect>>

\* What run_step does first for a step whose status it has read: a final one
\* is answered at once.
Entry(status) ==
  CASE status = "pending"   -> "prepare"
    [] status = "prepared"  -> "start"
    [] status = "in_flight" -> "reconcile"
    [] status = "verifying" -> "verify"
    [] OTHER -> "idle"

\* A call of run_step for a runnable step or, again, for one that is not
\* pending any more.
Begin(s) ==
  /\ plan = "accepted"
  /\ run[s] = "idle"
  /\ s \in Runnable \/ stored[s] # "pending"
  /\ run' = [run EXCEPT ![s] = Entry(stored[s])]
  /\ UNCHANGED <<deps, plan, stored, calls, effect>>

\* What block_downstream marked is stored step by step.
Block(s) ==
  /\ plan = "accepted"
  /\ run[s] = "idle"
  /\ stored[s] = "pending"
  /\ BlockDownstream(stored)[s] = "blocked"
  /\ stored' = [stored EXCEPT ![s] = "blocked"]
  /\ UNCHANGED <<deps, plan, run, calls, effect>>

-----------------------------------------------------------------------------
(* run_step, one save or one call at a time.                               *)

\* run_step is at a save of the given status and goes on with next.
Save(s, at, status, next) ==
  /\ run[s] = at
  /\ stored' = [stored EXCEPT ![s] = status]
  /\ run' = [run EXCEPT ![s] = next]
  /\ UNCHANGED <<deps, plan, calls, effect>>

Prepare(s) == Save(s, "prepare", "prepared", "start")

\* Calls the connector first and records the intent with the outcome.
BadStart(s) ==
  /\ run[s] = "start"
  /\ run' = [run EXCEPT ![s] = "execute"]
  /\ UNCHANGED <<deps, plan, stored, calls, effect>>

Start(s) == Save(s, "start", "in_flight", "execute")

\* The call leaves; its effect may take place before its outcome is known.
Execute(s) ==
  /\ run[s] = "execute"
  /\ calls[s] < MaxCalls
  /\ calls' = [calls EXCEPT ![s] = @ + 1]
  /\ \E done \in {effect[s], TRUE} : effect' = [effect EXCEPT ![s] = done]
  /\ run' = [run EXCEPT ![s] = "called"]
  /\ UNCHANGED <<deps, plan, stored>>

\* Repeats a call whose outcome is uncertain.
BadAfterUncertain == "execute"

\* An uncertain outcome is reconciled, never executed again.
AfterUncertain == "reconcile"

\* The outcome: Ok, an uncertain error, or an error that is certain.
Executed(s) ==
  /\ run[s] = "called"
  /\ \/ /\ effect[s]
        /\ run' = [run EXCEPT ![s] = "record"]
     \/ run' = [run EXCEPT ![s] = AfterUncertain]
     \/ run' = [run EXCEPT ![s] = "fail"]
  /\ UNCHANGED <<deps, plan, stored, calls, effect>>

\* An error leaves the step in flight.
Reconcile(s) ==
  /\ run[s] = "reconcile"
  /\ run' \in {[run EXCEPT ![s] = "record"], [run EXCEPT ![s] = "idle"]}
  /\ UNCHANGED <<deps, plan, stored, calls, effect>>

Record(s) == Save(s, "record", "verifying", "verify")

\* Takes the answer for a success whatever it says.
BadVerdicts(s) == {"succeed", "fail"}

\* true, false or an uncertain error, and an error that is certain.
Verdicts(s) == {"review", "fail"} \cup (IF effect[s] THEN {"succeed"} ELSE {})

Verify(s) ==
  /\ run[s] = "verify"
  /\ \E verdict \in Verdicts(s) : run' = [run EXCEPT ![s] = verdict]
  /\ UNCHANGED <<deps, plan, stored, calls, effect>>

Settle(s) ==
  \/ Save(s, "succeed", "succeeded", "idle")
  \/ Save(s, "review", "needs_review", "idle")
  \/ Save(s, "fail", "failed", "idle")

\* A save fails: run_step returns its error and nothing is stored.
StoreError(s) ==
  /\ run[s] \in {"prepare", "start", "record", "succeed", "review", "fail"}
  /\ run' = [run EXCEPT ![s] = "idle"]
  /\ UNCHANGED <<deps, plan, stored, calls, effect>>

\* The process dies and starts again: the store and the effects remain.
Crash ==
  /\ \E s \in Steps : run[s] # "idle"
  /\ run' = [s \in Steps |-> "idle"]
  /\ UNCHANGED <<deps, plan, stored, calls, effect>>

-----------------------------------------------------------------------------
Init ==
  /\ deps \in [Steps -> SUBSET (Steps \cup {Unknown})]
  /\ plan = "submitted"
  /\ stored = [s \in Steps |-> "pending"]
  /\ run = [s \in Steps |-> "idle"]
  /\ calls = [s \in Steps |-> 0]
  /\ effect = [s \in Steps |-> FALSE]

RunStep(s) ==
  \/ Begin(s) \/ Prepare(s) \/ Start(s) \/ Execute(s) \/ Executed(s)
  \/ Reconcile(s) \/ Record(s) \/ Verify(s) \/ Settle(s) \/ StoreError(s)

Next ==
  \/ Validate
  \/ Crash
  \/ \E s \in Steps : RunStep(s) \/ Block(s)

Spec == Init /\ [][Next]_vars

-----------------------------------------------------------------------------
(* The type invariant.                                                     *)
TypeOK ==
  /\ deps \in [Steps -> SUBSET (Steps \cup {Unknown})]
  /\ plan \in {"submitted", "accepted", "rejected"}
  /\ stored \in [Steps -> Statuses]
  /\ run \in [Steps -> {"idle", "prepare", "start", "execute", "called",
                        "reconcile", "record", "verify", "succeed",
                        "review", "fail"}]
  /\ calls \in [Steps -> Nat]
  /\ effect \in [Steps -> BOOLEAN]

(* A destructive call is made at most once for a step, wherever the agent  *)
(* dies, whatever outcome gets lost and however often the step is resumed. *)
ExecutedAtMostOnce == \A s \in Steps : calls[s] <= 1

(* "Persist intent before effects": an effect that took place is never     *)
(* hidden behind a status that says the step has not begun.                *)
EffectIsRecorded ==
  \A s \in Steps :
    effect[s] => stored[s] \notin {"pending", "prepared", "blocked"}

(* A step is executed only on top of verified effects: every step it       *)
(* depends on has succeeded, and its effect is in place.                   *)
PrerequisitesInPlace ==
  \A s \in Steps : calls[s] > 0 =>
    \A d \in deps[s] : stored[d] = "succeeded" /\ effect[d]

(* A step with a final status keeps it: no restart, no late outcome and no *)
(* blocking of its dependants reopens it.                                  *)
FinalIsFinal ==
  [][\A s \in Steps : stored[s] \in Final => stored'[s] = stored[s]]_vars

\* The steps a step depends on, at any distance.
Upstream(s) ==
  LET within[n \in 0..Cardinality(Steps)] ==
        IF n = 0 THEN deps[s]
        ELSE within[n - 1] \cup UNION {deps[d] : d \in within[n - 1]}
  IN  within[Cardinality(Steps)]

(* One call of block_downstream marks exactly the pending steps that have  *)
(* an unsuccessful step somewhere upstream.                                *)
BlockingIsExact ==
  plan = "accepted" =>
    \A s \in Steps : stored[s] = "pending" =>
      (BlockDownstream(stored)[s] = "blocked" <=>
         \E d \in Upstream(s) : stored[d] \in Unsuccessful)

(* An accepted plan is never stuck: as long as a step has no final status, *)
(* some step is running, can be resumed, is runnable or is to be blocked.  *)
NeverStuck ==
  plan = "accepted" /\ (\E s \in Steps : stored[s] \notin Final) =>
    \/ Runnable # {}
    \/ \E s \in Steps : \/ stored[s] \in Unfinished
                        \/ /\ stored[s] = "pending"
                           /\ BlockDownstream(stored)[s] = "blocked"
=============================================================================
