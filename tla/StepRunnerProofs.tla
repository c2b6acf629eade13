-------------------------- MODULE StepRunnerProofs --------------------------
(***************************************************************************)
(* Theorems about the execution of a plan, for any finite set of steps and *)
(* any graph.  What decides them is how the place a run has reached and    *)
(* the stored status of its step constrain each other: IInv adds that to   *)
(* the invariants of the run.                                              *)
(*                                                                         *)
(* The algorithms of dag.rs are recursive functions: each is shown to      *)
(* exist, and then what it computes, by induction written out with sets of *)
(* natural numbers.  Passes over the steps, and the steps upstream, stop   *)
(* growing after as many rounds as there are steps (ChainSettles).         *)
(***************************************************************************)
EXTENDS StepRunner, FiniteSetTheorems, WellFoundedInduction, TLAPS

(* Where a run may be, given the stored status of its step, and what is    *)
(* known of the calls and the effect then.                                 *)
RunMatchesStore ==
  \A s \in Steps :
    /\ run[s] = "prepare" => stored[s] = "pending"
    /\ run[s] = "start" => stored[s] = "prepared"
    /\ run[s] \in {"execute", "called", "reconcile", "record"} =>
         stored[s] = "in_flight"
    /\ run[s] = "fail" => stored[s] \in {"in_flight", "verifying"}
    /\ run[s] \in {"verify", "succeed", "review"} => stored[s] = "verifying"
    /\ run[s] = "succeed" => effect[s]

(* No call is made before the step is recorded as in flight, and none is   *)
(* left to make once one was made.                                         *)
CallsMatchStore ==
  \A s \in Steps :
    /\ stored[s] \in {"pending", "prepared", "blocked"} => calls[s] = 0
    /\ run[s] = "execute" => calls[s] = 0
    /\ effect[s] => calls[s] > 0
    /\ stored[s] = "succeeded" => effect[s]

(* A step that has left pending, or is about to, has its dependencies.     *)
DependenciesSucceeded ==
  \A s \in Steps :
    stored[s] \notin {"pending", "blocked"} \/ run[s] = "prepare" =>
      \A d \in deps[s] : d \in Steps /\ stored[d] = "succeeded"

IInv ==
  /\ TypeOK
  /\ plan = "accepted" => \A s \in Steps : deps[s] \subseteq Steps
  /\ plan # "accepted" => \A s \in Steps : run[s] = "idle"
  /\ RunMatchesStore
  /\ CallsMatchStore
  /\ ExecutedAtMostOnce
  /\ DependenciesSucceeded

-----------------------------------------------------------------------------
(* A save that fits the place the run goes on to keeps the invariant.      *)
LEMMA SaveKeepsIInv ==
  ASSUME IInv, NEW s \in Steps, NEW at,
         NEW status \in Statuses \ {"pending", "blocked"},
         NEW next \in {"idle", "start", "execute", "verify"},
         Save(s, at, status, next),
         at # "idle",
         stored[s] # "succeeded",
         next = "start" => status = "prepared",
         next = "execute" => status = "in_flight" /\ calls[s] = 0,
         next = "verify" => status = "verifying",
         status = "prepared" => calls[s] = 0,
         status = "succeeded" => effect[s],
         \A d \in deps[s] : d \in Steps /\ stored[d] = "succeeded"
  PROVE  IInv'
<1>1. /\ run[s] = at
      /\ stored' = [stored EXCEPT ![s] = status]
      /\ run' = [run EXCEPT ![s] = next]
      /\ UNCHANGED <<deps, plan, calls, effect>>
  BY DEF Save
<1>2. TypeOK'
  BY <1>1 DEF IInv, TypeOK
<1>3. RunMatchesStore'
  BY <1>1 DEF IInv, TypeOK, RunMatchesStore
<1>4. CallsMatchStore'
  BY <1>1 DEF IInv, TypeOK, CallsMatchStore
<1>5. DependenciesSucceeded'
  BY <1>1 DEF IInv, TypeOK, DependenciesSucceeded
<1>6. plan = "accepted"
  BY <1>1 DEF IInv
<1> QED
  BY <1>1, <1>2, <1>3, <1>4, <1>5, <1>6 DEF IInv, ExecutedAtMostOnce

(* So does a step of the run that saves nothing.                           *)
LEMMA MoveKeepsIInv ==
  ASSUME IInv, NEW s \in Steps,
         NEW next \in {"idle", "prepare", "start", "called", "reconcile",
                       "record", "verify", "succeed", "review", "fail"},
         run' = [run EXCEPT ![s] = next],
         UNCHANGED <<deps, plan, stored, calls, effect>>,
         plan = "accepted",
         next = "prepare" =>
           /\ stored[s] = "pending"
           /\ \A d \in deps[s] : stored[d] = "succeeded",
         next = "start" => stored[s] = "prepared",
         next \in {"called", "reconcile", "record"} => stored[s] = "in_flight",
         next = "fail" => stored[s] \in {"in_flight", "verifying"},
         next \in {"verify", "succeed", "review"} => stored[s] = "verifying",
         next = "succeed" => effect[s]
  PROVE  IInv'
<1>1. TypeOK'
  BY DEF IInv, TypeOK
<1>2. RunMatchesStore'
  BY DEF IInv, TypeOK, RunMatchesStore
<1>3. CallsMatchStore'
  BY DEF IInv, TypeOK, CallsMatchStore
<1>4. DependenciesSucceeded'
  BY DEF IInv, TypeOK, DependenciesSucceeded
<1> QED
  BY <1>1, <1>2, <1>3, <1>4 DEF IInv, ExecutedAtMostOnce

(* The initial states satisfy the inductive invariant.                     *)
LEMMA InitIInv == ASSUME Init PROVE IInv
  BY DEF Init, IInv, TypeOK, RunMatchesStore, CallsMatchStore,
         ExecutedAtMostOnce, DependenciesSucceeded, Statuses

(* Every action keeps the inductive invariant.                             *)
LEMMA NextIInv == ASSUME IInv, [Next]_vars PROVE IInv'
<1> USE DEF IInv
<1>1. CASE Validate
  BY <1>1 DEF Validate, ValidDag, TypeOK, RunMatchesStore, CallsMatchStore,
              ExecutedAtMostOnce, DependenciesSucceeded
<1>2. CASE Crash
  BY <1>2 DEF Crash, TypeOK, RunMatchesStore, CallsMatchStore,
              ExecutedAtMostOnce, DependenciesSucceeded
<1>3. ASSUME NEW s \in Steps, Block(s) PROVE IInv'
  BY <1>3 DEF Block, TypeOK, RunMatchesStore, CallsMatchStore, Statuses, Final,
              Unsuccessful, ExecutedAtMostOnce, DependenciesSucceeded
<1>4. ASSUME NEW s \in Steps, Begin(s) PROVE IInv'
  <2> DEFINE next == Entry(stored[s])
  <2>1. /\ next \in {"idle", "prepare", "start", "reconcile", "verify"}
        /\ next = "prepare" => stored[s] = "pending"
        /\ next = "start" => stored[s] = "prepared"
        /\ next = "reconcile" => stored[s] = "in_flight"
        /\ next = "verify" => stored[s] = "verifying"
    BY DEF Entry
  <2>2. /\ run' = [run EXCEPT ![s] = next]
        /\ UNCHANGED <<deps, plan, stored, calls, effect>>
        /\ plan = "accepted"
        /\ stored[s] = "pending" => \A d \in deps[s] : stored[d] = "succeeded"
    BY <1>4 DEF Begin, Runnable
  <2> HIDE DEF next
  <2> QED BY <2>1, <2>2, MoveKeepsIInv
<1>5. ASSUME NEW s \in Steps, Prepare(s) PROVE IInv'
  <2>1. /\ stored[s] = "pending"
        /\ \A d \in deps[s] : d \in Steps /\ stored[d] = "succeeded"
    BY <1>5 DEF Prepare, Save, RunMatchesStore, DependenciesSucceeded
  <2> QED
    BY <1>5, <2>1, SaveKeepsIInv
    DEF Prepare, CallsMatchStore, Statuses, Unfinished
<1>6. ASSUME NEW s \in Steps, Start(s) PROVE IInv'
  <2>1. /\ stored[s] = "prepared"
        /\ \A d \in deps[s] : d \in Steps /\ stored[d] = "succeeded"
    BY <1>6 DEF Start, Save, RunMatchesStore, DependenciesSucceeded
  <2> QED
    BY <1>6, <2>1, SaveKeepsIInv
    DEF Start, CallsMatchStore, Statuses, Unfinished
<1>7. ASSUME NEW s \in Steps, Execute(s) PROVE IInv'
  <2>1. /\ stored[s] = "in_flight" /\ calls[s] = 0
        /\ calls' = [calls EXCEPT ![s] = 1]
        /\ run' = [run EXCEPT ![s] = "called"]
        /\ UNCHANGED <<deps, plan, stored>>
    <3>1. run[s] = "execute"
      BY <1>7 DEF Execute
    <3>2. stored[s] = "in_flight" /\ calls[s] = 0
      BY <3>1 DEF RunMatchesStore, CallsMatchStore
    <3>3. /\ calls' = [calls EXCEPT ![s] = calls[s] + 1]
          /\ run' = [run EXCEPT ![s] = "called"]
          /\ UNCHANGED <<deps, plan, stored>>
      BY <1>7 DEF Execute
    <3>4. calls[s] + 1 = 1
      BY <3>2
    <3> QED BY <3>2, <3>3, <3>4
  <2>2. PICK done \in {effect[s], TRUE} : effect' = [effect EXCEPT ![s] = done]
    BY <1>7 DEF Execute
  <2>3. TypeOK'
    BY <2>1, <2>2 DEF TypeOK
  <2>4. RunMatchesStore' /\ ExecutedAtMostOnce'
    BY <2>1, <2>2 DEF TypeOK, RunMatchesStore, ExecutedAtMostOnce
  <2>5. CallsMatchStore'
    BY <2>1, <2>2 DEF TypeOK, CallsMatchStore
  <2>6. DependenciesSucceeded'
    BY <2>1 DEF TypeOK, DependenciesSucceeded
  <2>7. plan = "accepted"
    BY <1>7 DEF Execute
  <2> QED BY <2>1, <2>3, <2>4, <2>5, <2>6, <2>7
<1>8. ASSUME NEW s \in Steps, Executed(s) PROVE IInv'
  <2>1. PICK next \in {"record", "reconcile", "fail"} :
          /\ run' = [run EXCEPT ![s] = next]
          /\ UNCHANGED <<deps, plan, stored, calls, effect>>
    BY <1>8 DEF Executed, AfterUncertain
  <2>2. stored[s] = "in_flight"
    BY <1>8 DEF Executed, RunMatchesStore
  <2>3. plan = "accepted"
    BY <1>8 DEF Executed
  <2> QED BY <2>1, <2>2, <2>3, MoveKeepsIInv
<1>9. ASSUME NEW s \in Steps, Reconcile(s) PROVE IInv'
  <2>1. PICK next \in {"record", "idle"} :
          /\ run' = [run EXCEPT ![s] = next]
          /\ UNCHANGED <<deps, plan, stored, calls, effect>>
    BY <1>9 DEF Reconcile
  <2>2. stored[s] = "in_flight"
    BY <1>9 DEF Reconcile, RunMatchesStore
  <2>3. plan = "accepted"
    BY <1>9 DEF Reconcile
  <2> QED BY <2>1, <2>2, <2>3, MoveKeepsIInv
<1>10. ASSUME NEW s \in Steps, Record(s) PROVE IInv'
  <2>1. /\ stored[s] = "in_flight"
        /\ \A d \in deps[s] : d \in Steps /\ stored[d] = "succeeded"
    BY <1>10 DEF Record, Save, RunMatchesStore, DependenciesSucceeded
  <2> QED
    BY <1>10, <2>1, SaveKeepsIInv
    DEF Record, CallsMatchStore, Statuses, Unfinished
<1>11. ASSUME NEW s \in Steps, Verify(s) PROVE IInv'
  <2>1. PICK next \in {"succeed", "review", "fail"} :
          /\ run' = [run EXCEPT ![s] = next]
          /\ UNCHANGED <<deps, plan, stored, calls, effect>>
          /\ next = "succeed" => effect[s]
    BY <1>11 DEF Verify, Verdicts
  <2>2. stored[s] = "verifying"
    BY <1>11 DEF Verify, RunMatchesStore
  <2>3. plan = "accepted"
    BY <1>11 DEF Verify
  <2> QED BY <2>1, <2>2, <2>3, MoveKeepsIInv
<1>12. ASSUME NEW s \in Steps, Settle(s) PROVE IInv'
  <2>1. /\ stored[s] \in {"in_flight", "verifying"}
        /\ \A d \in deps[s] : d \in Steps /\ stored[d] = "succeeded"
        /\ run[s] = "succeed" => effect[s]
    BY <1>12 DEF Settle, Save, RunMatchesStore, DependenciesSucceeded
  <2>2. CASE Save(s, "succeed", "succeeded", "idle")
    BY <2>1, <2>2, SaveKeepsIInv DEF Save, Statuses, Final
  <2>3. CASE Save(s, "review", "needs_review", "idle")
    BY <2>1, <2>3, SaveKeepsIInv DEF Statuses, Final, Unsuccessful
  <2>4. CASE Save(s, "fail", "failed", "idle")
    BY <2>1, <2>4, SaveKeepsIInv DEF Statuses, Final, Unsuccessful
  <2> QED BY <1>12, <2>2, <2>3, <2>4 DEF Settle
<1>13. ASSUME NEW s \in Steps, StoreError(s) PROVE IInv'
  <2>1. plan = "accepted"
    BY <1>13 DEF StoreError
  <2> QED BY <1>13, <2>1, MoveKeepsIInv DEF StoreError
<1>14. CASE UNCHANGED vars
  BY <1>14 DEF vars, TypeOK, RunMatchesStore, CallsMatchStore,
               ExecutedAtMostOnce, DependenciesSucceeded
<1> QED
  BY <1>1, <1>2, <1>3, <1>4, <1>5, <1>6, <1>7, <1>8, <1>9, <1>10, <1>11,
     <1>12, <1>13, <1>14 DEF Next, RunStep

-----------------------------------------------------------------------------
(* The inductive invariant holds in every reachable state.                 *)
THEOREM Inductive == Spec => []IInv
<1>1. Init => IInv
  BY InitIInv
<1>2. IInv /\ [Next]_vars => IInv'
  BY NextIInv
<1> QED
  BY <1>1, <1>2, PTL DEF Spec

(* Every reachable state of the runner has the declared types.             *)
THEOREM TypeCorrect == Spec => []TypeOK
<1>1. IInv => TypeOK
  BY DEF IInv
<1> QED
  BY <1>1, Inductive, PTL

(* However often run_step is interrupted and called again for a step, it   *)
(* calls execute at most once, for any plan.                               *)
THEOREM ExecutedAtMostOnceAlways == Spec => []ExecutedAtMostOnce
<1>1. IInv => ExecutedAtMostOnce
  BY DEF IInv
<1> QED
  BY <1>1, Inductive, PTL

(* No effect takes place before run_step has stored its intent.            *)
THEOREM EffectIsRecordedAlways == Spec => []EffectIsRecorded
<1>1. ASSUME IInv PROVE EffectIsRecorded
  <2> SUFFICES ASSUME NEW s \in Steps, effect[s],
                      stored[s] \in {"pending", "prepared", "blocked"}
               PROVE  FALSE
    BY DEF EffectIsRecorded
  <2>1. calls[s] = 0 /\ calls[s] > 0
    BY <1>1 DEF IInv, CallsMatchStore
  <2> QED BY <2>1
<1> QED
  BY <1>1, Inductive, PTL

(* Every step that was executed stands on dependencies that succeeded and  *)
(* whose effects are in place, for any graph that validate_dag accepts.    *)
THEOREM PrerequisitesInPlaceAlways == Spec => []PrerequisitesInPlace
<1>1. ASSUME IInv PROVE PrerequisitesInPlace
  <2> SUFFICES ASSUME NEW s \in Steps, calls[s] > 0, NEW d \in deps[s]
               PROVE  stored[d] = "succeeded" /\ effect[d]
    BY DEF PrerequisitesInPlace
  <2>1. stored[s] \notin {"pending", "blocked"}
    BY <1>1 DEF IInv, CallsMatchStore
  <2>2. d \in Steps /\ stored[d] = "succeeded"
    BY <1>1, <2>1 DEF IInv, DependenciesSucceeded
  <2>3. effect[d]
    BY <1>1, <2>2 DEF IInv, CallsMatchStore
  <2> QED BY <2>2, <2>3
<1> QED
  BY <1>1, Inductive, PTL

(* The place a run is at excludes that its step has a final status.        *)
LEMMA SaveSparesFinal ==
  ASSUME IInv, NEW s \in Steps, NEW at, NEW status, NEW next,
         Save(s, at, status, next), at # "idle",
         NEW t \in Steps, stored[t] \in Final
  PROVE  stored'[t] = stored[t]
<1>1. run[s] = at /\ stored' = [stored EXCEPT ![s] = status]
  BY DEF Save
<1>2. run[s] \in {"idle", "prepare", "start", "execute", "called", "reconcile",
                  "record", "verify", "succeed", "review", "fail"}
  BY DEF IInv, TypeOK
<1>3. stored[s] \in {"pending", "prepared", "in_flight", "verifying"}
  BY <1>1, <1>2 DEF IInv, RunMatchesStore
<1>4. t # s
  BY <1>3 DEF Final, Unsuccessful
<1> QED
  BY <1>1, <1>4 DEF IInv, TypeOK

(* No action of the runner or of its caller changes a final status.        *)
THEOREM FinalIsFinalAlways == Spec => FinalIsFinal
<1>1. ASSUME IInv, [Next]_vars, NEW t \in Steps, stored[t] \in Final
      PROVE  stored'[t] = stored[t]
  <2>1. CASE UNCHANGED stored
    BY <2>1
  <2>2. ASSUME NEW s \in Steps, Block(s) PROVE stored'[t] = stored[t]
    BY <1>1, <2>2 DEF Block, IInv, TypeOK, Final, Unsuccessful
  <2>3. ASSUME NEW s \in Steps, Prepare(s) PROVE stored'[t] = stored[t]
    BY <1>1, <2>3, SaveSparesFinal DEF Prepare
  <2>4. ASSUME NEW s \in Steps, Start(s) PROVE stored'[t] = stored[t]
    BY <1>1, <2>4, SaveSparesFinal DEF Start
  <2>5. ASSUME NEW s \in Steps, Record(s) PROVE stored'[t] = stored[t]
    BY <1>1, <2>5, SaveSparesFinal DEF Record
  <2>6. ASSUME NEW s \in Steps, Settle(s) PROVE stored'[t] = stored[t]
    BY <1>1, <2>6, SaveSparesFinal DEF Settle
  <2>7. ASSUME NEW s \in Steps,
               \/ Begin(s) \/ Execute(s) \/ Executed(s) \/ Reconcile(s)
               \/ Verify(s) \/ StoreError(s)
        PROVE  UNCHANGED stored
    BY <2>7 DEF Begin, Execute, Executed, Reconcile, Verify, StoreError
  <2>8. Validate \/ Crash \/ UNCHANGED vars => UNCHANGED stored
    BY DEF Validate, Crash, vars
  <2> QED
    BY <1>1, <2>1, <2>2, <2>3, <2>4, <2>5, <2>6, <2>7, <2>8 DEF Next, RunStep
<1>2. IInv /\ [Next]_vars =>
        [\A s \in Steps : stored[s] \in Final => stored'[s] = stored[s]]_vars
  BY <1>1
<1> QED
  BY <1>2, Inductive, PTL DEF Spec, FinalIsFinal

-----------------------------------------------------------------------------
(* Finite sets and numbers.                                                *)

(* A set of naturals that is not empty has a least element.                *)
LEMMA LeastNatural ==
  ASSUME NEW T \in SUBSET Nat, T # {}
  PROVE  \E x \in T : \A y \in T : x <= y
<1>1. PICK x \in T : \A y \in T : ~ (<<y, x>> \in OpToRel(<, Nat))
  BY NatLessThanWellFounded, WFMin
<1>2. ASSUME NEW y \in T
      PROVE  x <= y
  <2>1. x \in Nat /\ y \in Nat
    BY <1>1
  <2>2. ~ (y < x)
    BY <1>1, <2>1 DEF OpToRel
  <2> QED
    BY <2>1, <2>2
<1> QED
  BY <1>1, <1>2

(* A set with 0 and each successor of its elements has every natural       *)
(* number.                                                                 *)
LEMMA AllNaturals ==
  ASSUME NEW T, 0 \in T, \A n \in Nat : n \in T => n + 1 \in T
  PROVE  \A n \in Nat : n \in T
<1> SUFFICES ASSUME Nat \ T # {} PROVE FALSE
  OBVIOUS
<1>1. PICK x \in Nat \ T : \A y \in Nat \ T : x <= y
  BY LeastNatural
<1>2. x # 0 /\ x \in Nat
  BY <1>1
<1>3. x - 1 \in Nat /\ x - 1 < x /\ (x - 1) + 1 = x
  BY <1>2
<1>4. x - 1 \in T
  BY <1>1, <1>3
<1> QED
  BY <1>1, <1>3, <1>4

(* Sets that grow, within a finite set, as long as they change.            *)
Chain(S, Q, N) ==
  /\ S \in [0..N + 1 -> SUBSET Q]
  /\ \A k \in 0..N : S[k] \subseteq S[k + 1]
  /\ \A k \in 0..N : k + 1 <= N /\ S[k + 1] = S[k] => S[k + 2] = S[k + 1]

(* They change no more after as many steps as the set has elements.        *)
LEMMA ChainSettles ==
  ASSUME NEW Q, IsFiniteSet(Q), NEW S, Chain(S, Q, Cardinality(Q))
  PROVE  S[Cardinality(Q) + 1] = S[Cardinality(Q)]
<1> DEFINE N == Cardinality(Q)
           T == {k \in Nat : k <= N => \/ S[k + 1] = S[k]
                                       \/ Cardinality(S[k]) >= k}
<1>1. N \in Nat
  BY FS_CardinalityType
<1>2. \A k \in 0..N + 1 : S[k] \subseteq Q
  BY DEF Chain
<1>3. \A k \in 0..N + 1 : IsFiniteSet(S[k]) /\ Cardinality(S[k]) \in Nat
  BY <1>2, FS_Subset, FS_CardinalityType
<1>4. 0 \in T
  BY <1>1, <1>3
<1>5. ASSUME NEW k \in Nat, k \in T
      PROVE  k + 1 \in T
  <2> SUFFICES ASSUME k + 1 <= N
               PROVE  \/ S[(k + 1) + 1] = S[k + 1]
                      \/ Cardinality(S[k + 1]) >= k + 1
    OBVIOUS
  <2>1. k \in 0..N /\ k \in 0..N + 1 /\ k + 1 \in 0..N + 1 /\ (k + 1) + 1 = k + 2
    BY <1>1
  <2>2. S[k] \subseteq S[k + 1]
    BY <2>1 DEF Chain
  <2>3. CASE S[k + 1] = S[k]
    BY <2>1, <2>3 DEF Chain
  <2>4. CASE S[k + 1] # S[k]
    <3>1. Cardinality(S[k]) >= k
      BY <1>5, <2>1, <2>4
    <3>2. Cardinality(S[k]) < Cardinality(S[k + 1])
      <4>1. /\ Cardinality(S[k]) <= Cardinality(S[k + 1])
            /\ Cardinality(S[k]) = Cardinality(S[k + 1]) => S[k] = S[k + 1]
        BY <1>3, <2>1, <2>2, FS_Subset
      <4> QED
        BY <1>3, <2>1, <2>4, <4>1
    <3> QED
      BY <1>3, <2>1, <3>1, <3>2
  <2> QED
    BY <2>3, <2>4
<1> HIDE DEF T
<1>6. \A k \in Nat : k \in T
  BY <1>4, <1>5, AllNaturals
<1>7. S[N + 1] = S[N] \/ Cardinality(S[N]) >= N
  BY <1>1, <1>6 DEF T
<1>8. /\ N \in 0..N /\ N \in 0..N + 1 /\ N + 1 \in 0..N + 1
      /\ S[N] \subseteq S[N + 1] /\ S[N + 1] \subseteq Q /\ S[N] \subseteq Q
  <2>1. N \in 0..N /\ N \in 0..N + 1 /\ N + 1 \in 0..N + 1
    BY <1>1
  <2> QED
    BY <1>2, <2>1 DEF Chain
<1>9. CASE Cardinality(S[N]) >= N
  <2>1. /\ Cardinality(S[N]) <= N
        /\ Cardinality(S[N]) = N => S[N] = Q
    BY <1>8, FS_Subset
  <2>2. S[N] = Q
    BY <1>1, <1>3, <1>8, <1>9, <2>1
  <2> QED
    BY <1>8, <2>2
<1> QED
  BY <1>7, <1>9

-----------------------------------------------------------------------------
(* block_downstream.                                                       *)

(* The passes over a status, one after another.                            *)
ArePasses(f, status, N) ==
  f = [n \in 0..N |-> IF n = 0 THEN status ELSE BlockedOnce(f[n - 1])]

LEMMA PassesExist ==
  ASSUME NEW status, NEW N \in Nat
  PROVE  \E f : ArePasses(f, status, N)
<1> DEFINE T == {m \in Nat : \E f : ArePasses(f, status, m)}
<1>1. 0 \in T
  <2>1. ArePasses([n \in 0..0 |-> status], status, 0)
    BY DEF ArePasses
  <2> QED
    BY <2>1
<1>2. ASSUME NEW m \in Nat, m \in T
      PROVE  m + 1 \in T
  <2>1. PICK f : ArePasses(f, status, m)
    BY <1>2
  <2> DEFINE g == [n \in 0..m + 1 |-> IF n = m + 1 THEN BlockedOnce(f[m]) ELSE f[n]]
  <2>2. ASSUME NEW n \in 0..m + 1
        PROVE  g[n] = IF n = 0 THEN status ELSE BlockedOnce(g[n - 1])
    <3>1. CASE n = m + 1
      <4>1. n - 1 = m /\ m \in 0..m + 1 /\ m # m + 1 /\ n # 0
        BY <3>1
      <4>2. g[n] = BlockedOnce(f[m]) /\ g[m] = f[m]
        BY <3>1, <4>1
      <4> QED
        BY <4>1, <4>2
    <3>2. CASE n # m + 1
      <4>1. n \in 0..m /\ (n # 0 => n - 1 \in 0..m + 1 /\ n - 1 # m + 1)
        BY <3>2
      <4>2. f[n] = IF n = 0 THEN status ELSE BlockedOnce(f[n - 1])
        BY <2>1, <4>1 DEF ArePasses
      <4> QED
        BY <3>2, <4>1, <4>2
    <3> QED
      BY <3>1, <3>2
  <2>3. g = [n \in 0..m + 1 |-> g[n]]
    OBVIOUS
  <2> HIDE DEF g
  <2>4. ArePasses(g, status, m + 1)
    BY <2>2, <2>3 DEF ArePasses
  <2> QED
    BY <2>4
<1> HIDE DEF T
<1>3. N \in T
  BY <1>1, <1>2, AllNaturals
<1> QED
  BY <1>3 DEF T

(* One pass.                                                               *)
LEMMA OnePass ==
  ASSUME NEW status \in [Steps -> Statuses]
  PROVE  /\ BlockedOnce(status) \in [Steps -> Statuses]
         /\ \A s \in Steps :
              BlockedOnce(status)[s] =
                IF status[s] = "pending" /\ \E d \in deps[s] : status[d] \in Unsuccessful
                THEN "blocked" ELSE status[s]
  BY DEF BlockedOnce, Statuses, Final, Unsuccessful

(* A status after some passes: none has forgotten or reopened a step, and  *)
(* whatever holds of the unsuccessful steps and of all that depend on one  *)
(* it holds of, holds of the blocked ones.                                 *)
Holds(X, status) ==
  /\ \A s \in Steps : status[s] \in Unsuccessful => s \in X
  /\ \A s \in Steps : status[s] = "pending" /\ (\E d \in deps[s] : d \in X) => s \in X

Passed(status, b) ==
  /\ b \in [Steps -> Statuses]
  /\ \A s \in Steps : b[s] = status[s] \/ (status[s] = "pending" /\ b[s] = "blocked")
  /\ \A X \in SUBSET Steps :
       Holds(X, status) => \A s \in Steps : b[s] \in Unsuccessful => s \in X

DepsAreSteps == \A s \in Steps : deps[s] \subseteq Steps

LEMMA PassKeepsPassed ==
  ASSUME DepsAreSteps, NEW status \in [Steps -> Statuses], NEW b, Passed(status, b)
  PROVE  Passed(status, BlockedOnce(b))
<1> DEFINE c == BlockedOnce(b)
<1>1. /\ c \in [Steps -> Statuses] /\ b \in [Steps -> Statuses]
      /\ \A s \in Steps :
           c[s] = IF b[s] = "pending" /\ \E d \in deps[s] : b[d] \in Unsuccessful
                  THEN "blocked" ELSE b[s]
  BY OnePass DEF Passed
<1> HIDE DEF c
<1>2. \A s \in Steps : c[s] = status[s] \/ (status[s] = "pending" /\ c[s] = "blocked")
  BY <1>1 DEF Passed
<1>3. ASSUME NEW X \in SUBSET Steps, Holds(X, status),
             NEW s \in Steps, c[s] \in Unsuccessful
      PROVE  s \in X
  <2>1. \A t \in Steps : b[t] \in Unsuccessful => t \in X
    BY <1>3 DEF Passed
  <2>2. CASE b[s] = "pending" /\ \E d \in deps[s] : b[d] \in Unsuccessful
    <3>1. status[s] = "pending"
      BY <2>2 DEF Passed
    <3>2. \E d \in deps[s] : d \in X
      BY <2>1, <2>2 DEF DepsAreSteps
    <3> QED
      BY <1>3, <3>1, <3>2 DEF Holds
  <2>3. CASE ~ (b[s] = "pending" /\ \E d \in deps[s] : b[d] \in Unsuccessful)
    <3>1. c[s] = b[s]
      BY <1>1, <2>3
    <3> QED
      BY <1>3, <2>1, <3>1
  <2> QED
    BY <2>2, <2>3
<1> QED
  BY <1>1, <1>2, <1>3 DEF Passed, c

(* block_downstream returns a status after some passes, which one pass     *)
(* more does not change.                                                   *)
LEMMA BlockDownstreamIs ==
  ASSUME DepsAreSteps, NEW status \in [Steps -> Statuses]
  PROVE  /\ Passed(status, BlockDownstream(status))
         /\ BlockedOnce(BlockDownstream(status)) = BlockDownstream(status)
<1> DEFINE N == Cardinality(Steps)
<1>1. IsFiniteSet(Steps) /\ N \in Nat
  BY StepRunnerAssumption, FS_CardinalityType
<1>2. PICK f : /\ ArePasses(f, status, N)
               /\ BlockDownstream(status) = f[N]
  <2> DEFINE g == CHOOSE f : f = [n \in 0..N |->
                    IF n = 0 THEN status ELSE BlockedOnce(f[n - 1])]
  <2>1. BlockDownstream(status) = g[N]
    BY DEF BlockDownstream
  <2>2. g = CHOOSE f : ArePasses(f, status, N)
    BY DEF ArePasses
  <2>3. \E f : ArePasses(f, status, N)
    BY <1>1, PassesExist
  <2> HIDE DEF g
  <2>4. ArePasses(g, status, N)
    BY <2>2, <2>3
  <2> QED
    BY <2>1, <2>4
<1> HIDE DEF N
<1>3. /\ f[0] = status
      /\ \A n \in 0..N : n + 1 <= N => f[n + 1] = BlockedOnce(f[n])
  <2>1. \A n \in 0..N : f[n] = IF n = 0 THEN status ELSE BlockedOnce(f[n - 1])
    BY <1>2 DEF ArePasses
  <2>2. ASSUME NEW n \in 0..N, n + 1 <= N
        PROVE  f[n + 1] = BlockedOnce(f[n])
    <3>1. n + 1 \in 0..N /\ n + 1 # 0 /\ (n + 1) - 1 = n
      BY <1>1, <2>2
    <3> QED
      BY <2>1, <3>1
  <2>3. 0 \in 0..N
    BY <1>1
  <2> QED
    BY <2>1, <2>2, <2>3
<1>4. \A n \in 0..N : Passed(status, f[n])
  <2> DEFINE T == {n \in Nat : n <= N => Passed(status, f[n])}
  <2>1. 0 \in T
    <3>1. ASSUME NEW X \in SUBSET Steps, Holds(X, status),
                 NEW s \in Steps, status[s] \in Unsuccessful
          PROVE  s \in X
      BY <3>1 DEF Holds
    <3>2. Passed(status, status)
      BY <3>1 DEF Passed
    <3> QED
      BY <1>3, <3>2
  <2>2. ASSUME NEW n \in Nat, n \in T
        PROVE  n + 1 \in T
    <3> SUFFICES ASSUME n + 1 <= N PROVE Passed(status, f[n + 1])
      OBVIOUS
    <3>1. n \in 0..N /\ n <= N
      BY <1>1
    <3>2. Passed(status, f[n]) /\ f[n + 1] = BlockedOnce(f[n])
      BY <1>3, <2>2, <3>1
    <3> QED
      BY <3>2, PassKeepsPassed
  <2> HIDE DEF T
  <2>3. \A n \in Nat : n \in T
    BY <2>1, <2>2, AllNaturals
  <2> QED
    BY <2>3 DEF T
<1> DEFINE g == [n \in 0..N + 1 |-> IF n = N + 1 THEN BlockedOnce(f[N]) ELSE f[n]]
           Taken(b) == {s \in Steps : b[s] # "pending"}
           S == [n \in 0..N + 1 |-> Taken(g[n])]
<1>5. /\ \A n \in 0..N + 1 : Passed(status, g[n])
      /\ \A n \in 0..N : g[n + 1] = BlockedOnce(g[n])
      /\ g[N] = f[N] /\ g[N + 1] = BlockedOnce(f[N])
  <2>1. ASSUME NEW n \in 0..N
        PROVE  g[n + 1] = BlockedOnce(g[n])
    <3>1. n \in 0..N + 1 /\ n # N + 1 /\ n + 1 \in 0..N + 1
      BY <1>1
    <3>2. CASE n = N
      BY <3>1, <3>2
    <3>3. CASE n # N
      <4>1. n + 1 <= N /\ n + 1 # N + 1
        BY <1>1, <3>3
      <4> QED
        BY <1>3, <3>1, <4>1
    <3> QED
      BY <3>2, <3>3
  <2>2. N \in 0..N /\ N \in 0..N + 1 /\ N + 1 \in 0..N + 1 /\ N # N + 1
    BY <1>1
  <2>3. Passed(status, BlockedOnce(f[N]))
    BY <1>4, <2>2, PassKeepsPassed
  <2>4. ASSUME NEW n \in 0..N + 1
        PROVE  Passed(status, g[n])
    <3>1. CASE n = N + 1
      BY <2>3, <3>1
    <3>2. CASE n # N + 1
      <4>1. n \in 0..N
        BY <1>1, <3>2
      <4> QED
        BY <1>4, <3>2, <4>1
    <3> QED
      BY <3>1, <3>2
  <2> QED
    BY <2>1, <2>2, <2>4
<1> HIDE DEF g
<1>6. \A n \in 0..N : /\ n \in 0..N + 1 /\ n + 1 \in 0..N + 1
                      /\ n + 1 <= N => n + 1 \in 0..N /\ (n + 1) + 1 = n + 2 /\ n + 2 \in 0..N + 1
  BY <1>1
(* A pass only takes pending steps, and one that takes none changes none.  *)
<1>7. ASSUME NEW b \in [Steps -> Statuses]
      PROVE  /\ Taken(b) \subseteq Taken(BlockedOnce(b))
             /\ Taken(BlockedOnce(b)) = Taken(b) => BlockedOnce(b) = b
  <2> DEFINE c == BlockedOnce(b)
  <2>4. /\ c \in [Steps -> Statuses]
        /\ \A s \in Steps :
             c[s] = IF b[s] = "pending" /\ \E d \in deps[s] : b[d] \in Unsuccessful
                    THEN "blocked" ELSE b[s]
    BY OnePass
  <2> HIDE DEF c
  <2>1. /\ c \in [Steps -> Statuses]
        /\ \A s \in Steps : c[s] = b[s] \/ (b[s] = "pending" /\ c[s] = "blocked")
    BY <2>4
  <2>2. Taken(b) \subseteq Taken(c)
    BY <2>1
  <2>3. ASSUME Taken(c) = Taken(b)
        PROVE  c = b
    <3>1. \A s \in Steps : c[s] = b[s]
      BY <2>1, <2>3
    <3> QED
      BY <2>1, <3>1
  <2> QED
    BY <2>2, <2>3 DEF c
<1>8. \A n \in 0..N + 1 : g[n] \in [Steps -> Statuses]
  BY <1>5 DEF Passed
<1>9. \A n \in 0..N + 1 : S[n] = Taken(g[n])
  OBVIOUS
<1>10. S \in [0..N + 1 -> SUBSET Steps]
  OBVIOUS
<1> HIDE DEF S, Taken
<1>11. ASSUME NEW n \in 0..N
       PROVE  /\ S[n] \subseteq S[n + 1]
              /\ S[n + 1] = S[n] => g[n + 1] = g[n]
  BY <1>5, <1>6, <1>7, <1>8, <1>9
<1>12. ASSUME NEW n \in 0..N, n + 1 <= N, S[n + 1] = S[n]
       PROVE  S[n + 2] = S[n + 1]
  <2>1. g[n + 1] = g[n] /\ g[n + 1] = BlockedOnce(g[n]) /\ g[n + 2] = BlockedOnce(g[n + 1])
    BY <1>5, <1>6, <1>11, <1>12
  <2> QED
    BY <1>6, <1>9, <1>12, <2>1
<1>13. Chain(S, Steps, N)
  BY <1>10, <1>11, <1>12 DEF Chain
<1>14. S[N + 1] = S[N]
  BY <1>1, <1>13, ChainSettles DEF N
<1>15. N \in 0..N
  BY <1>1
<1>16. BlockedOnce(f[N]) = f[N]
  BY <1>5, <1>11, <1>14, <1>15
<1> QED
  BY <1>2, <1>4, <1>15, <1>16

-----------------------------------------------------------------------------
(* Upstream.                                                               *)

(* The steps within a distance.                                            *)
AreWithin(f, s, N) ==
  f = [n \in 0..N |-> IF n = 0 THEN deps[s]
                      ELSE f[n - 1] \cup UNION {deps[d] : d \in f[n - 1]}]

LEMMA WithinExists ==
  ASSUME NEW s, NEW N \in Nat
  PROVE  \E f : AreWithin(f, s, N)
<1> DEFINE T == {m \in Nat : \E f : AreWithin(f, s, m)}
           More(D) == D \cup UNION {deps[d] : d \in D}
<1>1. 0 \in T
  <2>1. AreWithin([n \in 0..0 |-> deps[s]], s, 0)
    BY DEF AreWithin
  <2> QED
    BY <2>1
<1>2. ASSUME NEW m \in Nat, m \in T
      PROVE  m + 1 \in T
  <2>1. PICK f : AreWithin(f, s, m)
    BY <1>2
  <2> HIDE DEF More
  <2> DEFINE g == [n \in 0..m + 1 |-> IF n = m + 1 THEN More(f[m]) ELSE f[n]]
  <2>5. \A n \in 0..m : f[n] = IF n = 0 THEN deps[s] ELSE More(f[n - 1])
    BY <2>1 DEF AreWithin, More
  <2>2. ASSUME NEW n \in 0..m + 1
        PROVE  g[n] = IF n = 0 THEN deps[s] ELSE More(g[n - 1])
    <3>1. CASE n = m + 1
      <4>1. n - 1 = m /\ m \in 0..m + 1 /\ m # m + 1 /\ n # 0
        BY <3>1
      <4>2. g[n] = More(f[m]) /\ g[m] = f[m]
        BY <3>1, <4>1
      <4> QED
        BY <4>1, <4>2
    <3>2. CASE n # m + 1
      <4>1. n \in 0..m /\ (n # 0 => n - 1 \in 0..m + 1 /\ n - 1 # m + 1)
        BY <3>2
      <4>2. f[n] = IF n = 0 THEN deps[s] ELSE More(f[n - 1])
        BY <2>5, <4>1
      <4> QED
        BY <3>2, <4>1, <4>2
    <3> QED
      BY <3>1, <3>2
  <2>3. g = [n \in 0..m + 1 |-> g[n]]
    OBVIOUS
  <2> HIDE DEF g
  <2>4. AreWithin(g, s, m + 1)
    BY <2>2, <2>3 DEF AreWithin, More
  <2> QED
    BY <2>4
<1> HIDE DEF T
<1>3. N \in T
  BY <1>1, <1>2, AllNaturals
<1> QED
  BY <1>3 DEF T

(* Upstream is the least set with the dependencies of the step and of all  *)
(* its own elements.                                                       *)
LEMMA UpstreamIs ==
  ASSUME DepsAreSteps, NEW s \in Steps
  PROVE  /\ deps[s] \subseteq Upstream(s)
         /\ \A d \in Upstream(s) : d \in Steps /\ deps[d] \subseteq Upstream(s)
         /\ \A X \in SUBSET Steps :
              deps[s] \subseteq X /\ (\A d \in X : deps[d] \subseteq X)
                => Upstream(s) \subseteq X
<1> DEFINE N == Cardinality(Steps)
           More(D) == D \cup UNION {deps[d] : d \in D}
<1>1. IsFiniteSet(Steps) /\ N \in Nat
  BY StepRunnerAssumption, FS_CardinalityType
<1>2. PICK f : /\ AreWithin(f, s, N)
               /\ Upstream(s) = f[N]
  <2> DEFINE g == CHOOSE f : f = [n \in 0..N |->
                    IF n = 0 THEN deps[s]
                    ELSE f[n - 1] \cup UNION {deps[d] : d \in f[n - 1]}]
  <2>1. Upstream(s) = g[N]
    BY DEF Upstream
  <2>2. g = CHOOSE f : AreWithin(f, s, N)
    BY DEF AreWithin
  <2>3. \E f : AreWithin(f, s, N)
    BY <1>1, WithinExists
  <2> HIDE DEF g
  <2>4. AreWithin(g, s, N)
    BY <2>2, <2>3
  <2> QED
    BY <2>1, <2>4
<1> HIDE DEF N
<1>16. \A D : D \subseteq More(D) /\ \A d \in D : deps[d] \subseteq More(D)
  OBVIOUS
<1>17. \A D \in SUBSET Steps : More(D) \subseteq Steps
  BY DEF DepsAreSteps
<1>18. \A X, D : D \subseteq X /\ (\A d \in X : deps[d] \subseteq X) => More(D) \subseteq X
  OBVIOUS
<1>19. \A n \in 0..N : f[n] = IF n = 0 THEN deps[s] ELSE More(f[n - 1])
  BY <1>2 DEF AreWithin
<1> HIDE DEF More
<1>3. /\ f[0] = deps[s]
      /\ \A n \in 0..N : n + 1 <= N => f[n + 1] = More(f[n])
  <2>2. ASSUME NEW n \in 0..N, n + 1 <= N
        PROVE  f[n + 1] = More(f[n])
    <3>1. n + 1 \in 0..N /\ n + 1 # 0 /\ (n + 1) - 1 = n
      BY <1>1, <2>2
    <3> QED
      BY <1>19, <3>1
  <2>3. 0 \in 0..N
    BY <1>1
  <2> QED
    BY <1>19, <2>2, <2>3
<1>4. \A n \in 0..N : deps[s] \subseteq f[n] /\ f[n] \subseteq Steps
  <2> DEFINE T == {n \in Nat : n <= N => deps[s] \subseteq f[n] /\ f[n] \subseteq Steps}
  <2>1. 0 \in T
    BY <1>3 DEF DepsAreSteps
  <2>2. ASSUME NEW n \in Nat, n \in T
        PROVE  n + 1 \in T
    <3> SUFFICES ASSUME n + 1 <= N
                 PROVE  deps[s] \subseteq f[n + 1] /\ f[n + 1] \subseteq Steps
      OBVIOUS
    <3>1. n \in 0..N /\ n <= N
      BY <1>1
    <3>2. /\ deps[s] \subseteq f[n] /\ f[n] \subseteq Steps
          /\ f[n + 1] = More(f[n])
      BY <1>3, <2>2, <3>1
    <3> QED
      BY <1>16, <1>17, <3>2
  <2> HIDE DEF T
  <2>3. \A n \in Nat : n \in T
    BY <2>1, <2>2, AllNaturals
  <2> QED
    BY <2>3 DEF T
<1>20. ASSUME NEW X \in SUBSET Steps,
              deps[s] \subseteq X, \A d \in X : deps[d] \subseteq X
       PROVE  \A n \in 0..N : f[n] \subseteq X
  <2> DEFINE T == {n \in Nat : n <= N => f[n] \subseteq X}
  <2>1. 0 \in T
    BY <1>3, <1>20
  <2>2. ASSUME NEW n \in Nat, n \in T
        PROVE  n + 1 \in T
    <3> SUFFICES ASSUME n + 1 <= N
                 PROVE  f[n + 1] \subseteq X
      OBVIOUS
    <3>1. n \in 0..N /\ n <= N
      BY <1>1
    <3>2. f[n] \subseteq X /\ f[n + 1] = More(f[n])
      BY <1>3, <2>2, <3>1
    <3> QED
      BY <1>18, <1>20, <3>2
  <2> HIDE DEF T
  <2>3. \A n \in Nat : n \in T
    BY <2>1, <2>2, AllNaturals
  <2> QED
    BY <2>3 DEF T
<1> DEFINE S == [n \in 0..N + 1 |-> IF n = N + 1 THEN More(f[N]) ELSE f[n]]
<1>5. /\ \A n \in 0..N + 1 : S[n] \subseteq Steps
      /\ \A n \in 0..N : S[n + 1] = More(S[n])
      /\ S[N] = f[N] /\ S[N + 1] = More(f[N])
  <2>1. ASSUME NEW n \in 0..N
        PROVE  S[n + 1] = More(S[n])
    <3>1. n \in 0..N + 1 /\ n # N + 1 /\ n + 1 \in 0..N + 1
      BY <1>1
    <3>2. CASE n = N
      BY <3>1, <3>2
    <3>3. CASE n # N
      <4>1. n + 1 <= N /\ n + 1 # N + 1
        BY <1>1, <3>3
      <4> QED
        BY <1>3, <3>1, <4>1
    <3> QED
      BY <3>2, <3>3
  <2>2. N \in 0..N /\ N \in 0..N + 1 /\ N + 1 \in 0..N + 1 /\ N # N + 1
    BY <1>1
  <2>3. More(f[N]) \subseteq Steps
    BY <1>4, <1>17, <2>2
  <2>4. ASSUME NEW n \in 0..N + 1
        PROVE  S[n] \subseteq Steps
    <3>1. CASE n = N + 1
      BY <2>3, <3>1
    <3>2. CASE n # N + 1
      <4>1. n \in 0..N
        BY <1>1, <3>2
      <4> QED
        BY <1>4, <3>2, <4>1
    <3> QED
      BY <3>1, <3>2
  <2> QED
    BY <2>1, <2>2, <2>4
<1>10. S \in [0..N + 1 -> SUBSET Steps]
  <2>1. S = [n \in 0..N + 1 |-> S[n]]
    OBVIOUS
  <2> HIDE DEF S
  <2> QED
    BY <1>5, <2>1
<1> HIDE DEF S
<1>11. ASSUME NEW n \in 0..N
       PROVE  S[n] \subseteq S[n + 1]
  BY <1>5, <1>16
<1>12. ASSUME NEW n \in 0..N, n + 1 <= N, S[n + 1] = S[n]
       PROVE  S[n + 2] = S[n + 1]
  <2>1. n + 1 \in 0..N /\ (n + 1) + 1 = n + 2
    BY <1>1, <1>12
  <2>2. S[n + 2] = More(S[n + 1]) /\ S[n + 1] = More(S[n])
    BY <1>5, <2>1
  <2> QED
    BY <1>12, <2>2
<1>13. Chain(S, Steps, N)
  BY <1>10, <1>11, <1>12 DEF Chain
<1>14. S[N + 1] = S[N]
  BY <1>1, <1>13, ChainSettles DEF N
<1>15. N \in 0..N
  BY <1>1
<1>21. More(f[N]) = f[N]
  BY <1>5, <1>14
<1>22. deps[s] \subseteq f[N] /\ f[N] \subseteq Steps
  BY <1>4, <1>15
<1>23. \A d \in f[N] : d \in Steps /\ deps[d] \subseteq f[N]
  BY <1>16, <1>21, <1>22
<1> QED
  BY <1>2, <1>15, <1>20, <1>22, <1>23

-----------------------------------------------------------------------------
(* has_cycle.                                                              *)

(* The outcome of the search for each set of steps it is visiting.         *)
Searches(f) ==
  f = [visiting \in SUBSET Steps |->
        [id \in Steps |-> \/ id \in visiting
                          \/ \E d \in deps[id] : f[visiting \cup {id}][d]]]

(* A set of steps for each set that is visited, from which the search      *)
(* comes back or goes on to one of them.                                   *)
ComesBack(W) ==
  /\ W \in [SUBSET Steps -> SUBSET Steps]
  /\ \A v \in SUBSET Steps : \A id \in W[v] :
       id \in v \/ \E d \in deps[id] : d \in W[v \cup {id}]

(* The search has an outcome for every graph on the steps.                 *)
LEMMA SearchExists == ASSUME DepsAreSteps PROVE \E f : Searches(f)
<1> DEFINE G == [v \in SUBSET Steps |->
                   {id \in Steps : \E W : ComesBack(W) /\ id \in W[v]}]
           Goes(v, id) == id \in v \/ \E d \in deps[id] : d \in G[v \cup {id}]
<1>1. G \in [SUBSET Steps -> SUBSET Steps]
  OBVIOUS
<1>2. \A v \in SUBSET Steps : \A id \in Steps : v \cup {id} \in SUBSET Steps
  OBVIOUS
<1>3. ASSUME NEW W, ComesBack(W), NEW v \in SUBSET Steps
      PROVE  W[v] \subseteq G[v]
  BY <1>3 DEF ComesBack
<1>4. ASSUME NEW v \in SUBSET Steps, NEW id \in G[v]
      PROVE  Goes(v, id)
  <2>1. PICK W : ComesBack(W) /\ id \in W[v]
    OBVIOUS
  <2>2. id \in Steps
    OBVIOUS
  <2> HIDE DEF G
  <2>3. CASE id \in v
    BY <2>3
  <2>4. CASE \E d \in deps[id] : d \in W[v \cup {id}]
    BY <1>2, <1>3, <2>1, <2>2, <2>4
  <2> QED
    BY <2>1, <2>3, <2>4 DEF ComesBack
<1>5. ASSUME NEW v \in SUBSET Steps, NEW id \in Steps, Goes(v, id)
      PROVE  id \in G[v]
  <2> DEFINE W == [u \in SUBSET Steps |-> {i \in Steps : Goes(u, i)}]
  <2> HIDE DEF Goes, G
  <2>1. W \in [SUBSET Steps -> SUBSET Steps]
    OBVIOUS
  <2>2. ASSUME NEW u \in SUBSET Steps, NEW i \in W[u]
        PROVE  i \in u \/ \E d \in deps[i] : d \in W[u \cup {i}]
    <3>1. i \in Steps /\ Goes(u, i)
      OBVIOUS
    <3>2. CASE i \in u
      BY <3>2
    <3>3. CASE \E d \in deps[i] : d \in G[u \cup {i}]
      <4>1. PICK d \in deps[i] : d \in G[u \cup {i}]
        BY <3>3
      <4>2. d \in Steps /\ u \cup {i} \in SUBSET Steps
        BY <3>1 DEF DepsAreSteps
      <4>3. Goes(u \cup {i}, d)
        BY <1>4, <4>1, <4>2
      <4>4. d \in W[u \cup {i}]
        BY <4>2, <4>3
      <4> QED
        BY <4>4
    <3> QED
      BY <3>1, <3>2, <3>3 DEF Goes
  <2>3. ComesBack(W)
    BY <2>1, <2>2 DEF ComesBack
  <2>4. id \in W[v]
    BY <1>5
  <2> HIDE DEF W
  <2> QED
    BY <2>3, <2>4 DEF G
<1> HIDE DEF G
<1> DEFINE f == [v \in SUBSET Steps |-> [id \in Steps |-> id \in G[v]]]
<1>6. ASSUME NEW v \in SUBSET Steps, NEW id \in Steps
      PROVE  (id \in G[v]) <=> \/ id \in v
                               \/ \E d \in deps[id] : f[v \cup {id}][d]
  <2>1. v \cup {id} \in SUBSET Steps /\ deps[id] \subseteq Steps
    BY DEF DepsAreSteps
  <2>2. \A d \in deps[id] : f[v \cup {id}][d] <=> d \in G[v \cup {id}]
    BY <2>1
  <2>3. (id \in G[v]) <=> Goes(v, id)
    BY <1>1, <1>4, <1>5
  <2> QED
    BY <2>2, <2>3
<1>7. f = [v \in SUBSET Steps |->
            [id \in Steps |-> \/ id \in v
                              \/ \E d \in deps[id] : f[v \cup {id}][d]]]
  <2> DEFINE Found(v, id) == id \in G[v]
             GoesOn(v, id) == id \in v \/ \E d \in deps[id] : f[v \cup {id}][d]
  <2>1. ASSUME NEW v \in SUBSET Steps, NEW id \in Steps
        PROVE  Found(v, id) = GoesOn(v, id)
    <3>1. Found(v, id) <=> GoesOn(v, id)
      BY <1>6
    <3>2. Found(v, id) \in BOOLEAN /\ GoesOn(v, id) \in BOOLEAN
      OBVIOUS
    <3> HIDE DEF Found, GoesOn
    <3> QED
      BY <3>1, <3>2
  <2> HIDE DEF Found, GoesOn, f
  <2>2. [v \in SUBSET Steps |-> [id \in Steps |-> Found(v, id)]]
          = [v \in SUBSET Steps |-> [id \in Steps |-> GoesOn(v, id)]]
    BY <2>1
  <2>3. f = [v \in SUBSET Steps |-> [id \in Steps |-> Found(v, id)]]
    BY DEF f, Found
  <2>4. f = [v \in SUBSET Steps |-> [id \in Steps |-> GoesOn(v, id)]]
    BY <2>2, <2>3
  <2> QED
    BY <2>4 DEF GoesOn
<1> HIDE DEF f
<1> QED
  BY <1>7 DEF Searches

(* In steps each of which depends on another one of them there is a cycle. *)
LEMMA StuckIsCycle ==
  ASSUME DepsAreSteps, NEW P \in SUBSET Steps,
         \A s \in P : \E d \in deps[s] : d \in P,
         NEW s \in P
  PROVE  HasCycle(s)
<1>1. PICK f : Searches(f) /\ (HasCycle(s) <=> f[{}][s])
  <2> DEFINE g == CHOOSE f : f = [visiting \in SUBSET Steps |->
                    [id \in Steps |-> \/ id \in visiting
                                      \/ \E d \in deps[id] : f[visiting \cup {id}][d]]]
  <2>1. HasCycle(s) <=> g[{}][s]
    BY DEF HasCycle
  <2>2. g = CHOOSE f : Searches(f)
    BY DEF Searches
  <2> HIDE DEF g
  <2>3. Searches(g)
    BY <2>2, SearchExists
  <2> QED
    BY <2>1, <2>3
<1>2. ASSUME NEW v \in SUBSET Steps, NEW id \in Steps
      PROVE  f[v][id] <=> \/ id \in v
                          \/ \E d \in deps[id] : f[v \cup {id}][d]
  <2>1. f[v] = [i \in Steps |-> \/ i \in v
                                \/ \E d \in deps[i] : f[v \cup {i}][d]]
    BY <1>1 DEF Searches
  <2> QED
    BY <2>1
<1> DEFINE T == {m \in Nat : \A v \in SUBSET Steps :
                   Cardinality(Steps \ v) = m => \A id \in P : f[v][id]}
<1>3. IsFiniteSet(Steps)
  BY StepRunnerAssumption
<1>4. \A v \in SUBSET Steps : IsFiniteSet(Steps \ v) /\ Cardinality(Steps \ v) \in Nat
  <2>1. \A v \in SUBSET Steps : Steps \ v \in SUBSET Steps
    OBVIOUS
  <2> QED
    BY <1>3, <2>1, FS_Subset, FS_CardinalityType
<1>5. 0 \in T
  <2>1. ASSUME NEW v \in SUBSET Steps, Cardinality(Steps \ v) = 0, NEW id \in P
        PROVE  f[v][id]
    <3>1. Steps \ v = {}
      BY <1>4, <2>1, FS_EmptySet
    <3>2. id \in v /\ id \in Steps
      BY <3>1
    <3> QED
      BY <1>2, <3>2
  <2> QED
    BY <2>1
<1>6. ASSUME NEW m \in Nat, m \in T
      PROVE  m + 1 \in T
  <2>1. ASSUME NEW v \in SUBSET Steps, Cardinality(Steps \ v) = m + 1, NEW id \in P
        PROVE  f[v][id]
    <3>1. CASE id \in v
      BY <1>2, <3>1
    <3>2. CASE id \notin v
      <4>1. v \cup {id} \in SUBSET Steps /\ Steps \ (v \cup {id}) = (Steps \ v) \ {id}
        OBVIOUS
      <4>5. id \in Steps \ v /\ IsFiniteSet(Steps \ v)
        BY <1>4, <3>2
      <4>6. Cardinality((Steps \ v) \ {id}) = Cardinality(Steps \ v) - 1
        BY <4>5, FS_RemoveElement
      <4>7. Cardinality(Steps \ v) - 1 = m
        BY <2>1
      <4>2. Cardinality(Steps \ (v \cup {id})) = m
        BY <4>1, <4>6, <4>7
      <4>3. PICK d \in deps[id] : d \in P
        OBVIOUS
      <4>4. f[v \cup {id}][d]
        BY <1>6, <4>1, <4>2, <4>3
      <4> QED
        BY <1>2, <4>3, <4>4
    <3> QED
      BY <3>1, <3>2
  <2> QED
    BY <2>1
<1> HIDE DEF T
<1>7. \A m \in Nat : m \in T
  BY <1>5, <1>6, AllNaturals
<1>8. Cardinality(Steps \ {}) \in T
  BY <1>4, <1>7
<1>9. f[{}][s]
  BY <1>8 DEF T
<1> QED
  BY <1>1, <1>9

-----------------------------------------------------------------------------
(* The graph.                                                              *)

(* What plan was accepted has a valid graph, and keeps it.                 *)
THEOREM AcceptedIsValid == Spec => [](plan = "accepted" => ValidDag)
<1>1. Init => (plan = "accepted" => ValidDag)
  BY DEF Init
<1>2. (plan = "accepted" => ValidDag) /\ [Next]_vars
        => (plan = "accepted" => ValidDag)'
  <2> SUFFICES ASSUME plan = "accepted" => ValidDag, [Next]_vars
               PROVE  (plan = "accepted" => ValidDag)'
    OBVIOUS
  <2>1. UNCHANGED deps
    BY DEF Next, vars, Validate, Crash, RunStep, Block, Begin, Prepare, Start,
           Execute, Executed, Reconcile, Record, Verify, Settle, StoreError, Save
  <2>2. ValidDag' = ValidDag
    BY <2>1 DEF ValidDag, HasCycle
  <2>3. CASE Validate
    BY <2>2, <2>3 DEF Validate
  <2>4. CASE UNCHANGED plan
    BY <2>2, <2>4
  <2> QED
    BY <2>3, <2>4
    DEF Next, vars, Crash, RunStep, Block, Begin, Prepare, Start, Execute,
        Executed, Reconcile, Record, Verify, Settle, StoreError, Save
<1> QED
  BY <1>1, <1>2, PTL DEF Spec

(* A step is blocked when, and only when, something upstream did not       *)
(* succeed: a step between them that is no longer pending would have all   *)
(* its dependencies.                                                       *)
LEMMA BlockedIsUpstream ==
  ASSUME IInv, DepsAreSteps, NEW s \in Steps, stored[s] = "pending"
  PROVE  BlockDownstream(stored)[s] = "blocked"
           <=> \E d \in Upstream(s) : stored[d] \in Unsuccessful
<1> DEFINE b == BlockDownstream(stored)
<1>1. stored \in [Steps -> Statuses] /\ DependenciesSucceeded
  BY DEF IInv, TypeOK
<1>2. Passed(stored, b) /\ BlockedOnce(b) = b
  BY <1>1, BlockDownstreamIs
<1> HIDE DEF b
<1>3. /\ b \in [Steps -> Statuses]
      /\ \A t \in Steps : b[t] = stored[t] \/ (stored[t] = "pending" /\ b[t] = "blocked")
  BY <1>2 DEF Passed
<1>4. /\ deps[s] \subseteq Upstream(s)
      /\ \A d \in Upstream(s) : d \in Steps /\ deps[d] \subseteq Upstream(s)
      /\ \A X \in SUBSET Steps :
           deps[s] \subseteq X /\ (\A d \in X : deps[d] \subseteq X)
             => Upstream(s) \subseteq X
  BY UpstreamIs
<1>5. ASSUME b[s] = "blocked"
      PROVE  \E d \in Upstream(s) : stored[d] \in Unsuccessful
  <2> DEFINE Fails(t) == \E d \in Upstream(t) : stored[d] \in Unsuccessful
             X == {t \in Steps : stored[t] \in Unsuccessful \/ Fails(t)}
  <2>1. ASSUME NEW t \in Steps, NEW d \in deps[t], d \in X
        PROVE  Fails(t)
    <3>1. d \in Steps /\ d \in Upstream(t) /\ Upstream(t) \subseteq Steps
      BY <2>1, UpstreamIs
    <3>2. Upstream(d) \subseteq Upstream(t)
      <4>1. deps[d] \subseteq Upstream(t)
        BY <3>1, UpstreamIs
      <4>2. \A e \in Upstream(t) : deps[e] \subseteq Upstream(t)
        BY UpstreamIs
      <4> QED
        BY <3>1, <4>1, <4>2, UpstreamIs
    <3> QED
      BY <2>1, <3>1, <3>2
  <2> HIDE DEF Fails
  <2>2. Holds(X, stored)
    BY <2>1 DEF Holds
  <2>3. X \in SUBSET Steps
    OBVIOUS
  <2>4. b[s] \in Unsuccessful
    BY <1>5 DEF Unsuccessful
  <2>5. s \in X
    BY <1>2, <2>2, <2>3, <2>4 DEF Passed
  <2>6. stored[s] \notin Unsuccessful
    BY DEF Unsuccessful
  <2> QED
    BY <2>5, <2>6 DEF Fails
<1>6. ASSUME b[s] # "blocked"
      PROVE  \A d \in Upstream(s) : stored[d] \notin Unsuccessful
  <2> DEFINE X == {t \in Steps : b[t] \notin Unsuccessful}
  <2>1. ASSUME NEW t \in Steps, b[t] = "pending"
        PROVE  deps[t] \subseteq X
    <3>1. BlockedOnce(b)[t] = "pending"
      BY <1>2, <2>1
    <3>2. ~ \E d \in deps[t] : b[d] \in Unsuccessful
      BY <1>3, <2>1, <3>1, OnePass
    <3> QED
      BY <3>2 DEF DepsAreSteps
  <2>2. ASSUME NEW t \in X, b[t] # "pending"
        PROVE  deps[t] \subseteq X
    <3>1. b[t] # "blocked" /\ t \in Steps
      BY DEF Unsuccessful
    <3>2. stored[t] \notin {"pending", "blocked"}
      BY <1>3, <2>2, <3>1
    <3>3. \A d \in deps[t] : d \in Steps /\ stored[d] = "succeeded"
      BY <1>1, <3>1, <3>2 DEF DependenciesSucceeded
    <3>4. \A d \in deps[t] : b[d] = "succeeded"
      BY <1>3, <3>3
    <3> QED
      BY <3>3, <3>4 DEF Unsuccessful
  <2>3. b[s] = "pending"
    BY <1>3, <1>6
  <2>4. Upstream(s) \subseteq X
    <3>1. deps[s] \subseteq X /\ X \in SUBSET Steps
      BY <2>1, <2>3
    <3>2. \A d \in X : deps[d] \subseteq X
      BY <2>1, <2>2
    <3> HIDE DEF X
    <3> QED
      BY <1>4, <3>1, <3>2
  <2>5. \A d \in Steps : stored[d] \in Unsuccessful => b[d] \in Unsuccessful
    BY <1>3 DEF Unsuccessful
  <2> QED
    BY <1>4, <2>4, <2>5
<1> QED
  BY <1>5, <1>6 DEF b

(* block_downstream marks exactly the pending steps with an unsuccessful   *)
(* step upstream, for any graph that validate_dag accepts.                 *)
THEOREM BlockingIsExactAlways == Spec => []BlockingIsExact
<1>1. IInv => BlockingIsExact
  <2> SUFFICES ASSUME IInv, plan = "accepted"
               PROVE  BlockingIsExact
    BY DEF BlockingIsExact
  <2>1. DepsAreSteps
    BY DEF IInv, DepsAreSteps
  <2> QED
    BY <2>1, BlockedIsUpstream DEF BlockingIsExact
<1> QED
  BY <1>1, Inductive, PTL

(* An accepted plan goes on until every step has a final status: steps     *)
(* that all wait for one another would be a cycle, which validate_dag      *)
(* finds in any graph.                                                     *)
THEOREM NeverStuckAlways == Spec => []NeverStuck
<1>1. ASSUME IInv, plan = "accepted" => ValidDag
      PROVE  NeverStuck
  <2> SUFFICES ASSUME plan = "accepted", NEW t \in Steps, stored[t] \notin Final,
                      Runnable = {},
                      \A s \in Steps : stored[s] \notin Unfinished,
                      \A s \in Steps : stored[s] = "pending" =>
                        BlockDownstream(stored)[s] # "blocked"
               PROVE  FALSE
    BY DEF NeverStuck
  <2> DEFINE P == {s \in Steps : stored[s] = "pending"}
  <2>1. DepsAreSteps /\ \A s \in Steps : ~HasCycle(s)
    BY <1>1 DEF IInv, DepsAreSteps, ValidDag
  <2>2. \A s \in Steps : stored[s] \in Statuses
    BY <1>1 DEF IInv, TypeOK
  <2>3. ASSUME NEW s \in P
        PROVE  \E d \in deps[s] : d \in P
    <3>1. PICK d \in deps[s] : stored[d] # "succeeded"
      BY DEF Runnable
    <3>2. d \in Steps /\ d \in Upstream(s)
      BY <2>1, UpstreamIs DEF DepsAreSteps
    <3>3. stored[d] \notin Unsuccessful
      BY <1>1, <2>1, <3>2, BlockedIsUpstream
    <3>4. stored[d] = "pending"
      BY <2>2, <3>1, <3>2, <3>3 DEF Statuses, Final
    <3> QED
      BY <3>2, <3>4
  <2>4. t \in P
    BY <2>2 DEF Statuses
  <2>5. HasCycle(t)
    <3>1. P \in SUBSET Steps /\ \A s \in P : \E d \in deps[s] : d \in P
      BY <2>3
    <3> HIDE DEF P
    <3> QED
      BY <2>1, <2>4, <3>1, StuckIsCycle
  <2> QED
    BY <2>1, <2>5
<1> QED
  BY <1>1, Inductive, AcceptedIsValid, PTL
=============================================================================
