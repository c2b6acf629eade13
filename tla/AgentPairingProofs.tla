-------------------------- MODULE AgentPairingProofs --------------------------
(***************************************************************************)
(* Theorems about pairing, replacement and subject binding, for any number *)
(* of agents, tokens, requests and transactions in progress.  Most of what *)
(* is promised rests on locks: what a transaction found out about a row it *)
(* has locked is still so when it writes.  CallsOK says what each step of  *)
(* a transaction knows, and LocksExclude why no other one takes it away.   *)
(***************************************************************************)
EXTENDS AgentPairing, FiniteSetTheorems, TLAPS

(* No two transactions hold one lock.                                        *)
LocksExclude ==
  \A x, y \in Calls : x # y /\ calls[x] # Null /\ calls[y] # Null =>
    calls[x].held \cap calls[y].held = {}

(* What a registration knows: its token is locked, and unused from the time  *)
(* it locks the environment; then the old agent is locked, and is the only   *)
(* active one; a drain knows of every envelope, and goes on without any; a   *)
(* forced replacement has locked every row that it moves.                    *)
PairOK(c) ==
  /\ <<"token", c.token>> \in c.held
  /\ tokens[c.token].mode \in Modes
  /\ c.pc # "token" =>
       <<"environment">> \in c.held /\ tokens[c.token].pairs = {}
  /\ c.pc \in {"envelopes", "attempts", "work"} => c.old # Null
  /\ c.old = Null => c.work = {} /\ (c.pc = "insert" => Active = {})
  /\ c.old # Null =>
       /\ c.pc \notin {"token", "paired"}
       /\ <<"agent", c.old>> \in c.held
       /\ Active = {c.old}
       /\ tokens[c.token].mode # "none"
       /\ tokens[c.token].mode = "drain" =>
            /\ c.pc # "envelopes" => \A q \in Requests \ c.work : envelopes[q] = Null
            /\ c.pc = "insert" => c.work = {}
  /\ c.pc = "insert" =>
       \A q \in c.work : \/ requests[q].status \in TerminalStatuses
                          \/ <<"request", q>> \in c.held

(* What the store of an envelope knows: its agent is locked and active.      *)
StoreOK(c) ==
  /\ <<"agent", c.agent>> \in c.held
  /\ agents[c.agent] = "active"

(* What a binding knows: its subject is locked; then its request is locked,  *)
(* unbound and may be cancelled; in the end its candidate is locked, goes on *)
(* and is the only one.                                                      *)
BindOK(c) ==
  /\ <<"subject", c.subject>> \in c.held
  /\ c.pc # "bind" =>
       /\ <<"request", c.request>> \in c.held
       /\ requests[c.request].status \in CancellableDuplicateStatuses
       /\ requests[c.request].subject = Null
  /\ c.pc = "bound" => Candidates(c) \subseteq {c.candidate}
  /\ c.candidate # Null =>
       /\ c.pc = "bound"
       /\ c.candidate # c.request
       /\ <<"request", c.candidate>> \in c.held
       /\ requests[c.candidate].status \notin TerminalStatuses

(* What a save knows: the row of its request is locked.                      *)
SaveOK(c) == <<"request", c.request>> \in c.held

CallOK(c) ==
  /\ c \in PairCalls => PairOK(c)
  /\ c \in StoreCalls => StoreOK(c)
  /\ c \in BindCalls => BindOK(c)
  /\ c \in SaveCalls => SaveOK(c)

CallsOK == \A x \in Calls : calls[x] # Null => CallOK(calls[x])

(* The attempts of a request r agree with its status: the last is open when  *)
(* the status says so, and no other ever.                                    *)
Agrees(r) ==
  /\ \A i \in DOMAIN r.attempts : r.attempts[i] \in OpenAttempt =>
       i = Len(r.attempts) /\ HasOpenAttempt(r)
  /\ HasOpenAttempt(r) => /\ Len(r.attempts) \in DOMAIN r.attempts
                          /\ r.attempts[Len(r.attempts)] \in OpenAttempt

(* Each row of a request, and what was given up as a duplicate.              *)
RowsAgree ==
  \A q \in Requests :
    /\ Agrees(requests[q])
    /\ requests[q].duplicateOf # Null => requests[q].status = "cancelled"

(* The agents and the tokens, in terms of elements.                          *)
OneAgent == \A a, b \in Active : a = b

TokensOfOne == \A t \in Tokens : \A a, b \in tokens[t].pairs : a = b

(* The inductive invariant.                                                  *)
IInv ==
  /\ TypeOK /\ LocksExclude /\ CallsOK /\ RowsAgree /\ OneAgent
  /\ TokensOfOne /\ EnvelopesCanBeOpened /\ OneActiveRequest
-----------------------------------------------------------------------------
(* Moves of a request.                                                       *)

AttemptStatuses == OpenAttempt \cup ClosedAttempt

Lifecycles == [status : Statuses, attempts : Seq(AttemptStatuses)]

(* A function on 1..n is a sequence of length n.                             *)
LEMMA FunctionIsSeq ==
  ASSUME NEW S, NEW n \in Nat, NEW f \in [1..n -> S]
  PROVE  f \in Seq(S) /\ Len(f) = n /\ DOMAIN f = 1..n
OBVIOUS

(* The status of the last attempt is replaced by another.                    *)
LEMMA LastReplaced ==
  ASSUME NEW S, NEW s \in Seq(S), NEW a \in S, Len(s) \in DOMAIN s,
         NEW t, t = [s EXCEPT ![Len(s)] = a]
  PROVE  /\ t \in Seq(S) /\ Len(t) = Len(s) /\ DOMAIN t = DOMAIN s
         /\ t[Len(s)] = a
         /\ \A i \in DOMAIN s : i # Len(s) => t[i] = s[i]
<1>1. s \in [1..Len(s) -> S] /\ Len(s) \in Nat /\ DOMAIN s = 1..Len(s)
  OBVIOUS
<1>2. t \in [1..Len(s) -> S]
  BY <1>1
<1>3. t \in Seq(S) /\ Len(t) = Len(s)
  BY <1>1, <1>2, FunctionIsSeq
<1> QED
  BY <1>1, <1>2, <1>3

(* The statuses that may follow s are statuses, none follows a final one.    *)
LEMMA TransitionsTyped ==
  ASSUME NEW s
  PROVE  /\ Transitions(s) \subseteq Statuses
         /\ s \in TerminalStatuses => Transitions(s) = {}
         /\ s \in TerminalStatuses => s \notin {"execution_authorized", "executing"}
BY DEF Transitions, Statuses, TerminalStatuses

(* A request whose open attempt moves with it goes on to agree with it.      *)
LEMMA MoveWithAttemptAgrees ==
  ASSUME NEW r \in Lifecycles, Agrees(r), HasOpenAttempt(r),
         NEW s \in Statuses, NEW a \in AttemptStatuses,
         a \in OpenAttempt <=> s \in {"execution_authorized", "executing"},
         NEW m, m = MoveWithAttempt(r, s, a)
  PROVE  m \in Lifecycles /\ Agrees(m)
<1> DEFINE n == Len(r.attempts)
<1>1. r.attempts \in Seq(AttemptStatuses) /\ n \in DOMAIN r.attempts
  BY DEF Lifecycles, Agrees
<1>2. PICK t : t = [r.attempts EXCEPT ![n] = a]
  OBVIOUS
<1>3. /\ t \in Seq(AttemptStatuses) /\ Len(t) = n /\ DOMAIN t = DOMAIN r.attempts
      /\ t[n] = a /\ \A i \in DOMAIN t : i # n => t[i] = r.attempts[i]
  BY <1>1, <1>2, LastReplaced
<1>4. m = [status |-> s, attempts |-> t]
  BY <1>2 DEF MoveWithAttempt
<1>5. m.status = s /\ m.attempts = t /\ m \in Lifecycles
  BY <1>3, <1>4 DEF Lifecycles
<1>6. \A i \in DOMAIN t : t[i] \in OpenAttempt => i = n /\ HasOpenAttempt(m)
  BY <1>3, <1>5 DEF Agrees, HasOpenAttempt
<1>7. HasOpenAttempt(m) => t[n] \in OpenAttempt
  BY <1>3, <1>5 DEF HasOpenAttempt
<1> QED
  BY <1>1, <1>3, <1>5, <1>6, <1>7 DEF Agrees

(* Whatever move a request makes, its attempts agree with its status, and a  *)
(* request that has ended makes none.                                        *)
LEMMA MovesAgree ==
  ASSUME NEW r \in Lifecycles, Agrees(r), NEW m \in Moves(r)
  PROVE  m \in Lifecycles /\ Agrees(m) /\ r.status \notin TerminalStatuses
<1>1. r.status \in Statuses /\ r.attempts \in Seq(AttemptStatuses)
  BY DEF Lifecycles
<1>2. CASE m \in Proceed(r)
  <2>1. PICK s \in Transitions(r.status) \ {"execution_authorized"} :
          m = [r EXCEPT !.status = s]
    BY <1>2 DEF Proceed
  <2>2. ~HasOpenAttempt(r)
    BY <1>2 DEF Proceed
  <2>3. s # "executing"
    BY <2>1, <2>2 DEF Transitions, HasOpenAttempt
  <2>4. s \in Statuses /\ r.status \notin TerminalStatuses
    BY <2>1, TransitionsTyped
  <2>5. m \in Lifecycles /\ m.status = s /\ m.attempts = r.attempts
    BY <2>1, <2>4 DEF Lifecycles
  <2> QED
    BY <2>1, <2>2, <2>3, <2>4, <2>5 DEF Agrees, HasOpenAttempt
<1>3. CASE m \in Authorize(r)
  <2>1. PICK t : t = Append(r.attempts, "authorized")
    OBVIOUS
  <2>2. m = [status |-> "execution_authorized", attempts |-> t]
    BY <1>3, <2>1 DEF Authorize
  <2>3. "execution_authorized" \in Statuses /\ "authorized" \in AttemptStatuses
        /\ "authorized" \in OpenAttempt
    BY DEF Statuses, AttemptStatuses, OpenAttempt
  <2>4. /\ t \in Seq(AttemptStatuses) /\ Len(t) = Len(r.attempts) + 1
        /\ DOMAIN t = 1..(Len(r.attempts) + 1) /\ Len(r.attempts) \in Nat
        /\ t[Len(r.attempts) + 1] = "authorized"
        /\ \A i \in 1..Len(r.attempts) : t[i] = r.attempts[i]
        /\ DOMAIN r.attempts = 1..Len(r.attempts)
    BY <1>1, <2>1, <2>3
  <2>5. /\ m \in Lifecycles /\ m.status = "execution_authorized"
        /\ m.attempts = t
    BY <2>2, <2>3, <2>4 DEF Lifecycles
  <2>6. \A i \in 1..Len(r.attempts) : t[i] \notin OpenAttempt
    BY <1>3, <2>4 DEF Agrees, Authorize
  <2>7. \A i \in DOMAIN t : t[i] \in OpenAttempt => i = Len(t)
    BY <2>4, <2>6
  <2>8. Len(t) \in DOMAIN t /\ t[Len(t)] \in OpenAttempt
    BY <2>3, <2>4
  <2>9. r.status \notin TerminalStatuses
    BY <1>3, TransitionsTyped DEF Authorize
  <2> QED
    BY <2>5, <2>7, <2>8, <2>9 DEF Agrees, HasOpenAttempt
<1>4. CASE m \in Start(r)
  <2>1. m = MoveWithAttempt(r, "executing", "running")
        /\ r.status = "execution_authorized"
    BY <1>4 DEF Start
  <2>2. "executing" \in Statuses /\ "running" \in AttemptStatuses
        /\ "running" \in OpenAttempt
    BY DEF Statuses, AttemptStatuses, OpenAttempt
  <2>3. HasOpenAttempt(r) /\ r.status \notin TerminalStatuses
    BY <2>1 DEF HasOpenAttempt, TerminalStatuses
  <2> QED
    BY <2>1, <2>2, <2>3, MoveWithAttemptAgrees
<1>5. CASE m \in Withdraw(r)
  <2>1. PICK s \in Transitions(r.status) \ {"executing"} :
          m = MoveWithAttempt(r, s, "cancelled")
    BY <1>5 DEF Withdraw
  <2>2. r.status = "execution_authorized"
    BY <1>5 DEF Withdraw
  <2>3. "cancelled" \in AttemptStatuses /\ "cancelled" \notin OpenAttempt
    BY DEF AttemptStatuses, ClosedAttempt, OpenAttempt
  <2>4. s \in Statuses /\ s \notin {"execution_authorized", "executing"}
    BY <2>1, <2>2 DEF Transitions, Statuses
  <2>5. HasOpenAttempt(r) /\ r.status \notin TerminalStatuses
    BY <2>2 DEF HasOpenAttempt, TerminalStatuses
  <2> QED
    BY <2>1, <2>3, <2>4, <2>5, MoveWithAttemptAgrees
<1>6. CASE m \in Settle(r)
  <2>1. PICK s \in Transitions(r.status) : m = MoveWithAttempt(r, s, OutcomeOf(s))
    BY <1>6 DEF Settle
  <2>2. r.status = "executing"
    BY <1>6 DEF Settle
  <2>3. s \in {"completed", "partially_completed", "failed", "needs_review"}
    BY <2>1, <2>2 DEF Transitions
  <2>4. /\ s \in Statuses /\ OutcomeOf(s) \in AttemptStatuses
        /\ OutcomeOf(s) \notin OpenAttempt
        /\ s \notin {"execution_authorized", "executing"}
    BY <2>3 DEF OutcomeOf, Statuses, AttemptStatuses, ClosedAttempt, OpenAttempt
  <2>5. HasOpenAttempt(r) /\ r.status \notin TerminalStatuses
    BY <2>2 DEF HasOpenAttempt, TerminalStatuses
  <2> QED
    BY <2>1, <2>4, <2>5, MoveWithAttemptAgrees
<1>7. CASE m \in Annotate(r)
  BY <1>7 DEF Annotate, TerminalStatuses
<1> QED
  BY <1>2, <1>3, <1>4, <1>5, <1>6, <1>7 DEF Moves

-----------------------------------------------------------------------------
(* Calls.                                                                    *)

Tables == <<agents, tokens, requests, envelopes, audited, removed>>

(* What the step of a call that goes on does: it takes locks that are free.  *)
Advances(x) ==
  /\ UNCHANGED Tables
  /\ \E y \in CallStates, locks \in SUBSET Locks :
       /\ calls' = [calls EXCEPT ![x] = y]
       /\ Free(x, locks)
       /\ y.held = locks \cup (IF calls[x] = Null THEN {} ELSE calls[x].held)
       /\ CallOK(y)

(* A call is of one kind, which the step it is at tells.                     *)
LEMMA KindOfCall ==
  ASSUME NEW c \in CallStates
  PROVE  /\ c.pc \in {"token", "paired", "envelopes", "attempts", "work",
                      "insert"} <=> c \in PairCalls
         /\ c.pc = "store" <=> c \in StoreCalls
         /\ c.pc \in {"bind", "agent", "envelope", "candidates", "bound"}
              <=> c \in BindCalls
         /\ c.pc = "save" <=> c \in SaveCalls
         /\ c \in PairCalls => (CallOK(c) <=> PairOK(c))
         /\ c \in StoreCalls => (CallOK(c) <=> StoreOK(c))
         /\ c \in BindCalls => (CallOK(c) <=> BindOK(c))
         /\ c \in SaveCalls => (CallOK(c) <=> SaveOK(c))
<1>1. /\ c \in PairCalls => c.pc \in {"token", "paired", "envelopes",
                                      "attempts", "work", "insert"}
      /\ c \in StoreCalls => c.pc = "store"
      /\ c \in BindCalls =>
           c.pc \in {"bind", "agent", "envelope", "candidates", "bound"}
      /\ c \in SaveCalls => c.pc = "save"
  BY DEF PairCalls, StoreCalls, BindCalls, SaveCalls
<1>2. c \in PairCalls \/ c \in StoreCalls \/ c \in BindCalls \/ c \in SaveCalls
  BY DEF CallStates
<1>3. /\ c \in PairCalls => c \notin StoreCalls \cup BindCalls \cup SaveCalls
      /\ c \in StoreCalls => c \notin PairCalls \cup BindCalls \cup SaveCalls
      /\ c \in BindCalls => c \notin PairCalls \cup StoreCalls \cup SaveCalls
      /\ c \in SaveCalls => c \notin PairCalls \cup StoreCalls \cup BindCalls
  BY <1>1
<1>4. /\ c \in PairCalls => (CallOK(c) <=> PairOK(c))
      /\ c \in StoreCalls => (CallOK(c) <=> StoreOK(c))
      /\ c \in BindCalls => (CallOK(c) <=> BindOK(c))
      /\ c \in SaveCalls => (CallOK(c) <=> SaveOK(c))
  BY <1>3 DEF CallOK
<1> QED
  BY <1>1, <1>2, <1>3, <1>4

(* A call that begins with locks which are free advances.                    *)
LEMMA BeginAdvances ==
  ASSUME TypeOK, NEW x \in Calls, NEW y \in CallStates, Begin(x, y),
         UnchangedTables, CallOK(y)
  PROVE  Advances(x)
<1>1. y.held \in SUBSET Locks
  BY DEF CallStates, PairCalls, StoreCalls, BindCalls, SaveCalls
<1>2. y.held = y.held \cup (IF calls[x] = Null THEN {} ELSE calls[x].held)
  BY DEF Begin
<1>3. UNCHANGED Tables
  BY DEF UnchangedTables, UnchangedRequests, UnchangedAgents, Tables
<1> QED
  BY <1>1, <1>2, <1>3 DEF Advances, Begin

(* So does the beginning of each kind of call: a registration,               *)
LEMMA BeginPairAdvances ==
  ASSUME TypeOK, NEW x \in Calls, NEW t \in Tokens, NEW a \in Agents,
         BeginPair(x, t, a)
  PROVE  Advances(x)
<1> DEFINE y == [kind |-> "pair", pc |-> "token", held |-> {<<"token", t>>},
                 token |-> t, agent |-> a, old |-> Null, work |-> {}]
<1>1. tokens[t].mode \in Modes
  BY DEF BeginPair, TypeOK, TokenRows
<1>2. <<"token", t>> \in Locks
  BY DEF Locks
<1>3. y \in PairCalls
  BY <1>2 DEF PairCalls
<1>4. PairOK(y)
  BY <1>1 DEF PairOK
<1>5. Begin(x, y) /\ UnchangedTables
  BY DEF BeginPair
<1>6. y \in CallStates
  BY <1>3 DEF CallStates
<1> HIDE DEF y
<1>7. CallOK(y)
  BY <1>3, <1>4, <1>6, KindOfCall
<1> QED
  BY <1>5, <1>6, <1>7, BeginAdvances

(* ... a store,                                                              *)
LEMMA BeginStoreAdvances ==
  ASSUME TypeOK, NEW x \in Calls, NEW q \in Requests, NEW a \in Agents,
         BeginStore(x, q, a)
  PROVE  Advances(x)
<1> DEFINE y == [kind |-> "store", pc |-> "store", held |-> StoreLocks(q, a),
                 request |-> q, agent |-> a]
<1>1. StoreLocks(q, a) \subseteq Locks /\ <<"agent", a>> \in StoreLocks(q, a)
  BY DEF Locks, StoreLocks
<1>2. y \in StoreCalls
  BY <1>1 DEF StoreCalls
<1>3. StoreOK(y)
  BY <1>1 DEF StoreOK, BeginStore, Active
<1>4. Begin(x, y) /\ UnchangedTables
  BY DEF BeginStore
<1>5. y \in CallStates
  BY <1>2 DEF CallStates
<1> HIDE DEF y
<1>6. CallOK(y)
  BY <1>2, <1>3, <1>5, KindOfCall
<1> QED
  BY <1>4, <1>5, <1>6, BeginAdvances

(* ... a binding,                                                            *)
LEMMA BeginBindAdvances ==
  ASSUME TypeOK, NEW x \in Calls, NEW q \in Requests, NEW a \in Agents,
         NEW h \in Subjects, NEW override \in BOOLEAN,
         BeginBind(x, q, a, h, override)
  PROVE  Advances(x)
<1> DEFINE y == [kind |-> "bind", pc |-> "bind", held |-> SubjectLock(h),
                 request |-> q, agent |-> a, subject |-> h,
                 override |-> override, version |-> requests[q].version,
                 candidate |-> Null]
<1>1. SubjectLock(h) \subseteq Locks /\ <<"subject", h>> \in SubjectLock(h)
  BY DEF Locks, SubjectLock
<1>2. requests[q].version \in Nat
  BY DEF TypeOK, RequestRows
<1>3. y \in BindCalls
  BY <1>1, <1>2 DEF BindCalls
<1>4. BindOK(y)
  BY <1>1 DEF BindOK
<1>5. Begin(x, y) /\ UnchangedTables
  BY DEF BeginBind
<1>6. y \in CallStates
  BY <1>3 DEF CallStates
<1> HIDE DEF y
<1>7. CallOK(y)
  BY <1>3, <1>4, <1>6, KindOfCall
<1> QED
  BY <1>5, <1>6, <1>7, BeginAdvances

(* ... and a save.                                                           *)
LEMMA BeginSaveAdvances ==
  ASSUME TypeOK, NEW x \in Calls, NEW q \in Requests, BeginSave(x, q)
  PROVE  Advances(x)
<1> DEFINE y == [kind |-> "save", pc |-> "save", held |-> {<<"request", q>>},
                 request |-> q]
<1>1. y \in SaveCalls
  BY DEF SaveCalls, Locks
<1>2. SaveOK(y)
  BY DEF SaveOK
<1>3. Begin(x, y) /\ UnchangedTables
  BY DEF BeginSave
<1>4. y \in CallStates
  BY <1>1 DEF CallStates
<1> HIDE DEF y
<1>5. CallOK(y)
  BY <1>1, <1>2, <1>4, KindOfCall
<1> QED
  BY <1>3, <1>4, <1>5, BeginAdvances

(* A call that goes on with more locks advances.                             *)
LEMMA CallAdvances ==
  ASSUME TypeOK, NEW x \in Calls, calls[x] # Null, NEW y \in CallStates,
         NEW locks \in SUBSET Locks, Free(x, locks), UnchangedTables,
         calls' = [calls EXCEPT ![x] = y],
         y.held = calls[x].held \cup locks, CallOK(y)
  PROVE  Advances(x)
<1>1. UNCHANGED Tables
  BY DEF UnchangedTables, UnchangedRequests, UnchangedAgents, Tables
<1> QED
  BY <1>1 DEF Advances

(* A call is at a step of its kind, and knows what it needs there.           *)
LEMMA CallAt ==
  ASSUME TypeOK, CallsOK, NEW x \in Calls, calls[x] # Null
  PROVE  /\ calls[x] \in CallStates
         /\ calls[x] \in PairCalls => PairOK(calls[x])
         /\ calls[x] \in StoreCalls => StoreOK(calls[x])
         /\ calls[x] \in BindCalls => BindOK(calls[x])
         /\ calls[x] \in SaveCalls => SaveOK(calls[x])
<1>1. calls[x] \in CallStates
  BY DEF TypeOK
<1> QED
  BY <1>1, KindOfCall DEF CallsOK, CallOK

(* The locks of a registration in progress.                                  *)
LEMMA LockEnvironmentAdvances ==
  ASSUME TypeOK, CallsOK, NEW x \in Calls, LockEnvironment(x)
  PROVE  End(x) \/ Advances(x)
<1> SUFFICES ASSUME IsUnused(x), Take(x, {<<"environment">>}, "paired")
             PROVE  Advances(x)
  BY DEF LockEnvironment
<1>1. PICK c : c = calls[x]
  OBVIOUS
<1>2. c \in PairCalls /\ PairOK(c) /\ c.pc = "token" /\ c # Null
  BY <1>1, CallAt, KindOfCall DEF LockEnvironment, At
<1> DEFINE locks == {<<"environment">>}
           y == [c EXCEPT !.held = @ \cup locks, !.pc = "paired"]
<1>3. locks \in SUBSET Locks
  BY DEF Locks
<1>4. /\ y \in PairCalls /\ y.held = c.held \cup locks /\ y.pc = "paired"
      /\ y.token = c.token /\ y.old = c.old /\ y.work = c.work
  BY <1>2, <1>3 DEF PairCalls
<1>5. calls' = [calls EXCEPT ![x] = y] /\ Free(x, locks)
  BY <1>1 DEF Take
<1>6. tokens[c.token].pairs = {}
  BY <1>1 DEF IsUnused
<1> HIDE DEF y
<1>7. PairOK(y)
  BY <1>2, <1>4, <1>6 DEF PairOK
<1>8. y \in CallStates /\ CallOK(y)
  BY <1>4, <1>7, KindOfCall DEF CallStates
<1> QED
  BY <1>1, <1>2, <1>3, <1>4, <1>5, <1>8, CallAdvances DEF LockEnvironment

(* The old agent is the only active one.                                     *)
LEMMA LockActiveAgentAdvances ==
  ASSUME TypeOK, CallsOK, OneAgent, NEW x \in Calls, LockActiveAgent(x)
  PROVE  End(x) \/ Advances(x)
<1>1. PICK c : c = calls[x]
  OBVIOUS
<1>2. c \in PairCalls /\ PairOK(c) /\ c.pc = "paired" /\ c # Null
  BY <1>1, CallAt, KindOfCall DEF LockActiveAgent, At
<1>3. c.old = Null /\ c.work = {}
  BY <1>2 DEF PairOK
<1>4. CASE Active = {} /\ Take(x, {}, "insert")
  <2> DEFINE y == [c EXCEPT !.held = @ \cup {}, !.pc = "insert"]
  <2>1. /\ y \in PairCalls /\ y.held = c.held \cup {} /\ y.pc = "insert"
        /\ y.token = c.token /\ y.old = c.old /\ y.work = c.work
    BY <1>2 DEF PairCalls
  <2>2. calls' = [calls EXCEPT ![x] = y] /\ Free(x, {})
    BY <1>1, <1>4 DEF Take
  <2> HIDE DEF y
  <2>3. PairOK(y)
    BY <1>2, <1>3, <1>4, <2>1 DEF PairOK
  <2>4. y \in CallStates /\ CallOK(y) /\ {} \in SUBSET Locks
    BY <2>1, <2>3, KindOfCall DEF CallStates
  <2> QED
    BY <1>1, <1>2, <2>1, <2>2, <2>4, CallAdvances DEF LockActiveAgent
<1>5. ASSUME NEW a \in Active, Free(x, {<<"agent", a>>}),
             tokens[c.token].mode # "none",
             calls' = [calls EXCEPT ![x].held = @ \cup {<<"agent", a>>},
                                    ![x].old = a, ![x].pc = "envelopes"]
      PROVE  Advances(x)
  <2> DEFINE locks == {<<"agent", a>>}
             y == [c EXCEPT !.held = @ \cup locks, !.old = a,
                            !.pc = "envelopes"]
  <2>0. a \in Agents /\ a # Null
    BY AgentPairingAssumption DEF Active
  <2>1. locks \in SUBSET Locks
    BY <2>0 DEF Locks
  <2>2. /\ y \in PairCalls /\ y.held = c.held \cup locks
        /\ y.pc = "envelopes" /\ y.token = c.token /\ y.old = a
        /\ y.work = c.work
    BY <1>2, <2>0, <2>1 DEF PairCalls
  <2>3. calls' = [calls EXCEPT ![x] = y]
    BY <1>1, <1>5
  <2>4. Active = {a}
    BY DEF OneAgent
  <2>5. Free(x, locks) /\ <<"agent", a>> \in locks
    BY <1>5
  <2> HIDE DEF y, locks
  <2>6. PairOK(y)
    BY <1>2, <1>3, <1>5, <2>0, <2>2, <2>4, <2>5 DEF PairOK
  <2>7. y \in CallStates /\ CallOK(y)
    BY <2>2, <2>6, KindOfCall DEF CallStates
  <2> QED
    BY <1>1, <1>2, <2>1, <2>2, <2>3, <2>5, <2>7, CallAdvances
    DEF LockActiveAgent
<1> QED
  BY <1>1, <1>4, <1>5 DEF LockActiveAgent

(* What a replacement has collected is locked.                               *)
LEMMA CollectAdvances ==
  ASSUME TypeOK, NEW x \in Calls, NEW c \in PairCalls, c = calls[x], PairOK(c),
         NEW what \in {"envelope", "attempts"}, NEW affected \in SUBSET Requests,
         NEW pc \in {"attempts", "work"}, c.pc \in {"envelopes", "attempts"},
         Collect(x, what, affected, pc), UnchangedTables,
         tokens[c.token].mode = "drain" =>
           \A q \in Requests \ (c.work \cup affected) : envelopes[q] = Null
  PROVE  Advances(x)
<1> DEFINE locks == {<<what, q>> : q \in affected}
           y == [c EXCEPT !.held = @ \cup locks, !.work = @ \cup affected,
                          !.pc = pc]
<1>1. locks \in SUBSET Locks
  BY DEF Locks
<1>2. /\ y \in PairCalls /\ y.held = c.held \cup locks /\ y.pc = pc
      /\ y.token = c.token /\ y.old = c.old /\ y.work = c.work \cup affected
  BY <1>1 DEF PairCalls
<1>3. calls' = [calls EXCEPT ![x] = y] /\ Free(x, locks)
  BY DEF Collect
<1>4. c.old # Null /\ pc # "insert" /\ pc # "token"
  BY DEF PairOK
<1> HIDE DEF y, locks
<1>5. PairOK(y)
  BY <1>2, <1>4 DEF PairOK
<1>6. y \in CallStates /\ CallOK(y) /\ c # Null
  BY <1>2, <1>5, KindOfCall, NullAssumption DEF CallStates
<1> QED
  BY <1>1, <1>2, <1>3, <1>6, CallAdvances

(* The envelopes, the attempts,                                              *)
LEMMA ReadsAdvance ==
  ASSUME TypeOK, CallsOK, NEW x \in Calls, ReadEnvelopes(x) \/ ReadAttempts(x)
  PROVE  Advances(x)
<1>1. PICK c : c = calls[x]
  OBVIOUS
<1>2. /\ c \in PairCalls /\ PairOK(c) /\ c # Null
      /\ c.pc \in {"envelopes", "attempts"}
  BY <1>1, CallAt, KindOfCall DEF ReadEnvelopes, ReadAttempts, At
<1>3. CASE ReadEnvelopes(x)
  <2> DEFINE affected == {q \in Requests : envelopes[q] # Null}
  <2>1. /\ affected \in SUBSET Requests
        /\ \A q \in Requests \ (c.work \cup affected) : envelopes[q] = Null
        /\ Collect(x, "envelope", affected, "attempts") /\ UnchangedTables
    BY <1>3 DEF ReadEnvelopes
  <2> HIDE DEF affected
  <2> QED
    BY <1>1, <1>2, <2>1, CollectAdvances
<1>4. CASE ReadAttempts(x)
  <2> DEFINE affected == {q \in Requests : Working(q)}
  <2>1. /\ affected \in SUBSET Requests /\ c.pc = "attempts"
        /\ Collect(x, "attempts", affected, "work") /\ UnchangedTables
    BY <1>1, <1>4 DEF ReadAttempts, At
  <2> HIDE DEF affected
  <2>2. tokens[c.token].mode = "drain" =>
          \A q \in Requests \ (c.work \cup affected) : envelopes[q] = Null
    BY <1>2, <2>1 DEF PairOK
  <2> QED
    BY <1>1, <1>2, <2>1, <2>2, CollectAdvances
<1> QED
  BY <1>3, <1>4

(* ... and the rows that a replacement will move.                            *)
LEMMA LockWorkAdvances ==
  ASSUME TypeOK, CallsOK, NEW x \in Calls, LockWork(x)
  PROVE  End(x) \/ Advances(x)
<1>1. PICK c : c = calls[x]
  OBVIOUS
<1>2. c \in PairCalls /\ PairOK(c) /\ c.pc = "work" /\ c # Null
  BY <1>1, CallAt, KindOfCall DEF LockWork, At
<1> DEFINE locks == {<<"request", q>> : q \in
                       {w \in c.work : requests[w].status \notin TerminalStatuses}}
           y == [c EXCEPT !.held = @ \cup locks, !.pc = "insert"]
<1> SUFFICES ASSUME ~IsBlocked(x), Take(x, locks, "insert")
             PROVE  Advances(x)
  BY <1>1 DEF LockWork
<1>3. locks \in SUBSET Locks
  BY <1>2 DEF Locks, PairCalls
<1>4. /\ y \in PairCalls /\ y.held = c.held \cup locks /\ y.pc = "insert"
      /\ y.token = c.token /\ y.old = c.old /\ y.work = c.work
  BY <1>2, <1>3 DEF PairCalls
<1>5. calls' = [calls EXCEPT ![x] = y] /\ Free(x, locks)
  BY <1>1 DEF Take
<1>6. \A q \in c.work : \/ requests[q].status \in TerminalStatuses
                        \/ <<"request", q>> \in locks
  OBVIOUS
<1>7. tokens[c.token].mode = "drain" => c.work = {}
  BY <1>1 DEF IsBlocked
<1> HIDE DEF y, locks
<1>8. PairOK(y)
  BY <1>2, <1>4, <1>6, <1>7 DEF PairOK
<1>9. y \in CallStates /\ CallOK(y)
  BY <1>4, <1>8, KindOfCall DEF CallStates
<1> QED
  BY <1>1, <1>2, <1>3, <1>4, <1>5, <1>9, CallAdvances DEF LockWork

(* The locks of a binding in progress: its request,                          *)
LEMMA LockRequestAdvances ==
  ASSUME TypeOK, CallsOK, NEW x \in Calls, LockRequest(x)
  PROVE  End(x) \/ Advances(x)
<1>1. PICK c : c = calls[x]
  OBVIOUS
<1>2. c \in BindCalls /\ BindOK(c) /\ c.pc = "bind" /\ c # Null
  BY <1>1, CallAt, KindOfCall DEF LockRequest, At
<1> DEFINE locks == {<<"request", c.request>>, <<"environment">>}
           y == [c EXCEPT !.held = @ \cup locks, !.pc = "agent"]
<1> SUFFICES ASSUME requests[c.request].subject # c.subject, IsBindable(c),
                    Take(x, locks, "agent")
             PROVE  Advances(x)
  BY <1>1 DEF LockRequest
<1>3. locks \in SUBSET Locks /\ <<"request", c.request>> \in locks
  BY <1>2 DEF Locks, BindCalls
<1>4. /\ y \in BindCalls /\ y.held = c.held \cup locks /\ y.pc = "agent"
      /\ y.request = c.request /\ y.subject = c.subject
      /\ y.candidate = c.candidate /\ y.override = c.override
  BY <1>2, <1>3 DEF BindCalls
<1>5. calls' = [calls EXCEPT ![x] = y] /\ Free(x, locks)
  BY <1>1 DEF Take
<1>6. UnchangedTables
  <2>1. envelopes' = [envelopes EXCEPT ![c.request] = envelopes[c.request]]
    BY <1>1 DEF LockRequest
  <2>2. envelopes' = envelopes
    BY <2>1 DEF TypeOK
  <2> QED
    BY <2>2 DEF LockRequest, UnchangedTables, UnchangedRequests
<1> HIDE DEF y, locks
<1>7. BindOK(y)
  BY <1>2, <1>3, <1>4 DEF BindOK, IsBindable
<1>8. y \in CallStates /\ CallOK(y)
  BY <1>4, <1>7, KindOfCall DEF CallStates
<1> QED
  BY <1>1, <1>2, <1>3, <1>4, <1>5, <1>6, <1>8, CallAdvances

(* ... the agent, the envelope                                               *)
LEMMA BindTakes ==
  ASSUME TypeOK, NEW x \in Calls, NEW c \in BindCalls, c = calls[x], BindOK(c),
         c.pc \in {"agent", "envelope"}, NEW pc \in {"envelope", "candidates"},
         NEW locks \in SUBSET Locks, Take(x, locks, pc), UnchangedTables
  PROVE  Advances(x)
<1> DEFINE y == [c EXCEPT !.held = @ \cup locks, !.pc = pc]
<1>1. /\ y \in BindCalls /\ y.held = c.held \cup locks /\ y.pc = pc
      /\ y.request = c.request /\ y.subject = c.subject
      /\ y.candidate = c.candidate /\ y.override = c.override
  BY DEF BindCalls
<1>2. calls' = [calls EXCEPT ![x] = y] /\ Free(x, locks)
  BY DEF Take
<1> HIDE DEF y
<1>3. BindOK(y)
  BY <1>1 DEF BindOK
<1>4. y \in CallStates /\ CallOK(y) /\ c # Null
  BY <1>1, <1>3, KindOfCall, NullAssumption DEF CallStates
<1> QED
  BY <1>1, <1>2, <1>4, CallAdvances

(* ... that it was sent with,                                                *)
LEMMA LocksOfBindAdvance ==
  ASSUME TypeOK, CallsOK, NEW x \in Calls, LockAgent(x) \/ LockEnvelope(x)
  PROVE  End(x) \/ Advances(x)
<1>1. PICK c : c = calls[x]
  OBVIOUS
<1>2. /\ c \in BindCalls /\ BindOK(c) /\ c # Null
      /\ c.pc \in {"agent", "envelope"}
  BY <1>1, CallAt, KindOfCall DEF LockAgent, LockEnvelope, At
<1>3. {<<"agent", c.agent>>} \in SUBSET Locks
  BY <1>2 DEF Locks, BindCalls
<1>4. {<<"envelope", c.request>>} \in SUBSET Locks
  BY <1>2 DEF Locks, BindCalls
<1>5. CASE LockAgent(x)
  BY <1>1, <1>2, <1>3, <1>5, BindTakes DEF LockAgent
<1>6. CASE LockEnvelope(x)
  BY <1>1, <1>2, <1>4, <1>6, BindTakes DEF LockEnvelope
<1> QED
  BY <1>5, <1>6

(* ... and the other active requests of its subject, of which there is at    *)
(* most one.                                                                 *)
LEMMA CandidateAdvances ==
  ASSUME TypeOK, NEW x \in Calls, NEW c \in BindCalls, c = calls[x], BindOK(c),
         c.pc = "candidates", NEW found, found = Candidates(c),
         NEW candidate \in Requests \cup {Null}, found \subseteq {candidate},
         candidate # Null => candidate \in found,
         NEW locks, locks = {<<"request", q>> : q \in found}, Free(x, locks),
         UnchangedTables,
         calls' = [calls EXCEPT ![x].held = @ \cup locks, ![x].pc = "bound",
                                ![x].candidate = candidate]
  PROVE  Advances(x)
<1> DEFINE y == [c EXCEPT !.held = @ \cup locks, !.pc = "bound",
                          !.candidate = candidate]
<1>1. \A q \in found : /\ q \in Requests /\ q # c.request
                       /\ requests[q].status \notin TerminalStatuses
  BY DEF Candidates
<1>2. locks \in SUBSET Locks
  <2>1. \A q \in Requests : <<"request", q>> \in Locks
    BY DEF Locks
  <2> QED
    BY <1>1, <2>1
<1>3. /\ y \in BindCalls /\ y.held = c.held \cup locks /\ y.pc = "bound"
      /\ y.request = c.request /\ y.subject = c.subject
      /\ y.candidate = candidate /\ y.override = c.override
  BY <1>2 DEF BindCalls
<1>4. calls' = [calls EXCEPT ![x] = y]
  OBVIOUS
<1> HIDE DEF y
<1>5. Candidates(y) = found
  BY <1>3 DEF Candidates
<1>6. candidate # Null =>
        /\ candidate # c.request
        /\ <<"request", candidate>> \in locks
        /\ requests[candidate].status \notin TerminalStatuses
  BY <1>1
<1>7. BindOK(y)
  BY <1>3, <1>5, <1>6 DEF BindOK
<1>8. y \in CallStates /\ CallOK(y) /\ c # Null
  BY <1>3, <1>7, KindOfCall, NullAssumption DEF CallStates
<1> QED
  BY <1>2, <1>3, <1>4, <1>8, CallAdvances

(* The oldest of them is the candidate.                                      *)
LEMMA LockCandidatesAdvances ==
  ASSUME TypeOK, CallsOK, OneActiveRequest, NEW x \in Calls, LockCandidates(x)
  PROVE  Advances(x)
<1>1. /\ calls[x] \in BindCalls /\ BindOK(calls[x])
      /\ calls[x].pc = "candidates" /\ calls[x] # Null
  BY CallAt, KindOfCall DEF LockCandidates, At
<1> DEFINE found == Candidates(calls[x])
           locks == {<<"request", q>> : q \in found}
           candidate == IF found = {} THEN Null ELSE CHOOSE q \in found :
                          \A p \in found : q <= p
<1>2. /\ calls' = [calls EXCEPT ![x].held = @ \cup locks, ![x].pc = "bound",
                                ![x].candidate = candidate]
      /\ Free(x, locks) /\ UnchangedTables
  BY DEF LockCandidates
<1>3. calls[x].subject # Null /\ calls[x].override \in BOOLEAN
  BY <1>1, AgentPairingAssumption DEF BindCalls
<1>4. \A q \in found : /\ q \in Requests
                       /\ requests[q].subject = calls[x].subject
                       /\ ~requests[q].override
                       /\ requests[q].status \notin TerminalStatuses
  BY DEF Candidates
<1> HIDE DEF found
<1>5. \A p, q \in found : p = q
  BY <1>3, <1>4 DEF OneActiveRequest
<1>6. ASSUME NEW q \in found PROVE q <= q
  <2>1. q \in Nat
    BY <1>4, AgentPairingAssumption
  <2> QED
    BY <2>1
<1>7. found # {} => candidate \in found
  BY <1>5, <1>6
<1>8. found = {} => candidate = Null
  OBVIOUS
<1> HIDE DEF candidate
<1>9. /\ candidate \in Requests \cup {Null} /\ found \subseteq {candidate}
      /\ candidate # Null => candidate \in found
  BY <1>4, <1>5, <1>7, <1>8
<1>10. PICK n \in Requests \cup {Null} : n = candidate
  BY <1>9
<1>11. PICK c \in BindCalls : c = calls[x]
  BY <1>1
<1>12. PICK f : f = found
  OBVIOUS
<1>13. f = Candidates(c)
  BY <1>11, <1>12 DEF found
<1>14. PICK l : l = {<<"request", q>> : q \in f}
  OBVIOUS
<1> QED
  BY <1>1, <1>2, <1>9, <1>10, <1>11, <1>12, <1>13, <1>14, CandidateAdvances

(* Every step is that of no call, or one that a call ends with or advances.  *)
LEMMA Steps ==
  ASSUME TypeOK, CallsOK, OneAgent, OneActiveRequest, [Next]_vars
  PROVE  \/ calls' = calls
         \/ \E x \in Calls : Advances(x) \/ End(x)
<1>1. ASSUME NEW x \in Calls,
             PairStep(x) \/ StoreEnvelope(x) \/ BindStep(x) \/ Save(x) \/ Fail(x)
      PROVE  Advances(x) \/ End(x)
  <2>1. CASE PairStep(x)
    BY <2>1, LockEnvironmentAdvances, LockActiveAgentAdvances, ReadsAdvance,
       LockWorkAdvances DEF PairStep, Pair
  <2>2. CASE BindStep(x)
    BY <2>2, LockRequestAdvances, LocksOfBindAdvance, LockCandidatesAdvances
    DEF BindStep, Bind
  <2> QED
    BY <1>1, <2>1, <2>2 DEF StoreEnvelope, Save, Fail
<1> QED
  BY <1>1, BeginPairAdvances, BeginStoreAdvances, BeginBindAdvances,
     BeginSaveAdvances DEF Next, vars, IssueToken, RevokeAgent, Forget

(* The calls stay calls, and no two hold one lock.                           *)
LEMMA LocksStep ==
  ASSUME TypeOK, CallsOK, OneAgent, OneActiveRequest, LocksExclude, [Next]_vars
  PROVE  /\ calls' \in [Calls -> CallStates \cup {Null}]
         /\ LocksExclude'
<1>1. CASE calls' = calls
  BY <1>1 DEF LocksExclude, TypeOK
<1>2. ASSUME NEW x \in Calls, End(x)
      PROVE  calls' \in [Calls -> CallStates \cup {Null}] /\ LocksExclude'
  BY <1>2 DEF End, LocksExclude, TypeOK
<1>3. ASSUME NEW x \in Calls, Advances(x)
      PROVE  calls' \in [Calls -> CallStates \cup {Null}] /\ LocksExclude'
  <2>1. PICK y \in CallStates, locks \in SUBSET Locks :
          /\ calls' = [calls EXCEPT ![x] = y] /\ Free(x, locks)
          /\ y.held = locks \cup (IF calls[x] = Null THEN {} ELSE calls[x].held)
    BY <1>3 DEF Advances
  <2>2. \A z \in Calls \ {x} : calls[z] # Null => y.held \cap calls[z].held = {}
    BY <2>1 DEF Free, LocksExclude
  <2> QED
    BY <2>1, <2>2 DEF LocksExclude, TypeOK
<1> QED
  BY <1>1, <1>2, <1>3, Steps

-----------------------------------------------------------------------------
(* Rows of requests.                                                         *)

(* A replacement moves the rows that it has locked, and no others.           *)
LEMMA PairRows ==
  ASSUME TypeOK, CallsOK, RowsAgree, NEW x \in Calls, NEW c, c = calls[x],
         Pair(x), NEW q \in Requests, NEW r, r = requests[q], NEW s, s = requests'[q]
  PROVE  \/ s = r
         \/ /\ <<"request", q>> \in c.held
            /\ r.status \notin TerminalStatuses
            /\ s \in RequestRows /\ Agrees(s) /\ s.status = "needs_review"
            /\ s.subject = r.subject /\ s.override = r.override
            /\ s.duplicateOf = r.duplicateOf /\ s.version = r.version + 1
            /\ tokens[c.token].mode = "force"
<1>1. /\ c \in PairCalls /\ PairOK(c) /\ c.pc = "insert" /\ c # Null
  BY CallAt, KindOfCall DEF Pair, At
<1>2. r \in RequestRows /\ Agrees(r)
  BY DEF TypeOK, RowsAgree
<1> DEFINE forced == c.old # Null /\ tokens[c.token].mode = "force"
           moved == /\ q \in c.work /\ forced
                    /\ r.status \notin TerminalStatuses
<1>3. s = [r EXCEPT
              !.status   = IF moved THEN "needs_review" ELSE r.status,
              !.version  = IF moved THEN r.version + 1 ELSE r.version,
              !.attempts = IF forced /\ q \in c.work THEN Abandoned(r.attempts)
                           ELSE r.attempts]
  BY DEF Pair
<1>4. CASE ~(forced /\ q \in c.work)
  BY <1>2, <1>3, <1>4 DEF RequestRows
<1>5. CASE forced /\ q \in c.work
  <2>1. PICK n : n = Abandoned(r.attempts)
    OBVIOUS
  <2>2. r.attempts \in Seq(AttemptStatuses) /\ DOMAIN r.attempts = 1..Len(r.attempts)
        /\ Len(r.attempts) \in Nat
    BY <1>2 DEF RequestRows, AttemptStatuses
  <2>3. "needs_review" \in AttemptStatuses \ OpenAttempt
    BY DEF AttemptStatuses, ClosedAttempt, OpenAttempt
  <2>4. /\ n \in [1..Len(r.attempts) -> AttemptStatuses]
        /\ \A i \in 1..Len(r.attempts) : n[i] \notin OpenAttempt
    BY <2>1, <2>2, <2>3 DEF Abandoned
  <2>5. n \in Seq(AttemptStatuses) /\ DOMAIN n = 1..Len(r.attempts)
    BY <2>2, <2>4, FunctionIsSeq
  <2>6. CASE r.status \in TerminalStatuses
    <3>1. \A i \in DOMAIN r.attempts : r.attempts[i] \notin OpenAttempt
      BY <1>2, <2>6, TransitionsTyped DEF Agrees, HasOpenAttempt
    <3>2. r.attempts \in [1..Len(r.attempts) -> AttemptStatuses]
      BY <2>2
    <3>3. n = r.attempts
      BY <2>1, <2>2, <3>1, <3>2 DEF Abandoned
    <3>4. s = [r EXCEPT !.status = r.status, !.version = r.version,
                        !.attempts = r.attempts]
      BY <1>3, <1>5, <2>1, <2>6, <3>3
    <3> QED
      BY <1>2, <3>4 DEF RequestRows
  <2>7. CASE r.status \notin TerminalStatuses
    <3>1. s = [r EXCEPT !.status = "needs_review", !.version = r.version + 1,
                        !.attempts = n]
      BY <1>3, <1>5, <2>1, <2>7
    <3>2. "needs_review" \in Statuses /\ r.version + 1 \in Nat
      BY <1>2 DEF Statuses, RequestRows
    <3>3. /\ s \in RequestRows /\ s.status = "needs_review" /\ s.attempts = n
          /\ s.subject = r.subject /\ s.override = r.override
          /\ s.duplicateOf = r.duplicateOf /\ s.version = r.version + 1
      BY <1>2, <2>5, <3>1, <3>2 DEF RequestRows, AttemptStatuses
    <3>4. Agrees(s)
      BY <2>4, <2>5, <3>3 DEF Agrees, HasOpenAttempt
    <3>5. <<"request", q>> \in c.held
      BY <1>1, <1>5, <2>7 DEF PairOK
    <3> QED
      BY <1>5, <2>7, <3>3, <3>4, <3>5
  <2> QED
    BY <2>6, <2>7
<1> QED
  BY <1>4, <1>5

(* A save moves the row that it has locked.                                  *)
LEMMA SaveRows ==
  ASSUME TypeOK, CallsOK, RowsAgree, NEW x \in Calls, NEW c, c = calls[x],
         Save(x), NEW q \in Requests, NEW r, r = requests[q], NEW s, s = requests'[q]
  PROVE  \/ s = r /\ q # c.request
         \/ /\ q = c.request
            /\ <<"request", q>> \in c.held
            /\ r.status \notin TerminalStatuses
            /\ s \in RequestRows /\ Agrees(s)
            /\ s.subject = r.subject /\ s.override = r.override
            /\ s.duplicateOf = r.duplicateOf /\ s.version = r.version + 1
<1>1. c \in SaveCalls /\ SaveOK(c) /\ c # Null
  BY CallAt, KindOfCall DEF Save, At
<1>2. r \in RequestRows /\ Agrees(r) /\ c.request \in Requests
  BY <1>1 DEF TypeOK, RowsAgree, SaveCalls
<1>3. CASE q # c.request
  BY <1>2, <1>3 DEF Save, TypeOK
<1>4. CASE q = c.request
  <2>1. PICK l : l = [status |-> r.status, attempts |-> r.attempts]
    OBVIOUS
  <2>2. l \in Lifecycles /\ l.status = r.status /\ l.attempts = r.attempts
    BY <1>2, <2>1 DEF Lifecycles, RequestRows, AttemptStatuses
  <2>3. Agrees(l)
    BY <1>2, <2>2 DEF Agrees, HasOpenAttempt
  <2>4. PICK m \in Moves(l) :
          s = [r EXCEPT !.status = m.status, !.attempts = m.attempts,
                        !.version = r.version + 1]
    BY <1>2, <1>4, <2>1 DEF Save, TypeOK
  <2>5. m \in Lifecycles /\ Agrees(m) /\ r.status \notin TerminalStatuses
    BY <2>2, <2>3, MovesAgree
  <2>6. m.status \in Statuses /\ m.attempts \in Seq(AttemptStatuses)
        /\ r.version + 1 \in Nat
    BY <1>2, <2>5 DEF Lifecycles, RequestRows
  <2>7. /\ s \in RequestRows /\ s.status = m.status /\ s.attempts = m.attempts
        /\ s.subject = r.subject /\ s.override = r.override
        /\ s.duplicateOf = r.duplicateOf /\ s.version = r.version + 1
    BY <1>2, <2>4, <2>6 DEF RequestRows, AttemptStatuses
  <2>8. Agrees(s)
    BY <2>5, <2>7 DEF Agrees, HasOpenAttempt
  <2> QED
    BY <1>1, <1>4, <2>5, <2>7, <2>8 DEF SaveOK
<1> QED
  BY <1>3, <1>4

(* Neither changes who is a duplicate of whom, and only a forced replacement *)
(* changes a row without a save or a binding.                                *)
LEMMA PairAndSaveRows ==
  ASSUME TypeOK, CallsOK, RowsAgree, NEW x \in Calls, NEW q \in Requests
  PROVE  /\ Pair(x) => /\ requests'[q].duplicateOf = requests[q].duplicateOf
                       /\ \/ requests'[q] = requests[q]
                          \/ tokens[calls[x].token].mode = "force"
         /\ Save(x) => /\ requests'[q].duplicateOf = requests[q].duplicateOf
                       /\ \/ requests'[q] = requests[q] /\ q # calls[x].request
                          \/ /\ q = calls[x].request
                             /\ requests'[q].version = requests[q].version + 1
<1>1. PICK c : c = calls[x]
  OBVIOUS
<1>2. PICK r : r = requests[q]
  OBVIOUS
<1>3. PICK s : s = requests'[q]
  OBVIOUS
<1>4. ASSUME Pair(x)
      PROVE  \/ s = r
             \/ /\ <<"request", q>> \in c.held
                /\ r.status \notin TerminalStatuses
                /\ s \in RequestRows /\ Agrees(s) /\ s.status = "needs_review"
                /\ s.subject = r.subject /\ s.override = r.override
                /\ s.duplicateOf = r.duplicateOf /\ s.version = r.version + 1
                /\ tokens[c.token].mode = "force"
  BY <1>1, <1>2, <1>3, <1>4, PairRows
<1>5. ASSUME Save(x)
      PROVE  \/ s = r /\ q # c.request
             \/ /\ q = c.request
                /\ <<"request", q>> \in c.held
                /\ r.status \notin TerminalStatuses
                /\ s \in RequestRows /\ Agrees(s)
                /\ s.subject = r.subject /\ s.override = r.override
                /\ s.duplicateOf = r.duplicateOf /\ s.version = r.version + 1
  BY <1>1, <1>2, <1>3, <1>5, SaveRows
<1> QED
  BY <1>1, <1>2, <1>3, <1>4, <1>5

(* A request that may be cancelled has no open attempt and has not ended.    *)
LEMMA CancellableIsQuiet ==
  ASSUME NEW r \in RequestRows, Agrees(r),
         r.status \in CancellableDuplicateStatuses,
         NEW s \in RequestRows, s.attempts = r.attempts,
         s.status \in {"cancelled", "identity_verified"}
  PROVE  Agrees(s) /\ r.status \notin TerminalStatuses
BY DEF Agrees, HasOpenAttempt, CancellableDuplicateStatuses, TerminalStatuses

(* What a binding c does to request q: it changes its own request and, unless *)
(* it yields, its candidate.                                                  *)
BindChanges(c, q, r, s) ==
  /\ c \in BindCalls /\ BindOK(c) /\ c.pc = "bound"
  /\ \/ s = r /\ q # c.request /\ (q = c.candidate => Yields(c))
     \/ /\ q = c.request \/ (q = c.candidate /\ ~Yields(c))
        /\ <<"request", q>> \in c.held
        /\ r.status \in CancellableDuplicateStatuses
        /\ s \in RequestRows /\ Agrees(s) /\ s.version = r.version + 1
  /\ q = c.request =>
       /\ r.subject = Null
       /\ s.subject = c.subject /\ s.override = c.override
       /\ Yields(c) => s.status = "cancelled" /\ s.duplicateOf = c.candidate
       /\ ~Yields(c) => s.status = "identity_verified" /\ s.duplicateOf = Null
  /\ q # c.request => s.subject = r.subject /\ s.override = r.override
  /\ q # c.request /\ s # r => s.status = "cancelled" /\ s.duplicateOf = c.request

(* That is what every binding does.                                           *)
LEMMA BindRows ==
  ASSUME TypeOK, CallsOK, RowsAgree, NEW x \in Calls, Bind(x),
         NEW q \in Requests
  PROVE  BindChanges(calls[x], q, requests[q], requests'[q])
<1> SUFFICES ASSUME NEW c, c = calls[x], NEW r, r = requests[q],
                    NEW s, s = requests'[q]
             PROVE  BindChanges(c, q, r, s)
  OBVIOUS
<1>1. c \in BindCalls /\ BindOK(c) /\ c.pc = "bound" /\ c # Null
  BY CallAt, KindOfCall DEF Bind, At
<1>2. /\ r \in RequestRows /\ Agrees(r) /\ r.version + 1 \in Nat
      /\ c.request \in Requests /\ c.subject \in Subjects
      /\ c.override \in BOOLEAN /\ c.candidate \in Requests \cup {Null}
      /\ c.candidate # c.request
      /\ Null \notin Requests
      /\ {"cancelled", "identity_verified"} \subseteq Statuses
  BY <1>1, AgentPairingAssumption
  DEF TypeOK, RowsAgree, BindCalls, RequestRows, BindOK, Statuses
<1>3. PICK yields \in BOOLEAN : yields <=> Yields(c)
  <2>1. Yields(c) \in BOOLEAN
    BY DEF Yields
  <2> QED
    BY <2>1
<1>4. /\ yields => c.candidate # Null
      /\ ~yields /\ c.candidate # Null =>
           requests[c.candidate].status \in CancellableDuplicateStatuses
  BY <1>3 DEF Yields
<1>5. q = c.request =>
        s = [r EXCEPT !.subject = c.subject, !.override = c.override,
               !.duplicateOf = IF yields THEN c.candidate ELSE Null,
               !.status = IF yields THEN "cancelled" ELSE "identity_verified",
               !.version = r.version + 1]
  BY <1>3 DEF Bind
<1>6. q # c.request /\ q = c.candidate /\ ~yields =>
        s = [r EXCEPT !.status = "cancelled", !.duplicateOf = c.request,
                      !.version = r.version + 1]
  BY <1>2, <1>3 DEF Bind
<1>7. q # c.request /\ (q # c.candidate \/ yields) => s = r
  BY <1>3 DEF Bind
<1>8. CASE q = c.request
  <2>1. /\ s \in RequestRows /\ s.attempts = r.attempts
        /\ s.version = r.version + 1
        /\ s.subject = c.subject /\ s.override = c.override
        /\ yields => s.status = "cancelled" /\ s.duplicateOf = c.candidate
        /\ ~yields => s.status = "identity_verified" /\ s.duplicateOf = Null
    BY <1>2, <1>4, <1>5, <1>8 DEF RequestRows
  <2>2. /\ <<"request", q>> \in c.held /\ r.subject = Null
        /\ r.status \in CancellableDuplicateStatuses
    BY <1>1, <1>8 DEF BindOK
  <2>3. Agrees(s)
    BY <1>2, <2>1, <2>2, CancellableIsQuiet
  <2> QED
    BY <1>1, <1>3, <1>8, <2>1, <2>2, <2>3 DEF BindChanges
<1>9. CASE q # c.request /\ q = c.candidate /\ ~yields
  <2>1. /\ s \in RequestRows /\ s.attempts = r.attempts
        /\ s.version = r.version + 1
        /\ s.subject = r.subject /\ s.override = r.override
        /\ s.status = "cancelled" /\ s.duplicateOf = c.request
    BY <1>2, <1>6, <1>9 DEF RequestRows
  <2>2. /\ <<"request", q>> \in c.held
        /\ r.status \in CancellableDuplicateStatuses
    BY <1>1, <1>2, <1>4, <1>9 DEF BindOK
  <2>3. Agrees(s)
    BY <1>2, <2>1, <2>2, CancellableIsQuiet
  <2> QED
    BY <1>1, <1>3, <1>9, <2>1, <2>2, <2>3 DEF BindChanges
<1>10. CASE q # c.request /\ (q # c.candidate \/ yields)
  BY <1>1, <1>3, <1>7, <1>10 DEF BindChanges
<1> QED
  BY <1>8, <1>9, <1>10

(* Its own request gets the subject.                                          *)
LEMMA BindRowsOfRequest ==
  ASSUME TypeOK, CallsOK, RowsAgree, NEW x \in Calls, Bind(x),
         calls[x].request \in Requests
  PROVE  requests'[calls[x].request].subject = calls[x].subject
BY BindRows DEF BindChanges

(* No other step changes a request.                                          *)
LEMMA OnlyThree ==
  ASSUME TypeOK, CallsOK, OneAgent, OneActiveRequest, [Next]_vars
  PROVE  \/ requests' = requests
         \/ \E x \in Calls : /\ calls[x] # Null /\ calls'[x] = Null
                             /\ Pair(x) \/ Save(x) \/ Bind(x)
<1>1. ASSUME NEW x \in Calls, Advances(x)
      PROVE  requests' = requests
  BY <1>1 DEF Advances, Tables
<1>2. ASSUME NEW x \in Calls, Pair(x) \/ Save(x) \/ Bind(x)
      PROVE  calls[x] # Null /\ calls'[x] = Null
  BY <1>2 DEF Pair, Save, Bind, At, End, TypeOK
<1>3. ASSUME NEW x \in Calls,
             PairStep(x) \/ StoreEnvelope(x) \/ BindStep(x) \/ Fail(x),
             ~Pair(x), ~Bind(x)
      PROVE  requests' = requests
  BY <1>3 DEF PairStep, LockEnvironment, LockActiveAgent, ReadEnvelopes,
     ReadAttempts, LockWork, StoreEnvelope, BindStep, LockRequest, LockAgent,
     LockEnvelope, LockCandidates, Fail, UnchangedTables, UnchangedRequests
<1> QED
  BY <1>2, <1>3 DEF Next, vars, IssueToken, RevokeAgent, Forget, BeginPair,
     BeginStore, BeginBind, BeginSave, UnchangedTables, UnchangedRequests

(* Whatever changes a row has locked it, moves it and ends; only a binding   *)
(* changes the subject, and a request that has ended does not change.        *)
LEMMA RowChanges ==
  ASSUME TypeOK, CallsOK, RowsAgree, OneAgent, OneActiveRequest, [Next]_vars,
         NEW q \in Requests
  PROVE  \/ requests'[q] = requests[q]
         \/ \E x \in Calls :
              /\ calls[x] # Null /\ calls'[x] = Null
              /\ <<"request", q>> \in calls[x].held
              /\ requests[q].status \notin TerminalStatuses
              /\ requests'[q] \in RequestRows /\ Agrees(requests'[q])
              /\ requests'[q].version = requests[q].version + 1
              /\ \/ requests'[q].duplicateOf \in {Null, requests[q].duplicateOf}
                 \/ requests'[q].status = "cancelled"
              /\ \/ /\ requests'[q].subject = requests[q].subject
                    /\ requests'[q].override = requests[q].override
                 \/ Bind(x) /\ q = calls[x].request
<1>3. PICK r : r = requests[q]
  OBVIOUS
<1>4. PICK s : s = requests'[q]
  OBVIOUS
<1>1. CASE requests' = requests
  BY <1>1
<1>2. ASSUME NEW x \in Calls, calls[x] # Null, calls'[x] = Null,
             Pair(x) \/ Save(x) \/ Bind(x), s # r
      PROVE  /\ <<"request", q>> \in calls[x].held
             /\ r.status \notin TerminalStatuses
             /\ s \in RequestRows /\ Agrees(s) /\ s.version = r.version + 1
             /\ s.duplicateOf \in {Null, r.duplicateOf} \/ s.status = "cancelled"
             /\ \/ s.subject = r.subject /\ s.override = r.override
                \/ Bind(x) /\ q = calls[x].request
  <2>1. PICK c : c = calls[x]
    OBVIOUS
  <2>2. CASE Pair(x)
    BY <1>2, <1>3, <1>4, <2>1, <2>2, PairRows
  <2>3. CASE Save(x)
    BY <1>2, <1>3, <1>4, <2>1, <2>3, SaveRows
  <2>4. CASE Bind(x)
    <3>1. /\ <<"request", q>> \in c.held
          /\ r.status \in CancellableDuplicateStatuses
          /\ s \in RequestRows /\ Agrees(s) /\ s.version = r.version + 1
          /\ s.duplicateOf \in {Null, r.duplicateOf} \/ s.status = "cancelled"
          /\ q # c.request => s.subject = r.subject /\ s.override = r.override
      BY <1>2, <1>3, <1>4, <2>1, <2>4, BindRows DEF BindChanges
    <3> QED
      BY <2>1, <2>4, <3>1 DEF CancellableDuplicateStatuses, TerminalStatuses
  <2> QED
    BY <1>2, <2>2, <2>3, <2>4
<1> QED
  BY <1>1, <1>2, <1>3, <1>4, OnlyThree

(* The rows stay rows whose attempts agree with their status.                *)
LEMMA RowsStep ==
  ASSUME TypeOK, CallsOK, RowsAgree, OneAgent, OneActiveRequest, [Next]_vars
  PROVE  requests' \in [Requests -> RequestRows] /\ RowsAgree'
<1>1. DOMAIN requests' = Requests /\ requests' = [q \in Requests |-> requests'[q]]
  <2>1. ASSUME NEW x \in Calls, Pair(x) \/ Save(x) \/ Bind(x)
        PROVE  requests' = [q \in Requests |-> requests'[q]]
    BY <2>1 DEF Pair, Save, Bind, TypeOK
  <2>2. requests = [q \in Requests |-> requests[q]]
    BY DEF TypeOK
  <2>3. requests' = [q \in Requests |-> requests'[q]]
    BY <2>1, <2>2, OnlyThree
  <2> QED
    BY <2>3
<1>2. ASSUME NEW q \in Requests, NEW r, r = requests[q], NEW s, s = requests'[q]
      PROVE  /\ s \in RequestRows /\ Agrees(s)
             /\ s.duplicateOf # Null => s.status = "cancelled"
  <2>1. /\ r \in RequestRows /\ Agrees(r)
        /\ r.duplicateOf # Null => r.status = "cancelled"
    BY <1>2 DEF TypeOK, RowsAgree
  <2>2. "cancelled" \in TerminalStatuses
    BY DEF TerminalStatuses
  <2>3. \/ s = r
        \/ /\ r.status \notin TerminalStatuses /\ s \in RequestRows /\ Agrees(s)
           /\ s.duplicateOf \in {Null, r.duplicateOf} \/ s.status = "cancelled"
    BY <1>2, RowChanges
  <2> QED
    BY <2>1, <2>2, <2>3
<1>3. \A q \in Requests : /\ requests'[q] \in RequestRows
                          /\ requests'[q].duplicateOf # Null =>
                               requests'[q].status = "cancelled"
  BY <1>2
<1>4. ASSUME NEW q \in Requests
      PROVE  Agrees(requests[q])'
  <2>1. PICK s : s = requests'[q]
    OBVIOUS
  <2>2. Agrees(s)
    BY <1>2, <2>1
  <2> QED
    BY <2>1, <2>2 DEF Agrees, HasOpenAttempt
<1> QED
  BY <1>1, <1>3, <1>4 DEF RowsAgree

(* A binding leaves its subject one active request.                          *)
LEMMA BoundIsAlone ==
  ASSUME TypeOK, CallsOK, RowsAgree, NEW x \in Calls, Bind(x),
         NEW p \in Requests, p = calls[x].request, NEW q \in Requests, p # q,
         requests'[p].subject = requests'[q].subject,
         ~requests'[p].override, ~requests'[q].override,
         requests'[p].status \notin TerminalStatuses,
         requests'[q].status \notin TerminalStatuses
  PROVE  FALSE
<1>0. PICK c : c = calls[x]
  OBVIOUS
<1>1. "cancelled" \in TerminalStatuses
  BY DEF TerminalStatuses
<1>2. PICK s : s = requests'[p]
  OBVIOUS
<1>3. PICK t : t = requests'[q]
  OBVIOUS
<1>4. PICK r : r = requests[q]
  OBVIOUS
<1>5. /\ c \in BindCalls /\ BindOK(c) /\ c.pc = "bound"
      /\ s.subject = c.subject /\ s.override = c.override /\ ~Yields(c)
  <2>1. PICK u : u = requests[p]
    OBVIOUS
  <2>2. /\ c \in BindCalls /\ BindOK(c) /\ c.pc = "bound"
        /\ s.subject = c.subject /\ s.override = c.override
        /\ Yields(c) => s.status = "cancelled"
    BY <1>0, <1>2, <2>1, BindRows DEF BindChanges
  <2> QED
    BY <1>1, <1>2, <2>2
<1>6. /\ t.subject = r.subject /\ t.override = r.override
      /\ t # r => t.status = "cancelled"
      /\ t = r => (q = c.candidate => Yields(c))
  <2>1. t.version = r.version + 1 => t # r
    <3>1. r.version \in Nat
      BY <1>4 DEF TypeOK, RequestRows
    <3> QED
      BY <3>1
  <2>2. /\ \/ t = r /\ (q = c.candidate => Yields(c))
           \/ t.version = r.version + 1
        /\ t.subject = r.subject /\ t.override = r.override
        /\ t # r => t.status = "cancelled"
    BY <1>0, <1>3, <1>4, BindRows DEF BindChanges
  <2> QED
    BY <2>1, <2>2
<1>7. t = r /\ q # c.candidate
  BY <1>1, <1>3, <1>5, <1>6
<1>8. q \in Candidates(c)
  BY <1>0, <1>2, <1>3, <1>4, <1>5, <1>6, <1>7 DEF Candidates
<1> QED
  BY <1>5, <1>7, <1>8 DEF BindOK

(* No step gives a subject a second active request.                          *)
LEMMA OneActiveRequestStep ==
  ASSUME TypeOK, CallsOK, RowsAgree, OneAgent, OneActiveRequest, [Next]_vars
  PROVE  OneActiveRequest'
<1> SUFFICES ASSUME NEW p \in Requests, NEW q \in Requests, p # q,
                    requests'[p].subject = requests'[q].subject,
                    requests'[p].subject # Null,
                    ~requests'[p].override, ~requests'[q].override,
                    requests'[p].status \notin TerminalStatuses,
                    requests'[q].status \notin TerminalStatuses
             PROVE  FALSE
  BY DEF OneActiveRequest
<1>1. ASSUME NEW e \in {p, q}
      PROVE  /\ requests[e].status \notin TerminalStatuses
             /\ \/ /\ requests'[e].subject = requests[e].subject
                   /\ requests'[e].override = requests[e].override
                \/ \E x \in Calls : Bind(x) /\ e = calls[x].request
  <2>1. PICK f \in Requests : f = e
    OBVIOUS
  <2>2. PICK r : r = requests[f]
    OBVIOUS
  <2>3. PICK s : s = requests'[f]
    OBVIOUS
  <2>4. s.status \notin TerminalStatuses
    BY <2>1, <2>3
  <2>5. /\ s = r \/ r.status \notin TerminalStatuses
        /\ \/ s.subject = r.subject /\ s.override = r.override
           \/ \E x \in Calls : Bind(x) /\ f = calls[x].request
    BY <2>2, <2>3, RowChanges
  <2> QED
    BY <2>1, <2>2, <2>3, <2>4, <2>5
<1>3. ASSUME NEW x \in Calls, NEW e \in {p, q}, Bind(x), e = calls[x].request
      PROVE  FALSE
  <2>1. CASE e = p
    BY <1>1, <1>3, <2>1, BoundIsAlone
  <2>2. CASE e = q
    BY <1>1, <1>3, <2>2, BoundIsAlone
  <2> QED
    BY <2>1, <2>2
<1> QED
  BY <1>1, <1>3 DEF OneActiveRequest

-----------------------------------------------------------------------------
(* Agents, tokens and envelopes.                                             *)

(* Which steps change the agents,                                            *)
LEMMA AgentSteps ==
  ASSUME [Next]_vars
  PROVE  \/ agents' = agents /\ removed' = removed
         \/ \E a \in Agents : RevokeAgent(a)
         \/ \E x \in Calls : Pair(x)
BY DEF Next, vars, IssueToken, Forget, BeginPair, BeginStore, BeginBind,
   BeginSave, PairStep, LockEnvironment, LockActiveAgent, ReadEnvelopes,
   ReadAttempts, LockWork, StoreEnvelope, BindStep, LockRequest, LockAgent,
   LockEnvelope, LockCandidates, Bind, Save, Fail, UnchangedTables,
   UnchangedAgents

(* ... the tokens                                                            *)
LEMMA TokenSteps ==
  ASSUME [Next]_vars
  PROVE  \/ tokens' = tokens
         \/ \E t \in Tokens, mode \in Modes : IssueToken(t, mode)
         \/ \E x \in Calls : Pair(x)
BY DEF Next, vars, RevokeAgent, Forget, BeginPair, BeginStore, BeginBind,
   BeginSave, PairStep, LockEnvironment, LockActiveAgent, ReadEnvelopes,
   ReadAttempts, LockWork, StoreEnvelope, BindStep, LockRequest, LockAgent,
   LockEnvelope, LockCandidates, Bind, Save, Fail, UnchangedTables,
   UnchangedAgents

(* ... and the envelopes.                                                    *)
LEMMA EnvelopeSteps ==
  ASSUME [Next]_vars
  PROVE  \/ envelopes' = envelopes
         \/ \E q \in Requests : Forget(q)
         \/ \E x \in Calls :
              Pair(x) \/ StoreEnvelope(x) \/ LockRequest(x) \/ Bind(x)
BY DEF Next, vars, IssueToken, RevokeAgent, BeginPair, BeginStore, BeginBind,
   BeginSave, PairStep, LockEnvironment, LockActiveAgent, ReadEnvelopes,
   ReadAttempts, LockWork, BindStep, LockAgent, LockEnvelope, LockCandidates,
   Save, Fail, UnchangedTables, UnchangedRequests

(* A registration that pairs knows its token is unused, and leaves its agent *)
(* as the only active one.                                                   *)
LEMMA PairAgents ==
  ASSUME TypeOK, CallsOK, NEW x \in Calls, Pair(x)
  PROVE  /\ calls[x] \in PairCalls /\ PairOK(calls[x]) /\ calls[x].pc = "insert"
         /\ agents' \in [Agents -> {"absent", "active", "revoked"}]
         /\ Active' = {calls[x].agent}
         /\ tokens' \in [Tokens -> TokenRows]
         /\ tokens'[calls[x].token].pairs = {calls[x].agent}
         /\ \A t \in Tokens : tokens'[t].mode = tokens[t].mode
         /\ \A t \in Tokens : t # calls[x].token => tokens'[t] = tokens[t]
<1>1. PICK c : c = calls[x]
  OBVIOUS
<1>2. /\ c \in PairCalls /\ PairOK(c) /\ c.pc = "insert" /\ c # Null
      /\ c.agent \in Agents /\ c.token \in Tokens
  BY <1>1, CallAt, KindOfCall DEF Pair, At, PairCalls
<1>3. agents' = [a \in Agents |-> IF a = c.agent THEN "active"
                                  ELSE IF a = c.old THEN "revoked" ELSE agents[a]]
  BY <1>1 DEF Pair
<1>4. agents' \in [Agents -> {"absent", "active", "revoked"}]
  BY <1>3 DEF TypeOK
<1>5. \A a \in Agents : agents[a] = "active" => a = c.old
  BY <1>2 DEF PairOK, Active
<1>6. \A a \in Agents : agents'[a] = "active" <=> a = c.agent
  BY <1>3, <1>5
<1>7. Active' = {c.agent}
  BY <1>2, <1>6 DEF Active
<1>8. tokens' = [tokens EXCEPT ![c.token].pairs = {c.agent}]
  <2>1. tokens' = [tokens EXCEPT ![c.token].pairs =
                     tokens[c.token].pairs \cup {c.agent}]
    BY <1>1 DEF Pair
  <2>2. tokens[c.token].pairs = {}
    BY <1>2 DEF PairOK
  <2> QED
    BY <2>1, <2>2
<1>9. /\ tokens' \in [Tokens -> TokenRows]
      /\ tokens'[c.token].pairs = {c.agent}
      /\ \A t \in Tokens : tokens'[t].mode = tokens[t].mode
      /\ \A t \in Tokens : t # c.token => tokens'[t] = tokens[t]
  BY <1>2, <1>8 DEF TypeOK, TokenRows
<1> QED
  BY <1>1, <1>2, <1>4, <1>7, <1>9

(* An envelope goes, or one is stored for the agent of a call of store.      *)
LEMMA EnvelopeChanges ==
  ASSUME TypeOK, CallsOK, [Next]_vars
  PROVE  /\ envelopes' \in [Requests -> Agents \cup {Null}]
         /\ \/ \A q \in Requests : envelopes'[q] \in {envelopes[q], Null}
            \/ \E x \in Calls :
                 /\ StoreEnvelope(x) /\ calls[x] \in StoreCalls
                 /\ calls[x] # Null /\ calls'[x] = Null
                 /\ StoreOK(calls[x]) /\ agents' = agents
                 /\ \A q \in Requests :
                      envelopes'[q] \in {envelopes[q], calls[x].agent}
<1>1. ASSUME NEW k \in Requests, Forget(k)
      PROVE  /\ envelopes' \in [Requests -> Agents \cup {Null}]
             /\ \A q \in Requests : envelopes'[q] \in {envelopes[q], Null}
  BY <1>1 DEF Forget, TypeOK
<1>2. ASSUME NEW x \in Calls, Pair(x)
      PROVE  /\ envelopes' \in [Requests -> Agents \cup {Null}]
             /\ \A q \in Requests : envelopes'[q] \in {envelopes[q], Null}
  <2>1. envelopes' \in {[q \in Requests |-> Null], envelopes}
    BY <1>2 DEF Pair
  <2> QED
    BY <2>1 DEF TypeOK
<1>3. CASE \E x \in Calls : Bind(x)
  BY <1>3 DEF Bind, TypeOK
<1>4. ASSUME NEW x \in Calls, LockRequest(x)
      PROVE  /\ envelopes' \in [Requests -> Agents \cup {Null}]
             /\ \A q \in Requests : envelopes'[q] \in {envelopes[q], Null}
  <2>1. PICK k, b : envelopes' = [envelopes EXCEPT ![k] = IF b THEN Null ELSE @]
    BY <1>4 DEF LockRequest
  <2> QED
    BY <2>1 DEF TypeOK
<1>5. ASSUME NEW x \in Calls, StoreEnvelope(x)
      PROVE  /\ envelopes' \in [Requests -> Agents \cup {Null}]
             /\ calls[x] \in StoreCalls /\ calls[x] # Null /\ calls'[x] = Null
             /\ StoreOK(calls[x]) /\ agents' = agents
             /\ \A q \in Requests :
                   envelopes'[q] \in {envelopes[q], calls[x].agent}
  <2>1. calls[x] \in StoreCalls /\ StoreOK(calls[x]) /\ calls[x] # Null
    BY <1>5, CallAt, KindOfCall DEF StoreEnvelope, At
  <2>2. calls[x].agent \in Agents
    BY <2>1 DEF StoreCalls
  <2>3. calls'[x] = Null /\ agents' = agents
    BY <1>5 DEF StoreEnvelope, End, TypeOK, UnchangedAgents
  <2>4. envelopes' = [envelopes EXCEPT ![calls[x].request] = calls[x].agent]
    BY <1>5 DEF StoreEnvelope
  <2> QED
    BY <2>1, <2>2, <2>3, <2>4 DEF TypeOK
<1>6. CASE envelopes' = envelopes
  BY <1>6 DEF TypeOK
<1>7. \/ envelopes' = envelopes
      \/ \E q \in Requests : Forget(q)
      \/ \E x \in Calls : Pair(x)
      \/ \E x \in Calls : Bind(x)
      \/ \E x \in Calls : LockRequest(x)
      \/ \E x \in Calls : StoreEnvelope(x)
  BY EnvelopeSteps
<1> QED
  <2>1. CASE \E x \in Calls : LockRequest(x)
    BY <1>4, <2>1
  <2>2. CASE \E x \in Calls : StoreEnvelope(x)
    BY <1>5, <2>2
  <2>3. CASE \E x \in Calls : Pair(x)
    BY <1>2, <2>3
  <2> QED
    BY <1>1, <1>3, <1>6, <1>7, <2>1, <2>2, <2>3
-----------------------------------------------------------------------------
(* A call that a step leaves alone still knows what it knew.                 *)

(* Pairing and storing end their call, and so does whatever changes a row:   *)
(* a call that is left alone holds none of the same locks.                   *)
LEMMA LocksHeldByOthers ==
  ASSUME TypeOK, LocksExclude, NEW y \in Calls, calls[y] # Null,
         calls'[y] = calls[y], NEW x \in Calls, calls[x] # Null,
         calls'[x] = Null
  PROVE  calls[x].held \cap calls[y].held = {}
BY DEF LocksExclude

(* What a pairing knows and has locked when it pairs.                        *)
LEMMA PairHolds ==
  ASSUME TypeOK, CallsOK, NEW x \in Calls, Pair(x)
  PROVE  /\ calls[x] # Null /\ calls'[x] = Null
         /\ <<"environment">> \in calls[x].held
         /\ <<"token", calls[x].token>> \in calls[x].held
         /\ \A a \in Active : <<"agent", a>> \in calls[x].held
         /\ \A t \in Tokens : t # calls[x].token => tokens'[t] = tokens[t]
<1>1. PairOK(calls[x]) /\ calls[x].pc = "insert"
      /\ \A t \in Tokens : t # calls[x].token => tokens'[t] = tokens[t]
  BY PairAgents
<1>2. calls[x] # Null /\ calls'[x] = Null
  BY DEF Pair, At, End, TypeOK
<1> QED
  BY <1>1, <1>2 DEF PairOK

(* A row that a call has locked stays as it is, and one that has ended too.  *)
LEMMA LockedRowsStay ==
  ASSUME TypeOK, CallsOK, RowsAgree, OneAgent, OneActiveRequest, LocksExclude,
         [Next]_vars, NEW y \in Calls, calls[y] # Null, calls'[y] = calls[y],
         NEW q \in Requests,
         \/ requests[q].status \in TerminalStatuses
         \/ <<"request", q>> \in calls[y].held
  PROVE  requests'[q] = requests[q]
<1>1. ASSUME NEW x \in Calls, calls[x] # Null, calls'[x] = Null,
             <<"request", q>> \in calls[x].held
      PROVE  <<"request", q>> \notin calls[y].held
  BY <1>1, LocksHeldByOthers
<1> QED
  BY <1>1, RowChanges

(* Tokens of registrations in progress stay as they are.                     *)
LEMMA LockedTokensStay ==
  ASSUME TypeOK, CallsOK, LocksExclude, [Next]_vars,
         NEW y \in Calls, calls[y] # Null, calls'[y] = calls[y],
         NEW t \in Tokens, <<"token", t>> \in calls[y].held,
         tokens[t].mode # Null
  PROVE  tokens'[t] = tokens[t]
<1>1. ASSUME NEW x \in Calls, Pair(x)
      PROVE  tokens'[t] = tokens[t]
  BY <1>1, PairHolds, LocksHeldByOthers
<1>2. ASSUME NEW u \in Tokens, NEW mode \in Modes, IssueToken(u, mode)
      PROVE  tokens'[t] = tokens[t]
  BY <1>2 DEF IssueToken, TypeOK
<1> QED
  BY <1>1, <1>2, TokenSteps

(* An active agent that a call has locked stays active, and no agent becomes *)
(* active while a call has locked the environment.                           *)
LEMMA LockedAgentsStay ==
  ASSUME TypeOK, CallsOK, LocksExclude, [Next]_vars,
         NEW y \in Calls, calls[y] # Null, calls'[y] = calls[y]
  PROVE  /\ \A a \in Active : <<"agent", a>> \in calls[y].held => a \in Active'
         /\ <<"environment">> \in calls[y].held => Active' \subseteq Active
<1>1. ASSUME NEW x \in Calls, Pair(x)
      PROVE  /\ \A a \in Active : <<"agent", a>> \notin calls[y].held
             /\ <<"environment">> \notin calls[y].held
  BY <1>1, PairHolds, LocksHeldByOthers
<1>2. ASSUME NEW b \in Agents, RevokeAgent(b)
      PROVE  /\ \A a \in Active : <<"agent", a>> \in calls[y].held => a \in Active'
             /\ Active' \subseteq Active
  <2>1. <<"agent", b>> \notin calls[y].held
    BY <1>2 DEF RevokeAgent, Unlocked
  <2>2. \A a \in Agents : agents'[a] = IF a = b THEN "revoked" ELSE agents[a]
    BY <1>2 DEF RevokeAgent, TypeOK
  <2> QED
    BY <2>1, <2>2 DEF Active
<1>3. CASE agents' = agents
  BY <1>3 DEF Active
<1> QED
  BY <1>1, <1>2, <1>3, AgentSteps

(* No envelope is stored while a call has locked the active agent.           *)
LEMMA NoEnvelopeIsStored ==
  ASSUME TypeOK, CallsOK, LocksExclude, [Next]_vars,
         NEW y \in Calls, calls[y] # Null, calls'[y] = calls[y],
         \A a \in Active : <<"agent", a>> \in calls[y].held,
         NEW q \in Requests, envelopes[q] = Null
  PROVE  envelopes'[q] = Null
<1>1. ASSUME NEW x \in Calls, calls[x] # Null, calls'[x] = Null,
             calls[x] \in StoreCalls, StoreOK(calls[x])
      PROVE  FALSE
  <2>1. calls[x].agent \in Active /\ <<"agent", calls[x].agent>> \in calls[x].held
    BY <1>1 DEF StoreOK, StoreCalls, Active
  <2> QED
    BY <1>1, <2>1, LocksHeldByOthers
<1> QED
  BY <1>1, EnvelopeChanges

(* So a registration still knows what it knew,                               *)
LEMMA PairStays ==
  ASSUME TypeOK, CallsOK, RowsAgree, OneAgent, OneActiveRequest, LocksExclude,
         [Next]_vars, NEW y \in Calls, NEW c \in PairCalls, c = calls[y],
         c # Null, calls'[y] = c, PairOK(c)
  PROVE  PairOK(c)'
<1>1. /\ c.token \in Tokens /\ c.old \in Agents \cup {Null}
      /\ c.work \in SUBSET Requests
  BY DEF PairCalls
<1>2. tokens'[c.token] = tokens[c.token]
  BY <1>1, LockedTokensStay, AgentPairingAssumption DEF PairOK
<1>3. c.pc # "token" => Active' \subseteq Active
  BY LockedAgentsStay DEF PairOK
<1>4. c.old # Null => Active' = {c.old}
  BY <1>3, LockedAgentsStay DEF PairOK
<1>5. c.old # Null =>
        \A q \in Requests : envelopes[q] = Null => envelopes'[q] = Null
  BY NoEnvelopeIsStored DEF PairOK
<1>6. c.pc = "insert" => \A q \in c.work : requests'[q] = requests[q]
  BY <1>1, LockedRowsStay DEF PairOK
<1>7. /\ <<"token", c.token>> \in c.held
      /\ tokens'[c.token].mode \in Modes
      /\ c.pc # "token" =>
           <<"environment">> \in c.held /\ tokens'[c.token].pairs = {}
      /\ c.pc \in {"envelopes", "attempts", "work"} => c.old # Null
  BY <1>2 DEF PairOK
<1>8. c.old = Null => c.work = {} /\ (c.pc = "insert" => Active' = {})
  BY <1>3 DEF PairOK
<1>9. c.old # Null =>
        /\ c.pc \notin {"token", "paired"}
        /\ <<"agent", c.old>> \in c.held
        /\ tokens'[c.token].mode # "none"
        /\ tokens'[c.token].mode = "drain" =>
             /\ c.pc # "envelopes" => \A q \in Requests \ c.work : envelopes'[q] = Null
             /\ c.pc = "insert" => c.work = {}
  BY <1>2, <1>5 DEF PairOK
<1>10. c.pc = "insert" =>
         \A q \in c.work : \/ requests'[q].status \in TerminalStatuses
                            \/ <<"request", q>> \in c.held
  BY <1>6 DEF PairOK
<1> QED
  BY <1>4, <1>7, <1>8, <1>9, <1>10 DEF PairOK

(* ... the store of an envelope,                                             *)
LEMMA StoreStays ==
  ASSUME TypeOK, CallsOK, RowsAgree, OneAgent, OneActiveRequest, LocksExclude,
         [Next]_vars, NEW y \in Calls, NEW c \in StoreCalls, c = calls[y],
         c # Null, calls'[y] = c, StoreOK(c)
  PROVE  StoreOK(c)'
<1>1. c.agent \in Active /\ <<"agent", c.agent>> \in c.held
  BY DEF StoreOK, StoreCalls, Active
<1>2. c.agent \in Active'
  BY <1>1, LockedAgentsStay
<1> QED
  BY <1>1, <1>2 DEF StoreOK, Active

(* ... and a binding, whose subject no other binding gives a request.        *)
LEMMA BindStays ==
  ASSUME TypeOK, CallsOK, RowsAgree, OneAgent, OneActiveRequest, LocksExclude,
         [Next]_vars, NEW y \in Calls, NEW c \in BindCalls, c = calls[y],
         c # Null, calls'[y] = c, BindOK(c)
  PROVE  BindOK(c)'
<1>1. /\ c.request \in Requests /\ c.candidate \in Requests \cup {Null}
      /\ c.subject \in Subjects
  BY DEF BindCalls
<1>2. c.pc # "bind" => requests'[c.request] = requests[c.request]
  BY <1>1, LockedRowsStay DEF BindOK
<1>3. c.candidate # Null => requests'[c.candidate] = requests[c.candidate]
  BY <1>1, LockedRowsStay DEF BindOK
<1>4. ASSUME NEW x \in Calls, Bind(x), calls[x] # Null, calls'[x] = Null
      PROVE  requests'[calls[x].request].subject # c.subject
  <2>1. /\ BindOK(calls[x]) /\ calls[x].request \in Requests
        /\ calls[x] \in BindCalls
    BY <1>4, CallAt, KindOfCall DEF Bind, At, BindCalls
  <2>2. requests'[calls[x].request].subject = calls[x].subject
    BY <1>4, <2>1, BindRowsOfRequest
  <2>3. <<"subject", c.subject>> \notin calls[x].held
    BY <1>4, LocksHeldByOthers DEF BindOK
  <2> QED
    BY <2>1, <2>2, <2>3 DEF BindOK
<1>5. Candidates(c)' \subseteq Candidates(c)
  <2> SUFFICES ASSUME NEW q \in Requests, q # c.request, ~c.override,
                      ~requests'[q].override, requests'[q].subject = c.subject,
                      requests'[q].status \notin TerminalStatuses
               PROVE  /\ ~requests[q].override
                      /\ requests[q].subject = c.subject
                      /\ requests[q].status \notin TerminalStatuses
    BY DEF Candidates
  <2>1. ASSUME NEW x \in Calls, Bind(x), q = calls[x].request,
               calls[x] # Null, calls'[x] = Null
        PROVE  FALSE
    BY <1>4, <2>1
  <2>2. \A x \in Calls : Bind(x) => calls[x] # Null /\ calls'[x] = Null
    BY DEF Bind, At, End, TypeOK
  <2> QED
    BY <2>1, <2>2, RowChanges
<1> QED
  BY <1>2, <1>3, <1>5 DEF BindOK

(* Every call knows after a step what the step it is at needs.               *)
LEMMA CallStays ==
  ASSUME TypeOK, CallsOK, RowsAgree, OneAgent, OneActiveRequest, LocksExclude,
         [Next]_vars, NEW y \in Calls, NEW c, c = calls'[y], c # Null
  PROVE  CallOK(c)'
<1>1. CASE calls[y] = c
  <2>1. c \in CallStates
    BY <1>1 DEF TypeOK
  <2>2. c \in PairCalls => PairOK(c)'
    BY <1>1, CallAt, PairStays
  <2>3. c \in StoreCalls => StoreOK(c)'
    BY <1>1, CallAt, StoreStays
  <2>4. c \in BindCalls => BindOK(c)'
    BY <1>1, CallAt, BindStays
  <2>5. c \in SaveCalls => SaveOK(c)'
    BY <1>1, CallAt DEF SaveOK
  <2> QED
    BY <2>2, <2>3, <2>4, <2>5 DEF CallOK
<1>2. CASE calls[y] # c
  <2>1. Advances(y)
    <3>1. ASSUME NEW x \in Calls, Advances(x) \/ End(x)
          PROVE  Advances(y)
      <4>1. x # y => calls'[y] = calls[y]
        BY <3>1 DEF Advances, End, TypeOK
      <4>2. End(y) => calls'[y] = Null
        BY DEF End, TypeOK
      <4> QED
        BY <1>2, <3>1, <4>1, <4>2
    <3> QED
      BY <1>2, <3>1, Steps
  <2>2. UNCHANGED Tables /\ CallOK(c)
    BY <2>1 DEF Advances, TypeOK
  <2>3. Active' = Active /\ Candidates(c)' = Candidates(c)
    BY <2>2 DEF Tables, Active, Candidates
  <2> QED
    BY <2>2, <2>3 DEF Tables, CallOK, PairOK, StoreOK, BindOK, SaveOK
<1> QED
  BY <1>1, <1>2

(* So all of them do.                                                        *)
LEMMA CallsStep ==
  ASSUME TypeOK, CallsOK, RowsAgree, OneAgent, OneActiveRequest, LocksExclude,
         [Next]_vars
  PROVE  CallsOK'
<1> SUFFICES ASSUME NEW y \in Calls, calls'[y] # Null
             PROVE  CallOK(calls[y])'
  BY DEF CallsOK
<1>1. PICK c : c = calls'[y]
  OBVIOUS
<1>2. CallOK(c)'
  BY <1>1, CallStays
<1>3. PairOK(c)' => PairOK(calls[y])'
  BY <1>1 DEF PairOK
<1>4. StoreOK(c)' => StoreOK(calls[y])'
  BY <1>1 DEF StoreOK
<1>5. BindOK(c)' => BindOK(calls[y])'
  BY <1>1 DEF BindOK, Candidates
<1>6. SaveOK(c)' => SaveOK(calls[y])'
  BY <1>1 DEF SaveOK
<1> QED
  BY <1>1, <1>2, <1>3, <1>4, <1>5, <1>6 DEF CallOK

-----------------------------------------------------------------------------
(* The other parts of the invariant.                                         *)

(* One agent is active, and an active one that is not any more was revoked   *)
(* by revokeAgent or is locked by the registration that replaced it.         *)
LEMMA AgentsStep ==
  ASSUME TypeOK, CallsOK, OneAgent, [Next]_vars
  PROVE  /\ agents' \in [Agents -> {"absent", "active", "revoked"}]
         /\ removed' \subseteq Agents /\ removed \subseteq removed'
         /\ OneAgent'
         /\ \/ Active \subseteq Active' \cup removed'
            \/ \E x \in Calls : Pair(x)
<1>1. CASE agents' = agents /\ removed' = removed
  BY <1>1 DEF TypeOK, OneAgent, Active
<1>2. ASSUME NEW b \in Agents, RevokeAgent(b)
      PROVE  /\ agents' \in [Agents -> {"absent", "active", "revoked"}]
             /\ removed' \subseteq Agents /\ removed \subseteq removed'
             /\ OneAgent'
             /\ Active \subseteq Active' \cup removed'
  <2>1. agents' = [agents EXCEPT ![b] = "revoked"] /\ removed' = removed \cup {b}
    BY <1>2 DEF RevokeAgent
  <2>2. \A a \in Agents : agents'[a] = IF a = b THEN "revoked" ELSE agents[a]
    BY <2>1 DEF TypeOK
  <2>3. Active' \subseteq Active /\ Active \subseteq Active' \cup {b}
    BY <2>2 DEF Active
  <2> QED
    BY <2>1, <2>3 DEF TypeOK, OneAgent
<1>3. ASSUME NEW x \in Calls, Pair(x)
      PROVE  /\ agents' \in [Agents -> {"absent", "active", "revoked"}]
             /\ removed' = removed
             /\ OneAgent'
  BY <1>3, PairAgents DEF OneAgent, Pair
<1> QED
  BY <1>1, <1>2, <1>3, AgentSteps DEF TypeOK

(* A token pairs one agent.                                                  *)
LEMMA TokensStep ==
  ASSUME TypeOK, CallsOK, TokensOfOne, [Next]_vars
  PROVE  tokens' \in [Tokens -> TokenRows] /\ TokensOfOne'
<1>1. CASE tokens' = tokens
  BY <1>1 DEF TypeOK, TokensOfOne
<1>2. ASSUME NEW u \in Tokens, NEW mode \in Modes, IssueToken(u, mode)
      PROVE  tokens' \in [Tokens -> TokenRows] /\ TokensOfOne'
  <2>1. tokens' = [tokens EXCEPT ![u].mode = mode]
    BY <1>2 DEF IssueToken
  <2>2. /\ tokens' \in [Tokens -> TokenRows]
        /\ \A t \in Tokens : tokens'[t].pairs = tokens[t].pairs
    BY <2>1 DEF TypeOK, TokenRows
  <2> QED
    BY <2>2 DEF TokensOfOne
<1>3. ASSUME NEW x \in Calls, Pair(x)
      PROVE  tokens' \in [Tokens -> TokenRows] /\ TokensOfOne'
  <2>1. /\ tokens' \in [Tokens -> TokenRows]
        /\ tokens'[calls[x].token].pairs = {calls[x].agent}
        /\ \A t \in Tokens : t # calls[x].token => tokens'[t] = tokens[t]
    BY <1>3, PairAgents
  <2> QED
    BY <2>1 DEF TokensOfOne
<1> QED
  BY <1>1, <1>2, <1>3, TokenSteps

(* A replacement leaves no envelope behind: a token without a mode pairs     *)
(* only where no agent is active, a drain goes on only without envelopes, a  *)
(* forced one destroys them.                                                 *)
LEMMA PairLeavesNoEnvelope ==
  ASSUME TypeOK, CallsOK, EnvelopesCanBeOpened, NEW x \in Calls, Pair(x),
         NEW q \in Requests
  PROVE  \/ envelopes'[q] = Null
         \/ envelopes'[q] = envelopes[q] /\ envelopes[q] \in removed
<1>1. PICK c : c = calls[x]
  OBVIOUS
<1>2. c \in PairCalls /\ PairOK(c) /\ c.pc = "insert"
  BY <1>1, PairAgents
<1>3. envelopes' = IF c.old # Null /\ tokens[c.token].mode = "force"
                   THEN [p \in Requests |-> Null] ELSE envelopes
  BY <1>1 DEF Pair
<1>4. CASE c.old # Null /\ tokens[c.token].mode = "force"
  BY <1>3, <1>4
<1>5. CASE c.old # Null /\ tokens[c.token].mode # "force"
  <2>1. tokens[c.token].mode = "drain"
    BY <1>2, <1>5, AgentPairingAssumption DEF PairOK
  <2>2. envelopes[q] = Null
    BY <1>2, <1>5, <2>1 DEF PairOK
  <2> QED
    BY <1>3, <1>5, <2>2
<1>6. CASE c.old = Null
  <2>1. Active = {} /\ envelopes' = envelopes
    BY <1>2, <1>3, <1>6 DEF PairOK
  <2>2. envelopes[q] # Null => envelopes[q] \in Agents
    BY DEF TypeOK
  <2> QED
    BY <2>1, <2>2 DEF EnvelopesCanBeOpened, Active
<1> QED
  BY <1>4, <1>5, <1>6

(* So every envelope can be opened.                                          *)
LEMMA EnvelopesStep ==
  ASSUME TypeOK, CallsOK, OneAgent, EnvelopesCanBeOpened, [Next]_vars
  PROVE  /\ envelopes' \in [Requests -> Agents \cup {Null}]
         /\ EnvelopesCanBeOpened'
<1>1. envelopes' \in [Requests -> Agents \cup {Null}]
  BY EnvelopeChanges
<1> SUFFICES ASSUME NEW q \in Requests, envelopes'[q] # Null
             PROVE  envelopes'[q] \in Active' \cup removed'
  BY <1>1 DEF EnvelopesCanBeOpened, Active
<1>2. removed \subseteq removed'
  BY AgentsStep
<1>3. CASE \E x \in Calls : Pair(x)
  BY <1>2, <1>3, PairLeavesNoEnvelope
<1>4. CASE ~\E x \in Calls : Pair(x)
  <2>1. Active \subseteq Active' \cup removed'
    BY <1>4, AgentsStep
  <2>2. envelopes[q] # Null => envelopes[q] \in Active \cup removed
    BY DEF EnvelopesCanBeOpened, TypeOK, Active
  <2>3. ASSUME NEW x \in Calls, calls[x] \in StoreCalls, StoreOK(calls[x])
        PROVE  calls[x].agent \in Active
    BY <2>3 DEF StoreOK, StoreCalls, Active
  <2>4. envelopes'[q] \in Active \cup removed
    BY <2>2, <2>3, EnvelopeChanges
  <2> QED
    BY <1>2, <2>1, <2>4
<1> QED
  BY <1>3, <1>4

(* The count of events of a request stays a count.                           *)
LEMMA AuditedStep ==
  ASSUME TypeOK, [Next]_vars
  PROVE  audited' \in [Requests -> Nat]
<1>1. ASSUME NEW x \in Calls, Bind(x)
      PROVE  audited' \in [Requests -> Nat]
  <2>1. PICK S : audited' = [q \in Requests |->
                               audited[q] + IF q \in S THEN 1 ELSE 0]
    BY <1>1 DEF Bind
  <2>2. ASSUME NEW q \in Requests
        PROVE  audited[q] + 1 \in Nat /\ audited[q] + 0 \in Nat
    <3>1. audited[q] \in Nat
      BY DEF TypeOK
    <3> QED
      BY <3>1
  <2>3. \A q \in Requests : audited[q] + (IF q \in S THEN 1 ELSE 0) \in Nat
    BY <2>2
  <2> QED
    BY <2>1, <2>3
<1>2. ASSUME NEW x \in Calls, Save(x)
      PROVE  audited' \in [Requests -> Nat]
  <2>1. PICK k : audited' = [audited EXCEPT ![k] = audited[k] + 1]
    BY <1>2 DEF Save
  <2>2. \A q \in Requests : audited[q] + 1 \in Nat
    BY DEF TypeOK
  <2> QED
    BY <2>1, <2>2 DEF TypeOK
<1>3. \/ audited' = audited
      \/ \E x \in Calls : Bind(x) \/ Save(x)
  BY DEF Next, vars, IssueToken, RevokeAgent, Forget, BeginPair, BeginStore,
     BeginBind, BeginSave, PairStep, LockEnvironment, LockActiveAgent,
     ReadEnvelopes, ReadAttempts, LockWork, Pair, StoreEnvelope, BindStep,
     LockRequest, LockAgent, LockEnvelope, LockCandidates, Fail,
     UnchangedTables, UnchangedRequests
<1> QED
  BY <1>1, <1>2, <1>3 DEF TypeOK

-----------------------------------------------------------------------------
(* The first state satisfies the invariant.                                  *)
LEMMA InitInductive ==
  ASSUME Init
  PROVE  IInv
<1>1. PICK a \in Agents : agents = [b \in Agents |-> IF b = a THEN "active"
                                                     ELSE "absent"]
  BY DEF Init
<1>2. Active = {a}
  BY <1>1 DEF Active
<1>3. << >> \in Seq(OpenAttempt \cup ClosedAttempt)
  OBVIOUS
<1>4. requests \in [Requests -> RequestRows]
  BY <1>3, AgentPairingAssumption DEF Init, RequestRows
<1>5. RowsAgree
  <2>1. \A q \in Requests : /\ requests[q].status = FirstStatus[q]
                            /\ requests[q].attempts = << >>
                            /\ requests[q].duplicateOf = Null
    BY DEF Init
  <2>2. \A q \in Requests : FirstStatus[q] \notin {"execution_authorized", "executing"}
    BY AgentPairingAssumption
  <2> QED
    BY <2>1, <2>2 DEF RowsAgree, Agrees, HasOpenAttempt
<1>6. TypeOK
  BY <1>1, <1>4 DEF Init, TypeOK, TokenRows
<1>7. LocksExclude /\ CallsOK
  BY DEF Init, LocksExclude, CallsOK
<1>8. OneAgent /\ TokensOfOne
  BY <1>2 DEF Init, OneAgent, TokensOfOne
<1>9. EnvelopesCanBeOpened /\ OneActiveRequest
  BY DEF Init, EnvelopesCanBeOpened, OneActiveRequest
<1> QED
  BY <1>5, <1>6, <1>7, <1>8, <1>9 DEF IInv

(* Every step keeps it.                                                      *)
LEMMA StepInductive ==
  ASSUME IInv, [Next]_vars
  PROVE  IInv'
<1>1. /\ TypeOK /\ LocksExclude /\ CallsOK /\ RowsAgree /\ OneAgent
      /\ TokensOfOne /\ EnvelopesCanBeOpened /\ OneActiveRequest
  BY DEF IInv
<1>2. calls' \in [Calls -> CallStates \cup {Null}] /\ LocksExclude'
  BY <1>1, LocksStep
<1>3. requests' \in [Requests -> RequestRows] /\ RowsAgree'
  BY <1>1, RowsStep
<1>4. CallsOK' /\ OneActiveRequest'
  BY <1>1, CallsStep, OneActiveRequestStep
<1>5. /\ agents' \in [Agents -> {"absent", "active", "revoked"}]
      /\ removed' \subseteq Agents /\ OneAgent'
  BY <1>1, AgentsStep
<1>6. tokens' \in [Tokens -> TokenRows] /\ TokensOfOne'
  BY <1>1, TokensStep
<1>7. /\ envelopes' \in [Requests -> Agents \cup {Null}]
      /\ EnvelopesCanBeOpened'
  BY <1>1, EnvelopesStep
<1>8. audited' \in [Requests -> Nat]
  BY <1>1, AuditedStep
<1>9. TypeOK'
  BY <1>2, <1>3, <1>5, <1>6, <1>7, <1>8 DEF TypeOK
<1> QED
  BY <1>2, <1>3, <1>4, <1>5, <1>6, <1>7, <1>9 DEF IInv

(* So every behaviour satisfies it in every state.                           *)
LEMMA Inductive == Spec => []IInv
<1>1. Init => IInv
  BY InitInductive
<1>2. IInv /\ [Next]_vars => IInv'
  BY StepInductive
<1> QED
  BY <1>1, <1>2, PTL DEF Spec

(* The tables and the calls stay what they are declared to be.               *)
THEOREM PairingTyped == Spec => []TypeOK
<1>1. IInv => TypeOK
  BY DEF IInv
<1> QED
  BY <1>1, Inductive, PTL

(* A set all of whose elements are equal has one element at most.            *)
LEMMA OneElement ==
  ASSUME NEW S, \A a, b \in S : a = b
  PROVE  Cardinality(S) <= 1
<1>1. CASE S = {}
  <2>1. Cardinality(S) = 0
    BY <1>1, FS_EmptySet
  <2> QED
    BY <2>1
<1>2. CASE S # {}
  <2>1. PICK a \in S : TRUE
    BY <1>2
  <2>2. S = {a}
    BY <2>1
  <2>3. Cardinality(S) = 1
    BY <2>2, FS_Singleton
  <2> QED
    BY <2>3
<1> QED
  BY <1>1, <1>2

(* "Only one active agent is allowed per environment", for any number of     *)
(* registrations, replacements and revocations at once.                      *)
THEOREM AgentsAreAlone == Spec => []OneActiveAgent
<1>1. IInv => OneActiveAgent
  BY OneElement DEF IInv, OneAgent, OneActiveAgent
<1> QED
  BY <1>1, Inductive, PTL

(* A pairing token is good for one agent.                                    *)
THEOREM TokensAreConsumed == Spec => []TokensPairOnce
<1>1. IInv => TokensPairOnce
  BY OneElement DEF IInv, TokensOfOne, TokensPairOnce
<1> QED
  BY <1>1, Inductive, PTL

(* An envelope waits for an agent that is active or was revoked by           *)
(* revokeAgent, never for one that was replaced.                             *)
THEOREM EnvelopesAreForTheAgent == Spec => []EnvelopesCanBeOpened
<1>1. IInv => EnvelopesCanBeOpened
  BY DEF IInv
<1> QED
  BY <1>1, Inductive, PTL

(* The attempts of a request that executes are open, and no others.          *)
THEOREM AttemptsAlwaysFollow == Spec => []AttemptsFollowStatus
<1>1. IInv => AttemptsFollowStatus
  <2> SUFFICES ASSUME IInv, NEW q \in Requests
               PROVE  Working(q) <=> requests[q].status \in
                        {"execution_authorized", "executing"}
    BY DEF AttemptsFollowStatus
  <2>1. Agrees(requests[q])
    BY DEF IInv, RowsAgree
  <2> QED
    BY <2>1 DEF Agrees, HasOpenAttempt, Working
<1> QED
  BY <1>1, Inductive, PTL

(* At most one ordinary request of a subject is active.                      *)
THEOREM SubjectsHaveOneRequest == Spec => []OneActiveRequest
<1>1. IInv => OneActiveRequest
  BY DEF IInv
<1> QED
  BY <1>1, Inductive, PTL

-----------------------------------------------------------------------------
(* What a binding gives up, and what a version leaves behind.                *)

(* What a binding changes of who is a duplicate of whom.                     *)
LEMMA BindGivesUp ==
  ASSUME IInv, NEW x \in Calls, Bind(x), NEW q \in Requests,
         requests'[q].duplicateOf # requests[q].duplicateOf
  PROVE  requests'[requests'[q].duplicateOf].status \notin TerminalStatuses
<1>0. /\ TypeOK /\ CallsOK /\ RowsAgree
      /\ calls[x] \in BindCalls /\ BindOK(calls[x])
  BY CallAt, KindOfCall DEF IInv, Bind, At
<1>1. PICK c \in BindCalls : c = calls[x]
  BY <1>0
<1>2. PICK r : r = requests[q]
  OBVIOUS
<1>3. PICK s : s = requests'[q]
  OBVIOUS
<1>4. BindChanges(c, q, r, s)
  BY <1>0, <1>1, <1>2, <1>3, BindRows
<1>5. c.request \in Requests /\ c.candidate \in Requests \cup {Null}
  BY <1>1 DEF BindCalls
<1>6. CASE q = c.request
  <2>1. r.status # "cancelled"
    BY <1>0, <1>1, <1>2, <1>4, <1>6
    DEF BindChanges, BindOK, CancellableDuplicateStatuses
  <2>2. r.duplicateOf = Null
    BY <1>0, <1>2, <2>1 DEF RowsAgree
  <2>3. Yields(c) /\ s.duplicateOf = c.candidate
    BY <1>2, <1>3, <1>4, <1>6, <2>2 DEF BindChanges
  <2>4. c.candidate # Null /\ c.candidate # c.request
        /\ requests[c.candidate].status \notin TerminalStatuses
    BY <1>0, <1>1, <2>3 DEF Yields, BindOK
  <2>5. PICK p \in Requests : p = c.candidate
    BY <1>5, <2>4
  <2>6. requests'[p] = requests[p]
    <3>1. BindChanges(c, p, requests[p], requests'[p])
      BY <1>0, <1>1, BindRows
    <3> QED
      BY <2>3, <2>4, <2>5, <3>1 DEF BindChanges
  <2> QED
    BY <1>3, <2>3, <2>4, <2>5, <2>6
<1>7. CASE q # c.request
  <2>1. ~Yields(c) /\ s.duplicateOf = c.request
    BY <1>2, <1>3, <1>4, <1>7 DEF BindChanges
  <2>2. BindChanges(c, c.request, requests[c.request], requests'[c.request])
    BY <1>0, <1>1, <1>5, BindRows
  <2>3. requests'[c.request].status = "identity_verified"
    BY <2>1, <2>2 DEF BindChanges
  <2> QED
    BY <1>3, <2>1, <2>3 DEF TerminalStatuses
<1> QED
  BY <1>6, <1>7

(* A request is given up only for one that goes on.                          *)
THEOREM DuplicatesGiveWay == Spec => OriginalGoesOn
<1> DEFINE A == \A q \in Requests :
         requests'[q].duplicateOf # requests[q].duplicateOf =>
           requests'[requests'[q].duplicateOf].status \notin TerminalStatuses
<1>1. ASSUME IInv, [Next]_vars
      PROVE  [A]_vars
  <2>1. /\ TypeOK /\ CallsOK /\ RowsAgree /\ OneAgent /\ OneActiveRequest
    BY <1>1 DEF IInv
  <2>2. ASSUME NEW q \in Requests, NEW x \in Calls, Pair(x) \/ Save(x)
        PROVE  requests'[q].duplicateOf = requests[q].duplicateOf
    BY <2>1, <2>2, PairAndSaveRows
  <2> QED
    BY <1>1, <2>1, <2>2, OnlyThree, BindGivesUp
<1>2. IInv /\ [Next]_vars => [A]_vars
  BY <1>1
<1> HIDE DEF A
<1>3. Spec => [][A]_vars
  BY <1>2, Inductive, PTL DEF Spec
<1> QED
  BY <1>3 DEF A, OriginalGoesOn

(* Without a forced replacement each version comes with an event.            *)
LEMMA AuditedVersions ==
  ASSUME IInv, [Next]_vars, "force" \notin Modes, VersionsAreAudited
  PROVE  VersionsAreAudited'
<1>0. /\ TypeOK /\ CallsOK /\ RowsAgree /\ OneAgent /\ OneActiveRequest
  BY DEF IInv
<1>1. ASSUME NEW x \in Calls, Pair(x), NEW q \in Requests
      PROVE  requests'[q].version = requests[q].version /\ audited'[q] = audited[q]
  <2>1. PICK c : c = calls[x]
    OBVIOUS
  <2>2. tokens[c.token].mode # "force"
    BY <1>0, <1>1, <2>1, PairAgents DEF PairOK
  <2> QED
    BY <1>0, <1>1, <2>1, <2>2, PairAndSaveRows DEF Pair
<1>2. ASSUME NEW x \in Calls, Save(x), NEW q \in Requests
      PROVE  requests'[q].version = audited'[q]
  <2>1. PICK c : c = calls[x]
    OBVIOUS
  <2>2. \/ requests'[q] = requests[q] /\ q # c.request
        \/ q = c.request /\ requests'[q].version = requests[q].version + 1
    BY <1>0, <1>2, <2>1, PairAndSaveRows
  <2>3. audited' = [audited EXCEPT ![c.request] = audited[c.request] + 1]
    BY <1>2, <2>1 DEF Save
  <2> QED
    BY <1>0, <2>2, <2>3 DEF TypeOK, VersionsAreAudited
<1>3. ASSUME NEW x \in Calls, Bind(x), NEW q \in Requests
      PROVE  requests'[q].version = audited'[q]
  <2>1. PICK c : c = calls[x]
    OBVIOUS
  <2>2. PICK changed : changed =
          {c.request} \cup (IF c.candidate = Null \/ Yields(c) THEN {}
                            ELSE {c.candidate})
    OBVIOUS
  <2>3. audited'[q] = audited[q] + IF q \in changed THEN 1 ELSE 0
    BY <1>3, <2>1, <2>2 DEF Bind, Recorded
  <2>4. BindChanges(c, q, requests[q], requests'[q])
    BY <1>0, <1>3, <2>1, BindRows
  <2>5. /\ requests[q].version \in Nat
        /\ audited[q] \in Nat /\ audited[q] = requests[q].version
        /\ q # Null
    BY <1>0, AgentPairingAssumption DEF TypeOK, RequestRows, VersionsAreAudited
  <2>6. CASE q \in changed
    <3>1. requests'[q].version = requests[q].version + 1
      BY <2>2, <2>4, <2>6 DEF BindChanges
    <3> QED
      BY <2>3, <2>5, <2>6, <3>1
  <2>7. CASE q \notin changed
    <3>1. requests'[q] = requests[q]
      BY <2>2, <2>4, <2>5, <2>7 DEF BindChanges
    <3> QED
      BY <2>3, <2>5, <2>7, <3>1
  <2> QED
    BY <2>6, <2>7
<1>4. CASE requests' = requests /\ audited' = audited
  BY <1>4 DEF VersionsAreAudited
<1>5. \/ requests' = requests /\ audited' = audited
      \/ \E x \in Calls : Pair(x) \/ Save(x) \/ Bind(x)
  BY DEF Next, vars, IssueToken, RevokeAgent, Forget, BeginPair, BeginStore,
     BeginBind, BeginSave, PairStep, LockEnvironment, LockActiveAgent,
     ReadEnvelopes, ReadAttempts, LockWork, StoreEnvelope, BindStep,
     LockRequest, LockAgent, LockEnvelope, LockCandidates, Fail,
     UnchangedTables, UnchangedRequests
<1> QED
  BY <1>1, <1>2, <1>3, <1>4, <1>5 DEF VersionsAreAudited

(* "Every state transition emits an append-only audit event": so it is where *)
(* owners issue no token for a forced replacement, which emits none.         *)
THEOREM VersionsLeaveEvents ==
  "force" \notin Modes => (Spec => []VersionsAreAudited)
<1> SUFFICES ASSUME "force" \notin Modes
             PROVE  Spec => []VersionsAreAudited
  OBVIOUS
<1>1. Init => VersionsAreAudited
  BY DEF Init, VersionsAreAudited
<1>2. IInv /\ [Next]_vars /\ VersionsAreAudited => VersionsAreAudited'
  BY AuditedVersions
<1> QED
  BY <1>1, <1>2, Inductive, PTL DEF Spec
=============================================================================
