------------------------ MODULE AgentBehavior_proofs ------------------------
(***************************************************************************)
(* behavior.go for any number of agents and requests and any policy: no    *)
(* quarantine without cause and none longer than the policy says, although *)
(* the attempts of one agent overwrite each other's rows.                  *)
(***************************************************************************)
EXTENDS AgentBehavior, FiniteSetTheorems, TLAPS

(* CountedIn is a finite set: its cardinality is a number that only grows  *)
(* when requests are added to it.                                          *)
LEMMA CountedInFinite ==
  ASSUME NEW a, NEW w
  PROVE  /\ IsFiniteSet(CountedIn(a, w)) /\ CountedIn(a, w) \subseteq Requests
         /\ Cardinality(CountedIn(a, w)) \in Nat
BY BehaviorAssumption, FS_Subset, FS_CardinalityType DEF CountedIn

(* Time passing or attempts being added takes nothing from the             *)
(* justification of a row.                                                 *)
LEMMA JustifiedStays ==
  ASSUME NEW a, NEW state \in AgentState, Justified(a, state),
         CountedIn(a, state.window) \subseteq CountedIn(a, state.window)'
  PROVE  Justified(a, state)'
<1>1. /\ IsFiniteSet(CountedIn(a, state.window)')
      /\ Cardinality(CountedIn(a, state.window)) \in Nat
      /\ Cardinality(CountedIn(a, state.window)') \in Nat
      BY CountedInFinite, BehaviorAssumption, FS_Subset, FS_CardinalityType DEF CountedIn
<1>2. Cardinality(CountedIn(a, state.window)) <= Cardinality(CountedIn(a, state.window)')
      BY <1>1, FS_Subset
<1> QED
    BY <1>1, <1>2 DEF Justified, AgentState

(* The row after one more attempt is a row.                                *)
LEMMA AfterAttemptType ==
  ASSUME NEW at \in Nat, NEW state \in AgentState
  PROVE  AfterAttempt(state, at) \in AgentState
BY BehaviorAssumption DEF AfterAttempt, AgentState, Instant, Never

(* recordRiskAttempt works out a row that is justified once the attempt    *)
(* itself is on record, from any justified row and from no row, although   *)
(* the time it works with may be older than the row.                       *)
LEMMA AttemptJustified ==
  ASSUME BehaviorInv, NEW r \in Requests, readAt[r] = Never, madeAt[r] # Never,
         NEW state \in AgentState, Justified(AgentOf[r], state), Timely(state),
         NEW next, next = AfterAttempt(state, madeAt[r]),
         readAt' = [readAt EXCEPT ![r] = now], madeAt' = madeAt
  PROVE  Justified(AgentOf[r], next)' /\ Timely(next)
<1>a. PICK at : at = madeAt[r]
      OBVIOUS
<1> DEFINE fresh == state = NoState \/ at - state.window > RetryWindow
           base == IF fresh THEN [attempts |-> 0, window |-> at, until |-> Never]
                            ELSE state
<1>0. now \in Nat /\ RetryWindow \in Nat /\ QuarantineDuration \in Nat
      /\ MaxBlockedAttempts \in Int /\ IsFiniteSet(Requests)
      /\ at \in Nat /\ at <= now
      BY <1>a, BehaviorAssumption DEF BehaviorInv, TypeOK, Instant
<1>1. /\ base \in AgentState
      /\ base.window <= now /\ at <= base.window + RetryWindow
      /\ base.until <= now + QuarantineDuration
      /\ base.until # Never => base.attempts >= MaxBlockedAttempts
      BY <1>0 DEF AgentState, Instant, Never, Timely, Justified
<1>2. PICK w \in Instant : w = base.window
      BY <1>1 DEF AgentState
<1> DEFINE a == AgentOf[r]
           before == CountedIn(a, w)
<1>3. base.attempts <= Cardinality(before)
  <2>1. CASE fresh
        BY <2>1, <1>2, CountedInFinite
  <2>2. CASE ~fresh
        BY <2>2, <1>2 DEF Justified
  <2> QED
      BY <2>1, <2>2
<1>4. w \in Int /\ w <= now /\ at <= w + RetryWindow
      BY <1>0, <1>1, <1>2 DEF Instant, Never
<1>5. before' = before \cup {r} /\ r \notin before
      BY <1>a, <1>0, <1>4 DEF CountedIn, BehaviorInv, TypeOK, Never
<1>6. Cardinality(before') = Cardinality(before) + 1 /\ Cardinality(before) \in Nat
      BY <1>5, CountedInFinite, FS_AddElement
<1>7. /\ next.attempts = base.attempts + 1
      /\ next.window = w
      /\ next.until = IF base.attempts + 1 >= MaxBlockedAttempts
                      THEN at + QuarantineDuration ELSE base.until
      BY <1>a, <1>2 DEF AfterAttempt
<1> HIDE DEF base, before
<1>8. Timely(next)
      BY <1>0, <1>1, <1>2, <1>7 DEF Timely
<1>9. next.attempts <= Cardinality(before')
      BY <1>1, <1>3, <1>6, <1>7 DEF AgentState
<1>10. next.until # Never => next.attempts >= MaxBlockedAttempts
      BY <1>0, <1>1, <1>7 DEF AgentState
<1> QED
    BY <1>7, <1>8, <1>9, <1>10 DEF Justified, before

(* A row that was in order stays in order as attempts are added and time   *)
(* passes.                                                                 *)
LEMMA RowsStay ==
  ASSUME BehaviorInv, now' \in Nat, now <= now',
         \A a, w : CountedIn(a, w) \subseteq CountedIn(a, w)'
  PROVE  \A a, s : s \in AgentState /\ Justified(a, s) /\ Timely(s)
                     => Justified(a, s)' /\ Timely(s)'
<1>1. ASSUME NEW s \in AgentState, Timely(s)
      PROVE  Timely(s)'
      BY <1>1, BehaviorAssumption DEF BehaviorInv, TypeOK, Timely, AgentState, Instant, Never
<1> QED
    BY <1>1, JustifiedStays

(* Every step of a handler, and the clock, keep the invariant, whatever    *)
(* statements on the metadata database fail.                               *)
LEMMA NextBehaviorInv == BehaviorInv /\ [Next]_behaviorVars => BehaviorInv'
<1> SUFFICES ASSUME BehaviorInv, [Next]_behaviorVars PROVE BehaviorInv'
    OBVIOUS
<1> DEFINE Early == {"none", "admitted", "timed"}
           Stages == {"none", "admitted", "timed", "read", "done"}
<1> USE BehaviorAssumption
<1>0. TypeOK
      BY DEF BehaviorInv
<1>a. \A r \in Requests : /\ madeAt[r] <= now /\ readAt[r] <= now
                          /\ stage[r] = "timed" => madeAt[r] # Never
                          /\ stage[r] \in Early => readAt[r] = Never
      BY DEF BehaviorInv
<1>1. ASSUME now' \in Nat, now <= now', UNCHANGED <<agentState, row, readAt>>,
             stage' \in [Requests -> Stages], madeAt' \in [Requests -> Instant],
             \A r \in Requests :
               /\ madeAt'[r] = madeAt[r] \/ readAt[r] = Never
               /\ madeAt'[r] <= now'
               /\ stage'[r] \in Early => stage[r] \in Early
               /\ stage'[r] = "timed" => madeAt'[r] # Never
      PROVE  BehaviorInv'
  <2>1. \A a, w : CountedIn(a, w) \subseteq CountedIn(a, w)'
        BY <1>1, <1>0 DEF CountedIn, TypeOK
  <2>2. \A a, s : s \in AgentState /\ Justified(a, s) /\ Timely(s)
                    => Justified(a, s)' /\ Timely(s)'
        BY <1>1, <2>1, RowsStay
  <2>3. TypeOK'
        BY <1>0, <1>1 DEF TypeOK
  <2>4. ASSUME NEW a \in Agents PROVE (Justified(a, agentState[a]) /\ Timely(agentState[a]))'
    <3>1. PICK s : s = agentState[a]
          OBVIOUS
    <3>2. s \in AgentState /\ Justified(a, s) /\ Timely(s)
          BY <3>1, <1>0 DEF BehaviorInv, TypeOK
    <3>3. Justified(a, s)' /\ Timely(s)'
          BY <3>2, <2>2
    <3> QED
        BY <3>1, <3>3, <1>1
  <2>5. ASSUME NEW r \in Requests PROVE (Justified(AgentOf[r], row[r]) /\ Timely(row[r]))'
    <3>1. PICK s : s = row[r]
          OBVIOUS
    <3>2. s \in AgentState /\ Justified(AgentOf[r], s) /\ Timely(s)
          BY <3>1, <1>0 DEF BehaviorInv, TypeOK
    <3>3. Justified(AgentOf[r], s)' /\ Timely(s)'
          BY <3>2, <2>2
    <3> QED
        BY <3>1, <3>3, <1>1
  <2>6. \A r \in Requests : /\ madeAt'[r] <= now' /\ readAt'[r] <= now'
                            /\ stage'[r] = "timed" => madeAt'[r] # Never
                            /\ stage'[r] \in Early => readAt'[r] = Never
        BY <1>0, <1>a, <1>1 DEF TypeOK, Instant, Never
  <2> QED
      BY <2>3, <2>4, <2>5, <2>6 DEF BehaviorInv
<1>2. ASSUME NEW r \in Requests, CheckQuarantine(r) PROVE BehaviorInv'
      BY <1>0, <1>a, <1>1, <1>2 DEF CheckQuarantine, TypeOK
<1>3. CASE Tick
      BY <1>0, <1>a, <1>1, <1>3 DEF Tick, TypeOK, Instant, Never
<1>4. CASE UNCHANGED behaviorVars
      BY <1>0, <1>a, <1>1, <1>4 DEF behaviorVars, TypeOK
<1>b. ASSUME NEW r \in Requests, TakeTime(r) PROVE BehaviorInv'
      BY <1>0, <1>a, <1>1, <1>b DEF TakeTime, TypeOK, Instant, Never
<1>5. ASSUME NEW r \in Requests, ReadState(r) PROVE BehaviorInv'
  <2>1. PICK state \in GetAgentState(AgentOf[r]) :
               row' = [row EXCEPT ![r] = AfterAttempt(state, madeAt[r])]
        BY <1>5 DEF ReadState
  <2>2. /\ readAt[r] = Never /\ madeAt[r] # Never
        /\ readAt' = [readAt EXCEPT ![r] = now]
        /\ stage' = [stage EXCEPT ![r] = "read"]
        /\ UNCHANGED <<now, agentState, madeAt>>
        BY <1>5, <1>a DEF ReadState
  <2>3. state \in AgentState /\ Justified(AgentOf[r], state) /\ Timely(state)
    <3>1. CASE state = agentState[AgentOf[r]]
          BY <3>1, <1>0 DEF BehaviorInv, TypeOK
    <3>2. CASE state = NoState
          BY <3>2, <1>0, CountedInFinite
          DEF TypeOK, Justified, NoState, AgentState, Instant, Never, Timely
    <3> QED
        BY <3>1, <3>2 DEF GetAgentState
  <2>4. PICK next : next = AfterAttempt(state, madeAt[r])
        OBVIOUS
  <2>5. next \in AgentState
        BY <2>2, <2>3, <2>4, <1>0, AfterAttemptType DEF TypeOK, Instant
  <2>6. Justified(AgentOf[r], next)' /\ Timely(next)'
    <3>1. Justified(AgentOf[r], next)' /\ Timely(next)
          BY <2>2, <2>3, <2>4, AttemptJustified
    <3> QED
        BY <3>1, <2>2 DEF Timely
  <2>7. \A a, w : CountedIn(a, w) \subseteq CountedIn(a, w)'
        BY <2>2, <1>0 DEF CountedIn, TypeOK
  <2>8. \A a, s : s \in AgentState /\ Justified(a, s) /\ Timely(s)
                    => Justified(a, s)' /\ Timely(s)'
        BY <2>2, <2>7, <1>0, RowsStay DEF TypeOK
  <2>9. TypeOK'
        BY <1>0, <2>1, <2>2, <2>4, <2>5 DEF TypeOK, Instant
  <2>10. ASSUME NEW a \in Agents
         PROVE  (Justified(a, agentState[a]) /\ Timely(agentState[a]))'
    <3>1. PICK s : s = agentState[a]
          OBVIOUS
    <3>2. s \in AgentState /\ Justified(a, s) /\ Timely(s)
          BY <3>1, <1>0 DEF BehaviorInv, TypeOK
    <3>3. Justified(a, s)' /\ Timely(s)'
          BY <3>2, <2>8
    <3> QED
        BY <3>1, <3>3, <2>2
  <2>11. ASSUME NEW q \in Requests
         PROVE  (Justified(AgentOf[q], row[q]) /\ Timely(row[q]))'
    <3>1. CASE q = r
      <4>1. row'[q] = next
            BY <3>1, <2>1, <2>4, <1>0 DEF TypeOK
      <4> QED
          BY <3>1, <4>1, <2>6
    <3>2. CASE q # r
      <4>1. PICK s : s = row[q]
            OBVIOUS
      <4>2. s \in AgentState /\ Justified(AgentOf[q], s) /\ Timely(s)
            BY <4>1, <1>0 DEF BehaviorInv, TypeOK
      <4>3. Justified(AgentOf[q], s)' /\ Timely(s)'
            BY <4>2, <2>8
      <4>4. row'[q] = s
            BY <3>2, <4>1, <2>1, <1>0 DEF TypeOK
      <4> QED
          BY <4>3, <4>4
    <3> QED
        BY <3>1, <3>2
  <2>12. \A q \in Requests : /\ madeAt'[q] <= now' /\ readAt'[q] <= now'
                             /\ stage'[q] = "timed" => madeAt'[q] # Never
                             /\ stage'[q] \in Early => readAt'[q] = Never
        BY <1>0, <1>a, <2>2 DEF TypeOK
  <2> QED
      BY <2>9, <2>10, <2>11, <2>12 DEF BehaviorInv
<1>6. ASSUME NEW r \in Requests, SaveState(r) PROVE BehaviorInv'
  <2>1. /\ stage' = [stage EXCEPT ![r] = "done"]
        /\ UNCHANGED <<now, madeAt, row, readAt>>
        /\ \/ agentState' = [agentState EXCEPT ![AgentOf[r]] = row[r]]
           \/ agentState' = agentState
        BY <1>6 DEF SaveState
  <2>2. TypeOK'
        BY <1>0, <2>1 DEF TypeOK
  <2>3. \A a, s : Justified(a, s) /\ Timely(s) => Justified(a, s)' /\ Timely(s)'
        BY <2>1 DEF Justified, Timely, CountedIn
  <2>4. ASSUME NEW a \in Agents
        PROVE  (Justified(a, agentState[a]) /\ Timely(agentState[a]))'
    <3>1. PICK s : s = agentState'[a]
          OBVIOUS
    <3>2. Justified(a, s) /\ Timely(s)
          BY <3>1, <2>1, <1>0 DEF BehaviorInv, TypeOK
    <3>3. Justified(a, s)' /\ Timely(s)'
          BY <3>2, <2>3
    <3> QED
        BY <3>1, <3>3
  <2>5. ASSUME NEW q \in Requests
        PROVE  (Justified(AgentOf[q], row[q]) /\ Timely(row[q]))'
    <3>1. PICK s : s = row[q]
          OBVIOUS
    <3>2. Justified(AgentOf[q], s)' /\ Timely(s)'
          BY <3>1, <2>3 DEF BehaviorInv
    <3> QED
        BY <3>1, <3>2, <2>1
  <2>6. \A q \in Requests : /\ madeAt'[q] <= now' /\ readAt'[q] <= now'
                            /\ stage'[q] = "timed" => madeAt'[q] # Never
                            /\ stage'[q] \in Early => readAt'[q] = Never
        BY <1>0, <1>a, <2>1 DEF TypeOK
  <2> QED
      BY <2>2, <2>4, <2>5, <2>6 DEF BehaviorInv
<1> QED
    BY <1>2, <1>3, <1>4, <1>b, <1>5, <1>6 DEF Next

(* agent_state, and the rows handlers are about to write to it, are always *)
(* accounted for by attempts that were really made.                        *)
THEOREM BehaviorInvariant == Spec => []BehaviorInv
<1>1. Init => BehaviorInv
  <2> SUFFICES ASSUME Init PROVE BehaviorInv
      OBVIOUS
  <2>1. TypeOK
        BY DEF Init, TypeOK, NoState, AgentState, Instant, Never
  <2>2. /\ \A a \in Agents : Justified(a, agentState[a])
        /\ \A r \in Requests : Justified(AgentOf[r], row[r])
        BY CountedInFinite DEF Init, Justified, NoState
  <2> QED
      BY <2>1, <2>2, BehaviorAssumption DEF Init, BehaviorInv, Timely, NoState, Never
<1>2. BehaviorInv /\ [Next]_behaviorVars => BehaviorInv'
      BY NextBehaviorInv
<1> QED
    BY <1>1, <1>2, PTL DEF Spec

(* For every policy, recordRiskAttempt quarantines no agent unless         *)
(* max_blocked_attempts_per_window different requests of that agent were   *)
(* being recorded while one retry window ran, lost updates, failing        *)
(* statements and a clock read before the row notwithstanding.             *)
THEOREM NoQuarantineWithoutCause == Spec => []QuarantineHasCause
<1>1. BehaviorInv => QuarantineHasCause
  <2> SUFFICES ASSUME BehaviorInv, NEW a \in Agents, agentState[a].until # Never
               PROVE  Cardinality(CountedIn(a, agentState[a].window)) >= MaxBlockedAttempts
      BY DEF QuarantineHasCause
  <2>1. /\ agentState[a].attempts \in Nat
        /\ agentState[a].attempts <= Cardinality(CountedIn(a, agentState[a].window))
        /\ agentState[a].attempts >= MaxBlockedAttempts
        BY DEF BehaviorInv, Justified, TypeOK, AgentState
  <2>2. Cardinality(CountedIn(a, agentState[a].window)) \in Nat
        BY CountedInFinite
  <2> QED
      BY <2>1, <2>2, BehaviorAssumption
<1> QED
    BY <1>1, BehaviorInvariant, PTL

(* No quarantine reaches further than quarantine_duration_seconds from     *)
(* now.                                                                    *)
THEOREM QuarantineNeverTooLong == Spec => []QuarantineBounded
<1>1. BehaviorInv => QuarantineBounded
      BY DEF BehaviorInv, Timely, QuarantineBounded
<1> QED
    BY <1>1, BehaviorInvariant, PTL
=============================================================================
