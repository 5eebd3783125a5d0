----------------------- MODULE ApprovalEngine_proofs -----------------------
(***************************************************************************)
(* The approval engine for any number of requests and operator calls: the  *)
(* inductive invariant, the two safety properties it is there for, and the *)
(* step-by-step implementation of ApprovalContract.                        *)
(***************************************************************************)
EXTENDS ApprovalEngine, TLAPS

(* No approval id is the marker of an empty call record.                   *)
LEMMA CallIsNotNone ==
  ASSUME TypeOK, NEW o \in Operators, call[o] # NoCall
  PROVE  call[o].id \in Requests /\ call[o].says \in Decision
BY DEF TypeOK, Call

(* The empty engine of a process that has just started satisfies the       *)
(* invariant.                                                              *)
LEMMA InitEngineInv == Init => EngineInv
BY DEF Init, EngineInv, TypeOK, PendingWhileWaiting, FirstDecisionWins, Waiting,
       Decision, None, NoCall, Call

(* Every step of a waiter, an operator, a timer, a client or a crash keeps *)
(* the invariant.                                                          *)
LEMMA NextEngineInv == EngineInv /\ [Next]_engineVars => EngineInv'
<1> SUFFICES ASSUME EngineInv, [Next]_engineVars PROVE EngineInv'
    OBVIOUS
<1> USE DEF EngineInv, TypeOK, PendingWhileWaiting, FirstDecisionWins, Waiting,
            Decision, None, NoCall, Call
<1>1. ASSUME NEW r \in Requests, RequestApproval(r) PROVE EngineInv'
      BY <1>1 DEF RequestApproval
<1>2. ASSUME NEW r \in Requests, SelectDecision(r) PROVE EngineInv'
      BY <1>2 DEF SelectDecision, Verdict
<1>3. ASSUME NEW r \in Requests, SelectTimer(r) PROVE EngineInv'
      BY <1>3 DEF SelectTimer
<1>4. ASSUME NEW r \in Requests, SelectDone(r) PROVE EngineInv'
      BY <1>4 DEF SelectDone
<1>5. ASSUME NEW r \in Requests, DeferredDelete(r) PROVE EngineInv'
      BY <1>5 DEF DeferredDelete
<1>6. ASSUME NEW o \in Operators, NEW r \in Requests, NEW d \in Decision,
             SignalLoad(o, r, d)
      PROVE  EngineInv'
      BY <1>6 DEF SignalLoad
<1>7. ASSUME NEW o \in Operators, SignalSend(o) PROVE EngineInv'
      BY <1>7, CallIsNotNone DEF SignalSend
<1>8. ASSUME NEW r \in Requests, TimerFires(r) PROVE EngineInv'
      BY <1>8 DEF TimerFires
<1>9. ASSUME NEW r \in Requests, ClientGone(r) PROVE EngineInv'
      BY <1>9 DEF ClientGone
<1>10. ASSUME Crash PROVE EngineInv'
      BY <1>10 DEF Crash
<1>11. CASE UNCHANGED engineVars
      BY <1>11 DEF engineVars
<1> HIDE DEF EngineInv, TypeOK, PendingWhileWaiting, FirstDecisionWins, Waiting,
             Decision, None, NoCall, Call
<1> QED
    BY <1>1, <1>2, <1>3, <1>4, <1>5, <1>6, <1>7, <1>8, <1>9, <1>10, <1>11
    DEF Next, WaiterStep, Select

(* approval.go, for any number of concurrent requests and decisions: the   *)
(* pending map and the channels stay consistent with what the waiting      *)
(* goroutines have seen.                                                   *)
THEOREM EngineInvariant == Safety => []EngineInv
<1>1. Init => EngineInv
      BY InitEngineInv
<1>2. EngineInv /\ [Next]_engineVars => EngineInv'
      BY NextEngineInv
<1> QED
    BY <1>1, <1>2, PTL DEF Safety

(* However many operators answer, RequestApproval returns the decision of  *)
(* the first whose send reached the channel.                               *)
THEOREM FirstDecisionAlwaysWins == Safety => []FirstDecisionWins
<1>1. EngineInv => FirstDecisionWins
      BY DEF EngineInv
<1> QED
    BY <1>1, EngineInvariant, PTL

(* The pending map never holds a request nobody waits for, and never lacks *)
(* one somebody waits for.                                                 *)
THEOREM PendingIsExact == Safety => []PendingWhileWaiting
<1>1. EngineInv => PendingWhileWaiting
      BY DEF EngineInv
<1> QED
    BY <1>1, EngineInvariant, PTL

----------------------------------------------------------------------------
(* Refinement.                                                             *)

(* Every step of the engine is a step of the contract or leaves it alone.  *)
LEMMA NextRefines ==
  EngineInv /\ [Next]_engineVars => [Contract!Next]_(Contract!contractVars)
<1> SUFFICES ASSUME EngineInv, [Next]_engineVars
             PROVE  [Contract!Next]_(Contract!contractVars)
    OBVIOUS
<1> DEFINE status == [r \in Requests |-> StatusOf(r)]
<1> USE DEF Contract!contractVars
<1>1. ASSUME NEW r \in Requests, RequestApproval(r) PROVE Contract!Open(r)
      BY <1>1 DEF RequestApproval, Contract!Open, StatusOf, EngineInv, TypeOK, None
<1>2. ASSUME NEW r \in Requests, SelectDecision(r)
      PROVE  \E s \in Contract!Resolution : Contract!Resolve(r, s)
  <2>1. outcome[r] = None /\ decision[r] \in Decision /\ first[r] = decision[r]
        BY <1>2 DEF SelectDecision, EngineInv, TypeOK
  <2> DEFINE v == Verdict[decision[r]]
  <2>2. /\ v \in {"approved", "denied"}
        /\ v = "approved" => first[r] = "approve"
        /\ v = "denied" => first[r] = "deny"
        BY <2>1 DEF Verdict, Decision
  <2>3. /\ waiter[r] = "select"
        /\ waiter' = [waiter EXCEPT ![r] = "deferred"]
        /\ outcome' = [outcome EXCEPT ![r] = v]
        /\ first' = first
        BY <1>2 DEF SelectDecision
  <2> HIDE DEF v
  <2>4. Contract!Resolve(r, v)
    <3>1. status[r] = "open"
          BY <2>1, <2>3 DEF StatusOf, None
    <3>2. \A q \in Requests : StatusOf(q)' = IF q = r THEN v ELSE StatusOf(q)
          BY <2>2, <2>3 DEF StatusOf, EngineInv, TypeOK, None
    <3>3. status' = [status EXCEPT ![r] = v]
          BY <3>2
    <3> QED
        BY <2>2, <2>3, <3>1, <3>3 DEF Contract!Resolve
  <2> QED
      BY <2>2, <2>4 DEF Contract!Resolution
<1>3. ASSUME NEW r \in Requests, SelectTimer(r) PROVE Contract!Resolve(r, "timeout")
      BY <1>3 DEF SelectTimer, Contract!Resolve, StatusOf, EngineInv, TypeOK, None
<1>4. ASSUME NEW r \in Requests, SelectDone(r) PROVE Contract!Resolve(r, "cancelled")
      BY <1>4 DEF SelectDone, Contract!Resolve, StatusOf, EngineInv, TypeOK, None
<1>5. ASSUME NEW r \in Requests, DeferredDelete(r)
      PROVE  status' = status /\ first' = first
      BY <1>5 DEF DeferredDelete, StatusOf, EngineInv, TypeOK, None
<1>6. ASSUME NEW o \in Operators, SignalSend(o)
      PROVE  \/ Contract!Accept(call[o].id, call[o].says)
             \/ status' = status /\ first' = first
      BY <1>6, CallIsNotNone
      DEF SignalSend, Contract!Accept, StatusOf, EngineInv, TypeOK, None
<1>7. ASSUME Crash PROVE Contract!Crash
      BY <1>7 DEF Crash, Contract!Crash, StatusOf, EngineInv, TypeOK, None
<1>8. CASE waiter' = waiter /\ outcome' = outcome /\ first' = first
      BY <1>8 DEF StatusOf
<1> QED
  <2>1. ASSUME NEW r \in Requests, TimerFires(r) \/ ClientGone(r)
        PROVE  waiter' = waiter /\ outcome' = outcome /\ first' = first
        BY <2>1 DEF TimerFires, ClientGone
  <2>2. ASSUME NEW o \in Operators, NEW r \in Requests, NEW d \in Decision,
               SignalLoad(o, r, d)
        PROVE  waiter' = waiter /\ outcome' = outcome /\ first' = first
        BY <2>2 DEF SignalLoad
  <2>3. CASE UNCHANGED engineVars
        BY <1>8, <2>3 DEF engineVars
  <2>4. ASSUME NEW o \in Operators, SignalSend(o)
        PROVE  call[o].id \in Requests /\ call[o].says \in Contract!Decision
        BY <2>4, CallIsNotNone DEF SignalSend, EngineInv, Contract!Decision, Decision
  <2> QED
      BY <1>1, <1>2, <1>3, <1>4, <1>5, <1>6, <1>7, <1>8, <2>1, <2>2, <2>3, <2>4
      DEF Next, WaiterStep, Select, Contract!Next, Contract!Resolution

(* The goroutines, map, channels and timers of approval.go implement, for  *)
(* any number of requests and operators, the promise that a request is     *)
(* resolved at most once and by the first accepted decision, its deadline  *)
(* or its caller's departure.                                              *)
THEOREM EngineImplementsContract == Safety => Contract!Safety
<1>1. Init => Contract!Init
      BY DEF Init, Contract!Init, StatusOf, None
<1>2. EngineInv /\ [Next]_engineVars => [Contract!Next]_(Contract!contractVars)
      BY NextRefines
<1> QED
    BY <1>1, <1>2, EngineInvariant, PTL DEF Safety, Contract!Safety
=============================================================================
