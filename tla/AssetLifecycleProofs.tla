------------------------ MODULE AssetLifecycleProofs ------------------------
(***************************************************************************)
(* The safety properties of AssetLifecycle hold for every fleet, every set *)
(* of holders and every set of repair identifiers.                         *)
(***************************************************************************)
EXTENDS AssetLifecycle, TLAPS

\* The inductive invariant: the four properties need each other.
IInv ==
    /\ TypeOK
    /\ OneActiveRequest
    /\ AssetFollowsRequest
    /\ CustodyHeld

LEMMA InitInvariant == Init => IInv
<1> SUFFICES ASSUME Init PROVE IInv
  OBVIOUS
<1>1. TypeOK
  BY DEF Init, TypeOK, AssetStatus, RequestRow, RequestStatus, ActiveStatus, NoRequest
<1>2. \A c \in Codes : request[c].status = "absent"
  BY DEF Init, NoRequest
<1>3. OneActiveRequest
  BY <1>2 DEF OneActiveRequest, Active, ActiveStatus
<1>4. AssetFollowsRequest
  BY <1>2 DEF AssetFollowsRequest, Init
<1>5. CustodyHeld
  BY <1>2 DEF CustodyHeld, Active, ActiveStatus, Init
<1> QED
  BY <1>1, <1>3, <1>4, <1>5 DEF IInv

\* Columns keep their types in every transition.
LEMMA TypeStep == TypeOK /\ [Next]_vars => TypeOK'
<1> SUFFICES ASSUME TypeOK, [Next]_vars PROVE TypeOK'
  OBVIOUS
<1>1. ASSUME NEW a \in Assets, NEW action \in AssetAction, NEW to \in AssetStatus,
             Transition(a, action, to)
      PROVE  status' \in [Assets -> AssetStatus] /\ history' \in [Assets -> Seq(AuditRow)]
  <2>1. [action |-> action, from |-> status[a], to |-> to] \in AuditRow
    BY DEF TypeOK, AuditRow
  <2>2. Append(history[a], [action |-> action, from |-> status[a], to |-> to]) \in Seq(AuditRow)
    BY <2>1 DEF TypeOK
  <2> QED
    BY <1>1, <2>2 DEF Transition, TypeOK
<1>2. ASSUME NEW c \in Codes, NEW d \in RequestStatus, Decide(c, d)
      PROVE  request' \in [Codes -> RequestRow]
  BY <1>2 DEF Decide, TypeOK, RequestRow
<1> USE DEF AssetStatus, AssetAction, RequestStatus, ActiveStatus
<1>3. ASSUME NEW a \in Assets, NEW h \in Holders, Assign(a, h) PROVE TypeOK'
  BY <1>1, <1>3 DEF Assign, TypeOK
<1>4. ASSUME NEW a \in Assets, Unassign(a) \/ Dispose(a) PROVE TypeOK'
  BY <1>1, <1>4 DEF Unassign, Dispose, TypeOK
<1>5. ASSUME NEW a \in Assets, NEW c \in Codes, Submit(a, c) PROVE TypeOK'
  BY <1>1, <1>5 DEF Submit, TypeOK, RequestRow
<1>6. ASSUME NEW a \in Assets, NEW c \in Codes, Approve(a, c) \/ Reject(a, c) \/ Complete(a, c)
      PROVE  TypeOK'
  BY <1>1, <1>2, <1>6 DEF Approve, Reject, Complete, TypeOK
<1>7. CASE UNCHANGED vars
  BY <1>7 DEF vars, TypeOK
<1> QED
  BY <1>3, <1>4, <1>5, <1>6, <1>7 DEF Next

\* The two tables and the custody of the asset stay in step.
LEMMA CouplingStep ==
    ASSUME IInv, [Next]_vars
    PROVE  OneActiveRequest' /\ AssetFollowsRequest' /\ CustodyHeld'
<1> DEFINE Goal == OneActiveRequest' /\ AssetFollowsRequest' /\ CustodyHeld'
<1> USE NoOneAssumption
        DEF IInv, TypeOK, OneActiveRequest, AssetFollowsRequest, CustodyHeld, Active, HasActive,
            ActiveStatus, Transition, RequestRow
<1>1. ASSUME NEW a \in Assets, NEW h \in Holders, Assign(a, h) PROVE Goal
  BY <1>1 DEF Assign
<1>2. ASSUME NEW a \in Assets, Unassign(a) PROVE Goal
  BY <1>2 DEF Unassign
<1>3. ASSUME NEW a \in Assets, Dispose(a) PROVE Goal
  BY <1>3 DEF Dispose
<1>4. ASSUME NEW a \in Assets, NEW c \in Codes, Submit(a, c) PROVE Goal
  BY <1>4 DEF Submit
<1>5. ASSUME NEW a \in Assets, NEW c \in Codes, Approve(a, c) PROVE Goal
  BY <1>5 DEF Approve, Decide
<1>6. ASSUME NEW a \in Assets, NEW c \in Codes, Reject(a, c) PROVE Goal
  BY <1>6 DEF Reject, Decide
<1>7. ASSUME NEW a \in Assets, NEW c \in Codes, Complete(a, c) PROVE Goal
  BY <1>7 DEF Complete, Decide
<1>8. CASE UNCHANGED vars
  BY <1>8 DEF vars
<1> QED
  BY <1>1, <1>2, <1>3, <1>4, <1>5, <1>6, <1>7, <1>8 DEF Next

LEMMA Invariant == Spec => []IInv
<1>1. IInv /\ [Next]_vars => IInv'
  BY TypeStep, CouplingStep DEF IInv
<1> QED
  BY <1>1, InitInvariant, PTL DEF Spec

\* Rows keep the values their columns declare, and every audit row names statuses.
THEOREM TypeCorrect == Spec => []TypeOK
<1>1. IInv => TypeOK
  BY DEF IInv
<1> QED
  BY <1>1, Invariant, PTL

\* T4: no interleaving of transitions leaves an asset with two open repair requests.
THEOREM NoDuplicateRequest == Spec => []OneActiveRequest
<1>1. IInv => OneActiveRequest
  BY DEF IInv
<1> QED
  BY <1>1, Invariant, PTL

\* The status of an asset and the statuses of its repair requests never contradict each other.
THEOREM TablesAgree == Spec => []AssetFollowsRequest
<1>1. IInv => AssetFollowsRequest
  BY DEF IInv
<1> QED
  BY <1>1, Invariant, PTL

\* T8: custody is held through a repair, and given up only by taking the asset back.
THEOREM CustodyIsHeld == Spec => []CustodyHeld
<1>1. IInv => CustodyHeld
  BY DEF IInv
<1> QED
  BY <1>1, Invariant, PTL

=============================================================================
