-------------------------- MODULE RelaySendProofs --------------------------
(***************************************************************************)
(* The relay's in-flight lock, proved for any set of requests, on a node   *)
(* whose refusal of a send means the send was not taken, and whatever time *)
(* a transaction is pending.  The invariant: a request has no transaction  *)
(* before its send, whoever has one pending and did not outlive its key    *)
(* still holds it, and the note of a request that is at its send was spent *)
(* by no other request, unless that one outlived its own key.              *)
(***************************************************************************)
EXTENDS RelaySend, FiniteSetTheorems, TLAPS

NothingSentYet == \A r \in Requests : at[r] \notin {"watch", "over"} => tx[r] = "none"
SendsUnspent == \A r \in Requests : at[r] = "send" => spentBy \notin Requests \ ({r} \cup outlived)

IInv ==
  TypeOK /\ NothingSentYet /\ LockOutlivesSend /\ SendsUnspent /\ NoPaidCopy

LEMMA InitInv == Init => IInv
BY RelayAssumption
   DEF Init, IInv, TypeOK, NothingSentYet, LockOutlivesSend, SendsUnspent, NoPaidCopy, Out, InTime

LEMMA InvStep == ~RpcErrorMayBeTaken /\ IInv /\ [Next]_vars => IInv'
<1> SUFFICES ASSUME ~RpcErrorMayBeTaken, IInv, [Next]_vars
             PROVE  IInv'
  OBVIOUS
<1> USE RelayAssumption
    DEF IInv, TypeOK, NothingSentYet, LockOutlivesSend, SendsUnspent, NoPaidCopy,
        Out, InTime, Spent, Goes
<1>1. ASSUME NEW r \in Requests, TakeInflight(r) PROVE IInv'
  BY <1>1 DEF TakeInflight, KeyFree
<1>2. ASSUME NEW r \in Requests, Refuse(r) PROVE IInv'
  <2>1. lock = r /\ lock' \in {r, NoRequest}
    BY <1>2 DEF Refuse, Release, OurToken
  <2>2. tx[r] # "pending"
    BY <1>2, <2>1 DEF Refuse
  <2> QED BY <1>2, <2>1, <2>2 DEF Refuse
<1>3. ASSUME NEW r \in Requests, Precheck(r) PROVE IInv'
  BY <1>3 DEF Precheck, SeesUnspent
<1>4. ASSUME NEW r \in Requests, DryRun(r) PROVE IInv'
  BY <1>4 DEF DryRun, SeesUnspent
<1>5. ASSUME NEW r \in Requests, SendHash(r) PROVE IInv'
  BY <1>5 DEF SendHash, Taken
<1>6. ASSUME NEW r \in Requests, SendMaybeSent(r) PROVE IInv'
  BY <1>6 DEF SendMaybeSent, Taken, KeepsOnDoubt
<1>7. ASSUME NEW r \in Requests, SendNonceClash(r) PROVE IInv'
  BY <1>7 DEF SendNonceClash
<1>8. ASSUME NEW r \in Requests, SendRpcError(r) PROVE IInv'
  <2>1. UNCHANGED tx
    BY <1>8 DEF SendRpcError
  <2>2. lock = r /\ lock' \in {r, NoRequest}
    BY <1>8 DEF SendRpcError, Release, OurToken
  <2> QED BY <1>8, <2>1, <2>2 DEF SendRpcError
<1>9. ASSUME NEW r \in Requests, WatchReceipt(r) PROVE IInv'
  BY <1>9 DEF WatchReceipt, SawRevert, Release, OurToken
<1>10. ASSUME NEW r \in Requests, Crash(r) PROVE IInv'
  BY <1>10 DEF Crash, Taken
<1>11. ASSUME NEW r \in Requests, Expire(r) PROVE IInv'
  BY <1>11 DEF Expire, TtlPassed
<1>12. ASSUME NEW r \in Requests, Mine(r) PROVE IInv'
  BY <1>12 DEF Mine
<1>13. ASSUME NEW r \in Requests, DropTx(r) PROVE IInv'
  BY <1>13 DEF DropTx
<1>14. CASE SpendElsewhere
  BY <1>14 DEF SpendElsewhere
<1>15. CASE UNCHANGED vars
  BY <1>15 DEF vars
<1> QED
  BY <1>1, <1>2, <1>3, <1>4, <1>5, <1>6, <1>7, <1>8, <1>9, <1>10, <1>11,
     <1>12, <1>13, <1>14, <1>15 DEF Next, RequestStep

(* The invariant holds throughout, for any set of requests.                *)
THEOREM InvHolds == ASSUME ~RpcErrorMayBeTaken PROVE Spec => []IInv
<1>1. IInv /\ [Next]_vars => IInv'
  BY InvStep
<1> QED BY <1>1, InitInv, PTL DEF Spec

(* Only its own 180 s take a key from under a transaction that may still   *)
(* land: no refusal, retry, crash, late release or revert of another does. *)
THEOREM KeyOutlivesSend ==
  ASSUME ~RpcErrorMayBeTaken PROVE Spec => []LockOutlivesSend
<1>1. IInv => LockOutlivesSend
  BY DEF IInv
<1> QED BY <1>1, InvHolds, PTL

(* However many requests race, retry, die or lose their answers, at most   *)
(* one send of a spend is out under a live key: two would both hold it.    *)
THEOREM OneSendOut ==
  ASSUME ~RpcErrorMayBeTaken PROVE Spec => []AtMostOneSendOut
<1>1. IInv => AtMostOneSendOut
  <2> SUFFICES ASSUME IInv PROVE Cardinality(InTime) <= 1
    BY DEF AtMostOneSendOut
  <2>1. InTime \subseteq {lock}
    BY DEF IInv, LockOutlivesSend
  <2>2. IsFiniteSet({lock}) /\ Cardinality({lock}) = 1
    BY FS_Singleton
  <2> QED BY <2>1, <2>2, FS_Subset
<1> QED BY <1>1, InvHolds, PTL

(* The relay never pays for a copy that another copy it sent makes revert, *)
(* unless one of the two was pending for longer than its key lived.        *)
THEOREM NeverPaysForACopy ==
  ASSUME ~RpcErrorMayBeTaken PROVE Spec => []NoPaidCopy
<1>1. IInv => NoPaidCopy
  BY DEF IInv
<1> QED BY <1>1, InvHolds, PTL

-----------------------------------------------------------------------------
(* Types hold whatever a refused send means.                               *)
LEMMA TypeStep == TypeOK /\ [Next]_vars => TypeOK'
<1> SUFFICES ASSUME TypeOK, [Next]_vars PROVE TypeOK'
  OBVIOUS
<1> USE RelayAssumption DEF TypeOK, Goes, Release
<1>1. ASSUME NEW r \in Requests, TakeInflight(r) PROVE TypeOK'
  BY <1>1 DEF TakeInflight, KeyFree
<1>2. ASSUME NEW r \in Requests, Refuse(r) PROVE TypeOK'
  <2>1. lock = r /\ lock' \in {r, NoRequest}
    BY <1>2 DEF Refuse, OurToken
  <2> QED BY <1>2, <2>1 DEF Refuse
<1>3. ASSUME NEW r \in Requests, Precheck(r) PROVE TypeOK'
  BY <1>3 DEF Precheck
<1>4. ASSUME NEW r \in Requests, DryRun(r) PROVE TypeOK'
  BY <1>4 DEF DryRun
<1>5. ASSUME NEW r \in Requests, SendHash(r) PROVE TypeOK'
  BY <1>5 DEF SendHash, Taken
<1>6. ASSUME NEW r \in Requests, SendMaybeSent(r) PROVE TypeOK'
  BY <1>6 DEF SendMaybeSent, Taken, KeepsOnDoubt
<1>7. ASSUME NEW r \in Requests, SendNonceClash(r) PROVE TypeOK'
  BY <1>7 DEF SendNonceClash
<1>8. ASSUME NEW r \in Requests, SendRpcError(r) PROVE TypeOK'
  BY <1>8 DEF SendRpcError, Taken, OurToken
<1>9. ASSUME NEW r \in Requests, WatchReceipt(r) PROVE TypeOK'
  <2>1. lock' = lock \/ (lock = r /\ lock' = NoRequest)
    BY <1>9 DEF WatchReceipt, OurToken
  <2> QED BY <1>9, <2>1 DEF WatchReceipt
<1>10. ASSUME NEW r \in Requests, Crash(r) PROVE TypeOK'
  BY <1>10 DEF Crash, Taken
<1>11. ASSUME NEW r \in Requests, Expire(r) PROVE TypeOK'
  BY <1>11 DEF Expire, TtlPassed
<1>12. ASSUME NEW r \in Requests, Mine(r) PROVE TypeOK'
  BY <1>12 DEF Mine
<1>13. ASSUME NEW r \in Requests, DropTx(r) PROVE TypeOK'
  BY <1>13 DEF DropTx
<1>14. CASE SpendElsewhere
  BY <1>14 DEF SpendElsewhere
<1>15. CASE UNCHANGED vars
  BY <1>15 DEF vars
<1> QED
  BY <1>1, <1>2, <1>3, <1>4, <1>5, <1>6, <1>7, <1>8, <1>9, <1>10, <1>11,
     <1>12, <1>13, <1>14, <1>15 DEF Next, RequestStep

(* The send path keeps its types for any requests, on any node.            *)
THEOREM TypeCorrect == Spec => []TypeOK
<1>1. Init => TypeOK
  BY RelayAssumption DEF Init, TypeOK
<1> QED BY <1>1, TypeStep, PTL DEF Spec
=============================================================================
