----------------------------- MODULE RelaySend -----------------------------
(***************************************************************************)
(* The relay's send path for ONE spend: the requests that ask for it       *)
(* (app/src/lib/relay/server.ts submitSpend and submit), the in-flight     *)
(* lock they share (inflight.ts), and the node and chain they send to.     *)
(*                                                                         *)
(* The lock lives for 180 s of wall clock (SET NX EX, inflight.ts:37, 160).*)
(* A request is cut at 60 s (maxDuration), so the key stays while its      *)
(* holder checks and sends; a sent transaction may be pending for longer   *)
(* (Ethereum, with a capped fee), and then the key lapses over it:         *)
(* `outlived` remembers those.  A lock command is one atomic Redis command.*)
(***************************************************************************)
EXTENDS Naturals, FiniteSets

CONSTANTS
  Requests,
  NoRequest,
  Elsewhere,            \* a spend from somebody's own wallet
  RpcErrorMayBeTaken    \* whether a send the node refused can still be taken

ASSUME RelayAssumption ==
  /\ NoRequest \notin Requests
  /\ Elsewhere \notin Requests \cup {NoRequest}
  /\ RpcErrorMayBeTaken \in BOOLEAN

VARIABLES
  lock,      \* the request whose token the spend's key holds
  at,        \* where each request is
  nonceTried,\* requests that used their second attempt
  tx,        \* each request's transaction
  spentBy,
  outlived   \* requests whose key lapsed while their transaction was pending

vars == <<lock, at, nonceTried, tx, spentBy, outlived>>

TypeOK ==
  /\ lock \in Requests \cup {NoRequest}
  /\ at \in [Requests -> {"idle", "precheck", "dryrun", "send", "watch", "over"}]
  /\ nonceTried \subseteq Requests
  /\ tx \in [Requests -> {"none", "pending", "landed", "reverted", "dropped"}]
  /\ spentBy \in Requests \cup {NoRequest, Elsewhere}
  /\ outlived \subseteq Requests
  /\ \A r \in Requests : at[r] \in {"precheck", "dryrun", "send"} => lock = r

Init ==
  /\ lock = NoRequest
  /\ at = [r \in Requests |-> "idle"]
  /\ nonceTried = {}
  /\ tx = [r \in Requests |-> "none"]
  /\ spentBy = NoRequest
  /\ outlived = {}

Spent == spentBy # NoRequest
Goes(r, place) == at' = [at EXCEPT ![r] = place]

-----------------------------------------------------------------------------
(* takeInflight: SET NX.                                                   *)
NoExclusion == TRUE  \* mutant: the key is written without NX
KeyFree == lock = NoRequest

TakeInflight(r) ==
  /\ at[r] = "idle"
  /\ \/ KeyFree /\ lock' = r /\ Goes(r, "precheck")
     \/ ~KeyFree /\ UNCHANGED lock /\ Goes(r, "over")    \* in_flight
     \/ UNCHANGED lock /\ Goes(r, "over")              \* LockStoreDown
     \/ KeyFree /\ lock' = r /\ Goes(r, "over")         \* its answer was lost
  /\ UNCHANGED <<nonceTried, tx, spentBy, outlived>>

(* release: deletes the key only while it still holds our token.           *)
AnyToken(r) == TRUE  \* mutant: release deletes whoever's key it is
OurToken(r) == lock = r

Release(r) ==
  \/ lock' = IF OurToken(r) THEN NoRequest ELSE lock
  \/ UNCHANGED lock                   \* Redis did not answer: left to expire

(* Every error before a send gives the lock back.                          *)
Refuse(r) ==
  /\ at[r] \in {"precheck", "dryrun", "send"}
  /\ Release(r)
  /\ Goes(r, "over")
  /\ UNCHANGED <<nonceTried, tx, spentBy, outlived>>

SkipsSpent == TRUE  \* mutant: the checks do not look at the nullifier
SeesUnspent == ~Spent

(* precheckSpend reads the nullifier; the dry run reverts on a spent note. *)
Precheck(r) ==
  /\ at[r] = "precheck"
  /\ SeesUnspent
  /\ Goes(r, "dryrun")
  /\ UNCHANGED <<lock, nonceTried, tx, spentBy, outlived>>

DryRun(r) ==
  /\ at[r] = "dryrun"
  /\ SeesUnspent
  /\ Goes(r, "send")
  /\ UNCHANGED <<lock, nonceTried, tx, spentBy, outlived>>

Taken(r) == tx' = [tx EXCEPT ![r] = "pending"]

(* A hash: the lock stays, and the receipt is followed after the reply.    *)
SendHash(r) ==
  /\ at[r] = "send"
  /\ Taken(r)
  /\ Goes(r, "watch")
  /\ UNCHANGED <<lock, nonceTried, spentBy, outlived>>

(* A timeout or a lost connection: the lock stays, nothing is followed.    *)
DropsOnDoubt(r) == Release(r)  \* mutant: maybe_sent gives the lock back
KeepsOnDoubt(r) == UNCHANGED lock

SendMaybeSent(r) ==
  /\ at[r] = "send"
  /\ Taken(r) \/ UNCHANGED tx
  /\ KeepsOnDoubt(r)
  /\ Goes(r, "over")
  /\ UNCHANGED <<nonceTried, spentBy, outlived>>

(* The node refused it over the nonce: once more, from the chain's nonce.  *)
SendNonceClash(r) ==
  /\ at[r] = "send"
  /\ r \notin nonceTried
  /\ nonceTried' = nonceTried \cup {r}
  /\ UNCHANGED <<lock, at, tx, spentBy, outlived>>

(* Any other answer of the node is "rpc", and gives the lock back.         *)
SendRpcError(r) ==
  /\ at[r] = "send"
  /\ UNCHANGED tx \/ (RpcErrorMayBeTaken /\ Taken(r))
  /\ Release(r)
  /\ Goes(r, "over")
  /\ UNCHANGED <<nonceTried, spentBy, outlived>>

(* releaseIfReverted: only a reverted receipt drops the lock.              *)
SawRevert(r) == tx[r] = "reverted"

WatchReceipt(r) ==
  /\ at[r] = "watch"
  /\ IF SawRevert(r) THEN Release(r) ELSE UNCHANGED lock
  /\ Goes(r, "over")
  /\ UNCHANGED <<nonceTried, tx, spentBy, outlived>>

(* The function dies: its lock is left to expire.                          *)
Crash(r) ==
  /\ at[r] \notin {"idle", "over"}
  /\ UNCHANGED tx \/ (at[r] = "send" /\ Taken(r))
  /\ Goes(r, "over")
  /\ UNCHANGED <<lock, nonceTried, spentBy, outlived>>

NoTtl(r) == FALSE  \* mutant: the key is written without EX
TtlPassed(r) == at[r] \in {"watch", "over"}

(* 180 s after it was taken, whatever became of the transaction.           *)
Expire(r) ==
  /\ lock = r
  /\ TtlPassed(r)
  /\ lock' = NoRequest
  /\ outlived' = IF tx[r] = "pending" THEN outlived \cup {r} ELSE outlived
  /\ UNCHANGED <<at, nonceTried, tx, spentBy>>

-----------------------------------------------------------------------------
(* The chain: a pending transaction spends the note, reverts (always when  *)
(* the note is spent) or is dropped.                                       *)
Mine(r) ==
  /\ tx[r] = "pending"
  /\ \/ ~Spent /\ spentBy' = r /\ tx' = [tx EXCEPT ![r] = "landed"]
     \/ UNCHANGED spentBy /\ tx' = [tx EXCEPT ![r] = "reverted"]
  /\ UNCHANGED <<lock, at, nonceTried, outlived>>

DropTx(r) ==
  /\ tx[r] = "pending"
  /\ tx' = [tx EXCEPT ![r] = "dropped"]
  /\ UNCHANGED <<lock, at, nonceTried, spentBy, outlived>>

SpendElsewhere ==
  /\ ~Spent
  /\ spentBy' = Elsewhere
  /\ UNCHANGED <<lock, at, nonceTried, tx, outlived>>

RequestStep(r) ==
  \/ TakeInflight(r) \/ Refuse(r) \/ Precheck(r) \/ DryRun(r)
  \/ SendHash(r) \/ SendMaybeSent(r) \/ SendNonceClash(r) \/ SendRpcError(r)
  \/ WatchReceipt(r)

Next ==
  \/ \E r \in Requests : RequestStep(r) \/ Crash(r) \/ Expire(r)
  \/ \E r \in Requests : Mine(r) \/ DropTx(r)
  \/ SpendElsewhere

(* A live function runs on and a key expires; a transaction may be pending *)
(* for ever.                                                               *)
Fairness ==
  \A r \in Requests :
    /\ WF_vars(RequestStep(r))
    /\ WF_vars(Expire(r))

Spec == Init /\ [][Next]_vars
FairSpec == Spec /\ Fairness

-----------------------------------------------------------------------------
(* The sends that are out; and those of them whose key has not run out.    *)
Out == {r \in Requests : tx[r] = "pending"}
InTime == Out \ outlived

(* "At most one send of a spend out at a time" (inflight.ts:19-26), over   *)
(* retries, crashes and answers nobody got: a second goes out only beside  *)
(* one that was still pending when the 180 s of its key ran out.           *)
AtMostOneSendOut == Cardinality(InTime) <= 1

(* What the lock is for (inflight.ts:4-8): the relay pays for a copy that  *)
(* reverts because another copy it sent landed only where one of the two   *)
(* was pending for longer than its key lived.                              *)
NoPaidCopy ==
  \A r \in InTime : spentBy \notin Requests \ ({r} \cup outlived)

(* Nothing but its 180 s takes the key from under a transaction that may   *)
(* land: no other request's release, no failed or lost answer, no receipt  *)
(* of another send (inflight.ts:102-104, 198-216).                         *)
LockOutlivesSend == \A r \in InTime : lock = r

(* No crash or lost answer blocks a spend for good (server.ts:1166-1174):  *)
(* the key is free in the end and every request has its answer.            *)
SpendIsFreed == <>[](lock = NoRequest /\ \A r \in Requests : at[r] = "over")
=============================================================================
