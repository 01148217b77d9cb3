------------------------------ MODULE SpendLog ------------------------------
(***************************************************************************)
(* The agent server's spending limits: every call that moves money is      *)
(* checked and reserved in a JSON log, pays, and settles its entry         *)
(* (mcp/src/spendGuard.ts, spendLog.ts), each under a lock file shared by  *)
(* every server process that uses the log (fileLock.ts).                   *)
(*                                                                         *)
(* One step is one file operation.  A server process waits for the lock    *)
(* and works inside it without returning to its event loop, so its other   *)
(* calls stand still meanwhile; it only reads and writes one small file,   *)
(* so it leaves, or dies, long before its lock file is ten seconds old.    *)
(* All spends are of one asset of one agent: limits are kept per asset.    *)
(* A send that was refused or has reverted may still land, since its proof *)
(* stays valid until its note is spent; its entry does not count any more, *)
(* so what lands late is outside the limits.                               *)
(***************************************************************************)
EXTENDS Integers, FiniteSetsExt

CONSTANTS
  Calls, Servers,
  Server,          \* per call, the process that runs it
  Exits,           \* calls logged with counts: false (a swap's exit)
  Amount,          \* per call, what it spends
  maxPerPayment, maxPerDay,
  DAY,             \* DAY_MS
  KEEP, KEEP_MAX,  \* KEEP_MS and KEEP_MAX, the log's history
  NoCall,
  MaxTime          \* bound on the clock

ASSUME SpendAssumption ==
  /\ IsFiniteSet(Calls)
  /\ Server \in [Calls -> Servers]
  /\ Exits \subseteq Calls
  /\ Amount \in [Calls -> Nat \ {0}]
  /\ maxPerPayment \in Nat /\ maxPerDay \in Nat
  /\ DAY \in Nat \ {0}
  /\ KEEP \in Nat /\ KEEP >= 2 * DAY
  /\ KEEP_MAX \in Nat
  /\ NoCall \notin Calls
  /\ MaxTime \in Nat

VARIABLES
  lockFile,  \* the call whose process made the lock file
  old,       \* whether it is more than ten seconds old
  at,        \* where each call is
  stamp,     \* when each call began
  result,    \* what each call settles as, "pending" before it knows and after
  log,       \* the log file: each call's entry
  seen,      \* the log as a call inside the lock read or wrote it
  tx,        \* each call's send; "late" once it landed though refused or reverted
  now

lockVars == <<lockFile, old>>
vars == <<lockVars, at, stamp, result, log, seen, tx, now>>

COUNTED_STATUSES == {"pending", "sent", "unconfirmed"}
SpendStatus == COUNTED_STATUSES \cup {"reverted", "failed", "refused"}
SpendEntry == [status : SpendStatus, at : 0..MaxTime]
NoEntry == [status |-> "none", at |-> 0]
Logs == [Calls -> SpendEntry \cup {NoEntry}]
EmptyLog == [c \in Calls |-> NoEntry]

Inside == {c \in Calls : at[c] \in {"read", "write", "leave"}}
InLockCode == Inside \cup {c \in Calls : at[c] \in {"wait", "clear"}}

(* Types; and one process runs one call at a time inside the lock.         *)
TypeOK ==
  /\ lockFile \in Calls \cup {NoCall}
  /\ old \in BOOLEAN
  /\ at \in [Calls -> {"idle", "wait", "clear", "read", "write", "leave",
                       "pay", "over"}]
  /\ stamp \in [Calls -> 0..MaxTime]
  /\ result \in [Calls -> SpendStatus \ {"refused"}]
  /\ log \in Logs
  /\ seen \in [Calls -> Logs]
  /\ tx \in [Calls -> {"none", "out", "refused", "reverted", "late"}]
  /\ now \in 0..MaxTime
  /\ \A c, d \in InLockCode : Server[c] = Server[d] => c = d

Init ==
  /\ lockFile = NoCall
  /\ old = FALSE
  /\ at = [c \in Calls |-> "idle"]
  /\ stamp = [c \in Calls |-> 0]
  /\ result = [c \in Calls |-> "pending"]
  /\ log = EmptyLog
  /\ seen = [c \in Calls |-> EmptyLog]
  /\ tx = [c \in Calls |-> "none"]
  /\ now = 0

Goes(c, place) == at' = [at EXCEPT ![c] = place]
Ends(c) == Goes(c, "over") /\ result' = [result EXCEPT ![c] = "pending"]
YieldsInside(c) == TRUE  \* mutant: the wait for the lock returns to the event loop
Runs(c) == \A d \in InLockCode \ {c} : Server[d] # Server[c]
Reserving(c) == result[c] = "pending"

-----------------------------------------------------------------------------
(* withFileLock: openSync "wx", else a look at the file's age.             *)
AlsoTaken == lockFile \in Calls \cup {NoCall}  \* mutant: the file is opened without "x"
Free == lockFile = NoCall

OpenLock(c) ==
  /\ at[c] = "wait"
  /\ Free
  /\ lockFile' = c
  /\ old' = FALSE
  /\ Goes(c, "read")
  /\ UNCHANGED <<stamp, result, log, seen, tx, now>>

FindOld(c) ==
  /\ at[c] = "wait"
  /\ ~Free
  /\ old
  /\ Goes(c, "clear")
  /\ UNCHANGED <<lockVars, stamp, result, log, seen, tx, now>>

(* rmSync by path: whoever's file is there by now.                         *)
RemoveLock == lockFile' = NoCall /\ old' = FALSE

(* "is locked. Try again" after 200 tries: authorizeSpend refuses the      *)
(* spend, settleSpend leaves its entry as it is.                           *)
ClearOld(c) ==
  /\ at[c] = "clear"
  /\ RemoveLock
  /\ (Goes(c, "wait") /\ UNCHANGED result) \/ Ends(c)
  /\ UNCHANGED <<stamp, log, seen, tx, now>>

GiveUp(c) ==
  /\ at[c] = "wait"
  /\ ~Free
  /\ Ends(c)
  /\ UNCHANGED <<lockVars, stamp, log, seen, tx, now>>

Leave(c) ==
  /\ at[c] = "leave"
  /\ RemoveLock
  /\ IF Reserving(c) /\ seen[c][c].status = "pending"
     THEN Goes(c, "pay") /\ UNCHANGED result
     ELSE Ends(c)
  /\ seen' = [seen EXCEPT ![c] = EmptyLog]
  /\ UNCHANGED <<stamp, log, tx, now>>

-----------------------------------------------------------------------------
(* What a set of calls spends.                                             *)
Spend(S) == MapThenSumSet(LAMBDA c : Amount[c], S)

ForgetsPending(entries) ==  \* mutant: a reservation counts once it is sent
  {c \in Calls \ Exits : entries[c].status \in COUNTED_STATUSES \ {"pending"}}
Counted(entries) ==
  {c \in Calls \ Exits : entries[c].status \in COUNTED_STATUSES}

(* windowFor: the rolling day before the call began.                       *)
Window(entries, time) == {c \in Counted(entries) : entries[c].at > time - DAY}

(* checkSpend.                                                             *)
Allowed(c, entries) ==
  \/ c \in Exits
  \/ /\ Amount[c] <= maxPerPayment
     /\ Spend(Window(entries, stamp[c])) + Amount[c] <= maxPerDay

(* write: a month's entries; over KEEP_MAX, those that no longer count go  *)
(* (the oldest in the code, any here).                                     *)
DropsAny(entries, time) == {}  \* mutant: entries that still count may be dropped
StillCounts(entries, time) ==
  {c \in Calls : /\ entries[c].status \in COUNTED_STATUSES
                 /\ entries[c].at > time - 2 * DAY}

Kept(entries, time) ==
  LET recent == {c \in Calls : entries[c] # NoEntry /\ entries[c].at > time - KEEP}
      mustKeep == StillCounts(entries, time) \cap recent
      most == IF Cardinality(mustKeep) > KEEP_MAX THEN Cardinality(mustKeep) ELSE KEEP_MAX
  IN  IF Cardinality(recent) <= most
      THEN {recent}
      ELSE {K \in SUBSET recent : mustKeep \subseteq K /\ Cardinality(K) = most}

-----------------------------------------------------------------------------
Begin(c) ==
  /\ at[c] = "idle"
  /\ Runs(c)
  /\ stamp' = [stamp EXCEPT ![c] = now]
  /\ Goes(c, "wait")
  /\ UNCHANGED <<lockVars, result, log, seen, tx, now>>

ReadLog(c) ==
  /\ at[c] = "read"
  /\ seen' = [seen EXCEPT ![c] = log]
  /\ Goes(c, "write")
  /\ UNCHANGED <<lockVars, stamp, result, log, tx, now>>

(* reserve decides and adds an entry; settle rewrites its own, if it is    *)
(* still there.  A reservation prunes with the time its call began.        *)
Reserved(c) ==
  [seen[c] EXCEPT ![c] =
     [status |-> IF Allowed(c, seen[c]) THEN "pending" ELSE "refused",
      at |-> stamp[c]]]
Settled(c) ==
  IF seen[c][c] = NoEntry THEN seen[c]
  ELSE [seen[c] EXCEPT ![c].status = result[c]]

WriteLog(c) ==
  LET new == IF Reserving(c) THEN Reserved(c) ELSE Settled(c) IN
  /\ at[c] = "write"
  /\ \E K \in Kept(new, IF Reserving(c) THEN stamp[c] ELSE now) :
       log' = [d \in Calls |-> IF d \in K THEN new[d] ELSE NoEntry]
  /\ seen' = [seen EXCEPT ![c] = new]
  /\ Goes(c, "leave")
  /\ UNCHANGED <<lockVars, stamp, result, tx, now>>

(* What the payment settles as: failed when it was not sent or the relay   *)
(* refused it, sent or reverted by its receipt (a plain transfer is sent   *)
(* once it has a hash), unconfirmed for every doubt.                       *)
DoubtFails(c, outcome) == outcome # "sent"  \* mutant: a send with no answer settles as failed
MaySettleAs(c, outcome) ==
  \/ outcome = "failed" /\ tx[c] \in {"none", "refused"}
  \/ outcome = "sent" /\ tx[c] \in {"out", "reverted"}
  \/ outcome = "reverted" /\ tx[c] = "reverted"
  \/ outcome = "unconfirmed"

Broadcast(c) ==
  /\ at[c] = "pay"
  /\ tx[c] = "none"
  /\ \E answer \in {"out", "refused"} : tx' = [tx EXCEPT ![c] = answer]
  /\ UNCHANGED <<lockVars, at, stamp, result, log, seen, now>>

Settle(c) ==
  /\ at[c] = "pay"
  /\ Runs(c)
  /\ \E outcome \in {"failed", "sent", "reverted", "unconfirmed"} :
       MaySettleAs(c, outcome) /\ result' = [result EXCEPT ![c] = outcome]
  /\ Goes(c, "wait")
  /\ UNCHANGED <<lockVars, stamp, log, seen, tx, now>>

(* A process ends, anywhere: in payments, in the wait or inside the lock.  *)
Die(p) ==
  LET dies == {c \in Calls : Server[c] = p /\ at[c] # "over"} IN
  /\ dies # {}
  /\ at' = [c \in Calls |-> IF c \in dies THEN "over" ELSE at[c]]
  /\ seen' = [c \in Calls |-> IF c \in dies THEN EmptyLog ELSE seen[c]]
  /\ result' = [c \in Calls |-> IF c \in dies THEN "pending" ELSE result[c]]
  /\ UNCHANGED <<lockVars, stamp, log, tx, now>>

-----------------------------------------------------------------------------
(* Ten seconds pass over a lock file whose maker is not inside any more.   *)
Ages ==
  /\ ~Free
  /\ lockFile \notin Inside
  /\ ~old
  /\ old' = TRUE
  /\ UNCHANGED <<lockFile, at, stamp, result, log, seen, tx, now>>

(* A wait for the lock is seconds, a day is long: the clock moves a tick   *)
(* at most between the start of a call and its reservation.                *)
Tick ==
  /\ now < MaxTime
  /\ \A c \in Calls :
       Reserving(c) /\ at[c] \in {"wait", "clear", "read", "write"} => stamp[c] = now
  /\ now' = now + 1
  /\ UNCHANGED <<lockVars, at, stamp, result, log, seen, tx>>

(* A transaction that is out lands, and stays so, or reverts; the proof of *)
(* one that was refused or reverted lands after all, sent again by whoever *)
(* has seen it, or by a first copy.                                        *)
Revert(c) ==
  /\ tx[c] = "out"
  /\ tx' = [tx EXCEPT ![c] = "reverted"]
  /\ UNCHANGED <<lockVars, at, stamp, result, log, seen, now>>

LandsLate(c) ==
  /\ at[c] = "over"
  /\ tx[c] \in {"refused", "reverted"}
  /\ tx' = [tx EXCEPT ![c] = "late"]
  /\ UNCHANGED <<lockVars, at, stamp, result, log, seen, now>>

LockStep(c) ==
  OpenLock(c) \/ FindOld(c) \/ ClearOld(c) \/ GiveUp(c) \/ Leave(c)

Next ==
  \/ \E c \in Calls : Begin(c) \/ LockStep(c) \/ ReadLog(c) \/ WriteLog(c)
  \/ \E c \in Calls : Broadcast(c) \/ Settle(c) \/ Revert(c) \/ LandsLate(c)
  \/ \E p \in Servers : Die(p)
  \/ Ages
  \/ Tick

Spec == Init /\ [][Next]_vars

-----------------------------------------------------------------------------
(* Server processes "take turns" (fileLock.ts:3-4): at most one call is     *)
(* inside the lock, though the lock file outlives a holder that died.      *)
CallsTakeTurns == Cardinality(Inside) <= 1

(* Calls whose money moved or still may, as far as the agent was told:     *)
(* about to pay, or sent and neither refused nor seen to revert.           *)
Moving == {c \in Calls : at[c] = "pay" \/ tx[c] = "out"}

(* "Two calls at once cannot both squeeze under the daily limit"           *)
(* (spendLog.ts:4-6): in every rolling day, what capped calls moved or may *)
(* yet move stays within maxPerDay, over racing calls, lost answers,       *)
(* processes that die and entries that leave the log.  What lands after it *)
(* was refused or reverted comes on top.                                   *)
DailyCapHolds ==
  \A t \in 0..MaxTime :
    Spend({c \in Moving \ Exits : stamp[c] \in (t - DAY + 1)..t}) <= maxPerDay

(* A spend that moved or may yet move keeps an entry that counts for as    *)
(* long as any limit looks back (spendLog.ts:8-9, 71-76), unless the agent *)
(* was told that it was refused or had reverted.                           *)
MovingIsCounted ==
  \A c \in Moving : stamp[c] > now - DAY => log[c].status \in COUNTED_STATUSES
=============================================================================
