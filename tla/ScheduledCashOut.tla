-------------------------- MODULE ScheduledCashOut --------------------------
(***************************************************************************)
(* "Cash out later" for ONE spend (app/src/lib/relay/scheduled.ts, its     *)
(* store and its routes): the requests that schedule jobs for the spend,   *)
(* the cron's runners, the owner who cancels a job or swaps its proof, the *)
(* clock, and the chain the relay sends to.                                *)
(*                                                                         *)
(* Times are what the code compares them with: a flag per deadline, raised *)
(* by the clock.  A runner holds a job's lock (90 s) for longer than its   *)
(* function may live (60 s), so a lock lapses only once its holder died.   *)
(* One Redis command is atomic; it can be lost, or applied and its answer  *)
(* lost.  Such faults and crashes number at most MaxFaults.                *)
(***************************************************************************)
EXTENDS Naturals, FiniteSets

CONSTANTS
  Jobs,        \* one per scheduling request for this spend
  Runners,     \* instances of the cron's function
  NoJob, Elsewhere, NoRunner, Orphan,
  MaxFaults    \* bound on crashes, lost commands and unreadable chains

ASSUME ScheduledAssumption ==
  /\ MaxFaults \in Nat
  /\ {NoJob, Elsewhere} \cap Jobs = {}
  /\ NoJob # Elsewhere
  /\ {NoRunner, Orphan} \cap Runners = {}
  /\ NoRunner # Orphan

VARIABLES
  record,    \* per job, what the store keeps
  queued,    \* the due queue's members
  pointer,   \* the job named for the spend
  lock,      \* per job, who holds its lock
  run,       \* per runner, where it is and what it read
  request,   \* per job, its scheduling request
  due, overdue, gasOverdue,  \* sendAfter, the give-up and GAS_WAIT_MAX_MS passed
  pending,   \* jobs with a copy at the node that may land or be dropped
  spentBy,   \* whose copy spent the note
  rootKnown, \* jobs whose proof's root the vault knows
  faults

storeVars == <<record, queued, pointer>>
timeVars == <<due, overdue, gasOverdue>>
chainVars == <<pending, spentBy, rootKnown>>
vars == <<storeVars, lock, run, request, timeVars, chainVars, faults>>

JobStatus == {"none", "scheduled", "sending", "sent", "expired", "spent",
              "failed", "cancelled"}
IsLive(status) == status \in {"scheduled", "sending"}

(* tried: attempts > 0.  held: notBefore lies ahead.  fresh: marked        *)
(* "sending" less than SENDING_STALE_MS ago (read of a sending job only).  *)
CashOutJob == [status : JobStatus, tried : BOOLEAN, maybeSent : BOOLEAN,
               hash : BOOLEAN, held : BOOLEAN, fresh : BOOLEAN]
NewJob == [status |-> "scheduled", tried |-> FALSE, maybeSent |-> FALSE,
           hash |-> FALSE, held |-> FALSE, fresh |-> FALSE]
NoRecord == [NewJob EXCEPT !.status = "none"]

Idle == [at |-> "idle"]
RunAt == [at : {"read"}, job : Jobs]
         \cup [at : {"chain", "gas", "mark", "send"}, job : Jobs,
               seen : CashOutJob]
         \cup [at : {"settle"}, job : Jobs, result : CashOutJob,
               gasHeld : BOOLEAN]

TypeOK ==
  /\ record \in [Jobs -> CashOutJob]
  /\ queued \subseteq Jobs
  /\ pointer \in Jobs \cup {NoJob}
  /\ lock \in [Jobs -> Runners \cup {NoRunner, Orphan}]
  /\ run \in [Runners -> RunAt \cup {Idle}]
  /\ \A r \in Runners : run[r] # Idle => lock[run[r].job] = r
  /\ request \in [Jobs -> [at : {"idle", "create", "other", "over"},
                           replace : Jobs \cup {NoJob}, tries : 0..2]]
  /\ due \subseteq Jobs
  /\ overdue \subseteq due
  /\ gasOverdue \subseteq due
  /\ pending \subseteq Jobs
  /\ spentBy \in Jobs \cup {NoJob, Elsewhere}
  /\ rootKnown \subseteq Jobs
  /\ faults \in 0..MaxFaults

Init ==
  /\ record = [j \in Jobs |-> NoRecord]
  /\ queued = {}
  /\ pointer = NoJob
  /\ lock = [j \in Jobs |-> NoRunner]
  /\ run = [r \in Runners |-> Idle]
  /\ request = [j \in Jobs |-> [at |-> "idle", replace |-> NoJob, tries |-> 0]]
  /\ due = {} /\ overdue = {} /\ gasOverdue = {}
  /\ pending = {}
  /\ spentBy = NoJob
  /\ rootKnown = Jobs
  /\ faults = 0

Status(j) == record[j].status
LiveJobs == {j \in Jobs : IsLive(Status(j))}
MayBeOut(job) == job.status = "sending" \/ job.maybeSent
Spent == spentBy # NoJob

Fault == faults < MaxFaults /\ faults' = faults + 1

-----------------------------------------------------------------------------
(* The store's put is a SET, then the queue and the pointer.  A fault      *)
(* loses all of it, or what follows the SET.                               *)
PutRecord(j, job) == record' = [record EXCEPT ![j] = job]

Put(j, job) ==
  /\ PutRecord(j, job)
  /\ queued' = IF IsLive(job.status) THEN queued \cup {j} ELSE queued \ {j}
  /\ pointer' = IF IsLive(job.status) THEN j ELSE pointer

PutFails(j, job) ==
  /\ Fault
  /\ UNCHANGED record \/ PutRecord(j, job)
  /\ UNCHANGED <<queued, pointer>>

(* A release that does not reach Redis leaves the lock to lapse (not       *)
(* counted as a fault, but none without faults).                           *)
Release(r, j) ==
  /\ \/ lock' = [lock EXCEPT ![j] = NoRunner]
     \/ MaxFaults > 0 /\ lock' = [lock EXCEPT ![j] = Orphan]
  /\ run' = [run EXCEPT ![r] = Idle]

-----------------------------------------------------------------------------
(* POST /api/relay/scheduled: the dry run passes now and no live job is    *)
(* named for the spend; then scheduleJob's two tries.                      *)
Ask(j) ==
  /\ request[j].at = "idle"
  /\ ~Spent
  /\ j \in rootKnown
  /\ request' = [request EXCEPT ![j].at =
                   IF pointer \in LiveJobs THEN "over" ELSE "create"]
  /\ UNCHANGED <<storeVars, lock, run, timeVars, chainVars, faults>>

AnyPointer(j) == TRUE  \* mutant: create does not look at the pointer
MayTakePointer(j) == pointer \in {NoJob, j, request[j].replace}

Create(j) ==
  /\ request[j].at = "create"
  /\ IF MayTakePointer(j)
     THEN /\ Put(j, NewJob)
          /\ request' = [request EXCEPT ![j].at = "over"]
     ELSE /\ request' = [request EXCEPT ![j].at = "other", ![j].replace = pointer]
          /\ UNCHANGED storeVars
  /\ UNCHANGED <<lock, run, timeVars, chainVars, faults>>

OtherJob(j) ==
  LET tries == request[j].tries + 1 IN
  /\ request[j].at = "other"
  /\ request' = [request EXCEPT
       ![j].tries = tries,
       ![j].at = IF request[j].replace \in LiveJobs \/ tries = 2
                 THEN "over" ELSE "create"]
  /\ UNCHANGED <<storeVars, lock, run, timeVars, chainVars, faults>>

AnyLock(j) == TRUE  \* mutant: a run takes a job another run has
LockFree(j) == lock[j] = NoRunner

(* What a person may still change: a job no run has reached the send of.   *)
Untouched(job) == job.status = "scheduled" /\ ~job.tried /\ ~job.maybeSent

(* get and put happen under the job's lock; a request that dies in between *)
(* leaves the lock to lapse.                                               *)
CancelJob(j) ==
  LET over == [record[j] EXCEPT !.status = "cancelled"] IN
  /\ LockFree(j)
  /\ Untouched(record[j])
  /\ \/ Put(j, over) /\ UNCHANGED <<lock, faults>>
     \/ PutFails(j, over) /\ lock' \in {lock, [lock EXCEPT ![j] = Orphan]}
  /\ UNCHANGED <<run, request, timeVars, chainVars>>

(* Only while the send time is a minute away, and to a proof that passed   *)
(* the same dry run as scheduling.                                         *)
ReplaceJobProof(j) ==
  /\ LockFree(j)
  /\ Untouched(record[j])
  /\ j \notin due
  /\ ~Spent
  /\ rootKnown' = rootKnown \cup {j}
  /\ UNCHANGED <<storeVars, lock, run, request, timeVars, pending, spentBy,
                 faults>>

-----------------------------------------------------------------------------
(* runDueJobs                                                              *)
Take(r, j) ==
  /\ run[r] = Idle
  /\ j \in queued \cap due
  /\ LockFree(j)
  /\ lock' = [lock EXCEPT ![j] = r]
  /\ run' = [run EXCEPT ![r] = [at |-> "read", job |-> j]]
  /\ UNCHANGED <<storeVars, request, timeVars, chainVars, faults>>

(* One that is over leaves the queue; a live one that is held or freshly   *)
(* marked is left alone.                                                   *)
ForgetsHeld(job) == job.held  \* mutant: a job waiting for gas is forgotten
MustForget(job) == ~IsLive(job.status)

NeverStale(job) == job.status = "scheduled" /\ ~job.held  \* mutant: "sending" is final
Looks(job) == IF job.status = "scheduled" THEN ~job.held ELSE ~job.fresh

ReadJob(r) ==
  LET j == run[r].job
      job == record[j] IN
  /\ run[r].at = "read"
  /\ \/ /\ MustForget(job)
        /\ queued' = queued \ {j}
        /\ Release(r, j)
     \/ /\ ~MustForget(job)
        /\ ~Looks(job)
        /\ Release(r, j)
        /\ UNCHANGED queued
     \/ /\ ~MustForget(job)
        /\ Looks(job)
        /\ run' = [run EXCEPT ![r] = [at |-> "chain", job |-> j, seen |-> job]]
        /\ UNCHANGED <<queued, lock>>
  /\ UNCHANGED <<record, pointer, request, timeVars, chainVars, faults>>

(* Every path ends in one put; what it writes is decided first.            *)
SettleAs(r, job, gasHeld) ==
  run' = [run EXCEPT ![r] =
            [at |-> "settle", job |-> run[r].job, gasHeld |-> gasHeld,
             result |-> [job EXCEPT !.fresh = job.status = "sending"]]]
Settle(r, job) == SettleAs(r, job, FALSE)

ForgetsCrash(job) == job.maybeSent  \* mutant: a stale "sending" job counts as unsent
CountsAsOut(job) == MayBeOut(job)

StillSending(job) == [job EXCEPT !.status = "sending", !.maybeSent = TRUE]
Ended(job, status) == [job EXCEPT !.status = status]

(* A passing problem: again later (dated jobs are held a few minutes), or  *)
(* given up when long overdue.                                             *)
NeverOverdue(j) == FALSE  \* mutant: a passing problem is tried for ever
LongOverdue(j) == j \in overdue

PassingProblem(r, job) ==
  IF LongOverdue(run[r].job)
  THEN Settle(r, Ended(job, "failed"))
  ELSE \E held \in BOOLEAN :
         Settle(r, [job EXCEPT !.status = "scheduled", !.held = held])

(* gasHeldAt: the give-up starts again from the end of a wait for gas.     *)
WaitForGas(r, job) ==
  IF run[r].job \in gasOverdue
  THEN Settle(r, Ended(job, "failed"))
  ELSE SettleAs(r, [job EXCEPT !.status = "scheduled", !.held = TRUE], TRUE)

(* readChain: spent and knownRoot at one block.                            *)
ReadChain(r) ==
  LET j == run[r].job
      job == run[r].seen IN
  /\ run[r].at = "chain"
  /\ \/ /\ Fault
        /\ IF CountsAsOut(job)
           THEN Settle(r, StillSending(job))
           ELSE PassingProblem(r, job)
     \/ /\ Spent
        /\ Settle(r, Ended(job, IF job.hash \/ CountsAsOut(job) THEN "sent" ELSE "spent"))
        /\ UNCHANGED faults
     \/ /\ ~Spent /\ j \notin rootKnown
        /\ Settle(r, Ended(job, "expired"))
        /\ UNCHANGED faults
     \/ /\ ~Spent /\ j \in rootKnown
        /\ run' = [run EXCEPT ![r].at = "gas"]
        /\ UNCHANGED faults
  /\ UNCHANGED <<storeVars, lock, request, timeVars, chainVars>>

GasCheck(r) ==
  LET job == run[r].seen IN
  /\ run[r].at = "gas"
  /\ \/ run' = [run EXCEPT ![r].at = "mark"]
     \/ CountsAsOut(job) /\ Settle(r, StillSending(job))
     \/ ~CountsAsOut(job) /\ WaitForGas(r, job)
  /\ UNCHANGED <<storeVars, lock, request, timeVars, chainVars, faults>>

Marked(job) ==
  [job EXCEPT !.status = "sending", !.tried = TRUE, !.fresh = TRUE,
              !.held = FALSE]

(* Marked before the send; a put that fails ends the run.                  *)
MarkSending(r) ==
  LET j == run[r].job
      job == run[r].seen IN
  /\ run[r].at = "mark"
  /\ \/ /\ Put(j, Marked(job))
        /\ run' = [run EXCEPT ![r].at = "send"]
        /\ UNCHANGED <<lock, faults>>
     \/ PutFails(j, Marked(job)) /\ Release(r, j)
  /\ UNCHANGED <<request, timeVars, chainVars>>

(* sendUnshieldNow: its own checks pass before a copy reaches the node.    *)
ReachesNode(j) == ~Spent /\ j \in rootKnown /\ pending' = pending \cup {j}

Send(r) ==
  LET j == run[r].job
      job == run[r].seen
      sending == Marked(job) IN
  /\ run[r].at = "send"
  /\ \/ /\ ReachesNode(j)                       \* a hash
        /\ Settle(r, [sending EXCEPT !.status = "sent", !.hash = TRUE])
     \/ /\ ReachesNode(j) \/ UNCHANGED pending  \* maybe_sent, rpc, in_flight
        /\ Settle(r, StillSending(sending))
     \/ /\ UNCHANGED pending
        /\ \/ /\ Spent                            \* AlreadySpent
              /\ Settle(r, Ended(sending, IF CountsAsOut(job) THEN "sent" ELSE "spent"))
           \/ /\ CountsAsOut(job)                 \* a refusal of a later try
              /\ Settle(r, StillSending(sending))
           \/ /\ ~CountsAsOut(job)
              /\ \/ /\ j \notin rootKnown         \* UnknownRoot
                    /\ Settle(r, Ended(sending, "expired"))
                 \/ Settle(r, Ended(sending, "failed")) \* screened, InvalidProof
                 \/ PassingProblem(r, sending)    \* busy, relay_empty, ...
                 \/ WaitForGas(r, job)            \* gas_high: no try counted
  /\ UNCHANGED <<storeVars, lock, request, timeVars, spentBy, rootKnown, faults>>

PutResult(r) ==
  LET j == run[r].job IN
  /\ run[r].at = "settle"
  /\ \/ Put(j, run[r].result) /\ UNCHANGED faults
     \/ PutFails(j, run[r].result)
  /\ overdue' = IF run[r].gasHeld /\ record'[j] = run[r].result
                THEN overdue \ {j} ELSE overdue
  /\ Release(r, j)
  /\ UNCHANGED <<request, due, gasOverdue, chainVars>>

(* The function dies, perhaps with its send already at the node.           *)
Crash(r) ==
  /\ run[r] # Idle
  /\ Fault
  /\ \/ UNCHANGED pending
     \/ run[r].at = "send" /\ ReachesNode(run[r].job)
  /\ lock' = [lock EXCEPT ![run[r].job] = Orphan]
  /\ run' = [run EXCEPT ![r] = Idle]
  /\ UNCHANGED <<storeVars, request, timeVars, spentBy, rootKnown>>

-----------------------------------------------------------------------------
(* The clock.                                                              *)
LockLapses(j) ==
  /\ lock[j] = Orphan
  /\ lock' = [lock EXCEPT ![j] = NoRunner]
  /\ UNCHANGED <<storeVars, run, request, timeVars, chainVars, faults>>

ComesDue(j) ==
  /\ record[j] # NoRecord
  /\ j \notin due
  /\ due' = due \cup {j}
  /\ UNCHANGED <<storeVars, lock, run, request, overdue, gasOverdue, chainVars,
                 faults>>

ComesOverdue(j) ==
  /\ j \in (LiveJobs \cap due) \ overdue
  /\ overdue' = overdue \cup {j}
  /\ UNCHANGED <<storeVars, lock, run, request, due, gasOverdue, chainVars,
                 faults>>

ComesGasOverdue(j) ==
  /\ j \in (LiveJobs \cap due) \ gasOverdue
  /\ gasOverdue' = gasOverdue \cup {j}
  /\ UNCHANGED <<storeVars, lock, run, request, due, overdue, chainVars, faults>>

HoldEnds(j) ==
  /\ j \in LiveJobs
  /\ record[j].held
  /\ record' = [record EXCEPT ![j].held = FALSE]
  /\ UNCHANGED <<queued, pointer, lock, run, request, timeVars, chainVars, faults>>

GoesStale(j) ==
  /\ j \in LiveJobs
  /\ record[j].fresh
  /\ record' = [record EXCEPT ![j].fresh = FALSE]
  /\ UNCHANGED <<queued, pointer, lock, run, request, timeVars, chainVars, faults>>

Clock(j) ==
  \/ LockLapses(j) \/ ComesDue(j) \/ ComesOverdue(j)
  \/ ComesGasOverdue(j) \/ HoldEnds(j) \/ GoesStale(j)

(* The chain.                                                              *)
Land(j) ==
  /\ j \in pending \cap rootKnown
  /\ ~Spent
  /\ spentBy' = j
  /\ pending' = pending \ {j}
  /\ UNCHANGED <<storeVars, lock, run, request, timeVars, rootKnown, faults>>

Drop(j) ==
  /\ j \in pending
  /\ pending' = pending \ {j}
  /\ UNCHANGED <<storeVars, lock, run, request, timeVars, spentBy, rootKnown,
                 faults>>

SpendElsewhere ==
  /\ ~Spent
  /\ spentBy' = Elsewhere
  /\ UNCHANGED <<storeVars, lock, run, request, timeVars, pending, rootKnown,
                 faults>>

(* A reorganisation takes the block with the proof's root away for good.   *)
RootLost(j) ==
  /\ Fault
  /\ ~Spent
  /\ rootKnown' = rootKnown \ {j}
  /\ UNCHANGED <<storeVars, lock, run, request, timeVars, pending, spentBy>>

RunStep(r) ==
  \/ ReadJob(r) \/ ReadChain(r) \/ GasCheck(r) \/ MarkSending(r)
  \/ Send(r) \/ PutResult(r)

Next ==
  \/ \E j \in Jobs : Ask(j) \/ Create(j) \/ OtherJob(j)
  \/ \E j \in Jobs : CancelJob(j) \/ ReplaceJobProof(j)
  \/ \E r \in Runners, j \in Jobs : Take(r, j)
  \/ \E r \in Runners : RunStep(r) \/ Crash(r)
  \/ \E j \in Jobs : Clock(j) \/ Land(j) \/ Drop(j) \/ RootLost(j)
  \/ SpendElsewhere

(* The cron comes every minute, a live function runs on, and time passes.  *)
Fairness ==
  /\ \A j \in Jobs : WF_vars(\E r \in Runners : Take(r, j))
  /\ \A r \in Runners : WF_vars(RunStep(r))
  /\ \A j \in Jobs :
       /\ WF_vars(LockLapses(j)) /\ WF_vars(ComesDue(j))
       /\ WF_vars(ComesOverdue(j)) /\ WF_vars(ComesGasOverdue(j))
       /\ WF_vars(HoldEnds(j)) /\ WF_vars(GoesStale(j))

Spec == Init /\ [][Next]_vars
FairSpec == Spec /\ Fairness

-----------------------------------------------------------------------------
CanStillLand(j) == j \in pending \cap rootKnown /\ ~Spent

(* A job is "never cancelled, failed or said to be unsent on a guess"      *)
(* (scheduled.ts:32-37): while a copy of its proof can still land, a run   *)
(* is about to hand one to the node, or one has landed, the job says       *)
(* sending or sent, through crashes at any step and lost store commands.   *)
NeverUnsentOnAGuess ==
  \A j \in Jobs :
    \/ CanStillLand(j)
    \/ spentBy = j
    \/ \E r \in Runners : run[r] # Idle /\ run[r].at = "send" /\ run[r].job = j
    => Status(j) \in {"sending", "sent"}

(* A spend has at most one live job, and the spend's pointer names it, for *)
(* any interleaving of requests, runs, cancels and half done puts          *)
(* (scheduled.ts:655-674).                                                 *)
OneLiveJobPerSpend ==
  /\ Cardinality(LiveJobs) <= 1
  /\ LiveJobs \subseteq {pointer}

(* A live job is always in the due queue, so no crash, half done put or    *)
(* forget loses a cash out a person is waiting for (scheduledStore.ts:115).*)
LiveJobIsQueued == LiveJobs \subseteq queued

(* A job never goes back from being over, and one that may be out never    *)
(* goes back to waiting, where it could be cancelled or failed             *)
(* (scheduled.ts:32-37, 511-515).                                          *)
NoWayBack ==
  [][\A j \in Jobs :
       /\ Status(j) # "none" /\ j \notin LiveJobs => record'[j] = record[j]
       /\ record[j].maybeSent => Status(j)' # "scheduled"]_vars

(* A job that comes due ends, unless one of its sends may be out: refusals,*)
(* dear gas, an unreadable chain and crashes only delay it, up to its      *)
(* give-up time (scheduled.ts:484-516, 527-555).                           *)
DueJobEnds ==
  \A j \in Jobs :
    j \in due ~> (j \notin LiveJobs \/ record[j].maybeSent)

(* A send that landed is recorded, whatever was lost on the way: the job   *)
(* says sent in the end (scheduled.ts:478-479, 489).                       *)
LandedIsRecorded ==
  \A j \in Jobs : spentBy = j ~> Status(j) = "sent"
=============================================================================
