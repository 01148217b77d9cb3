----------------------- MODULE ScheduledCashOutProofs -----------------------
(***************************************************************************)
(* Cash outs scheduled for one spend, proved for any number of requests,   *)
(* runners and faults.  The invariant says what a runner may rely on       *)
(* between two of its steps: the job it is at is live and is the one it    *)
(* read, what it is about to write fits what the chain may hold, and a job *)
(* nobody marked as out has nothing at the node.                           *)
(***************************************************************************)
EXTENDS ScheduledCashOut, FiniteSetTheorems, TLAPS

Made == {j \in Jobs : Status(j) # "none"}

(* Equal but for the two times of a record.                                *)
Alike(a, b) ==
  /\ a.status = b.status /\ a.tried = b.tried
  /\ a.maybeSent = b.maybeSent /\ a.hash = b.hash

(* What may be written for a job, seen the chain.                          *)
Fits(j, job) ==
  /\ spentBy = j => job.status \in {"sending", "sent"}
  /\ j \in pending => \/ job.status \in {"sending", "sent"}
                      \/ job.status = "expired" /\ j \notin rootKnown

NotScheduledIfOut(job) == job.maybeSent => job.status # "scheduled"

AskedOnce(j) ==
  /\ request[j].at # "over" => record[j] = NoRecord /\ request[j].tries < 2
  /\ request[j].replace \in Made \cup {NoJob}
  /\ request[j].at = "create" => request[j].replace \notin LiveJobs
RecordFits(j) == Fits(j, record[j]) /\ NotScheduledIfOut(record[j])

(* About to send what it marked, and alone with it if nothing was out.     *)
AtSend(j, seen) ==
  /\ Alike(Marked(seen), record[j])
  /\ IsLive(seen.status)
  /\ NotScheduledIfOut(seen)
  /\ ~MayBeOut(seen) => j \notin pending /\ spentBy # j

AtSettle(j, result) ==
  /\ result.status # "none"
  /\ Fits(j, result)
  /\ NotScheduledIfOut(result)
  /\ result.status = "scheduled" => ~record[j].maybeSent

Works(r) ==
  LET w == run[r] IN
  /\ w.at = "read" => w.job \in Made
  /\ w.at \in {"chain", "gas", "mark", "send", "settle"} => w.job \in LiveJobs
  /\ w.at \in {"chain", "gas", "mark"} => Alike(w.seen, record[w.job])
  /\ w.at = "send" => AtSend(w.job, w.seen)
  /\ w.at = "settle" => AtSettle(w.job, w.result)

StoreFits ==
  /\ queued \subseteq Made
  /\ pointer \in Made \cup {NoJob}
  /\ LiveJobs \subseteq {pointer}
  /\ LiveJobIsQueued

IInv ==
  /\ TypeOK
  /\ StoreFits
  /\ \A j \in Jobs : AskedOnce(j)
  /\ \A j \in Jobs : RecordFits(j)
  /\ \A r \in Runners : Works(r)

-----------------------------------------------------------------------------
(* The records.                                                            *)
LEMMA RunShape ==
  ASSUME NEW w \in RunAt \cup {Idle}
  PROVE  /\ w = Idle <=> w.at = "idle"
         /\ w # Idle => w \in RunAt /\ w.job \in Jobs
         /\ w # Idle => w.at \in {"read", "chain", "gas", "mark", "send", "settle"}
         /\ w.at \in {"chain", "gas", "mark", "send"} => w.seen \in CashOutJob
         /\ w.at = "settle" => w.result \in CashOutJob /\ w.gasHeld \in BOOLEAN
BY DEF RunAt, Idle

LEMMA Ahead ==
  ASSUME NEW w \in RunAt, w.at \in {"chain", "gas", "mark", "send"},
         NEW p \in {"chain", "gas", "mark", "send"}
  PROVE  LET v == [w EXCEPT !.at = p] IN
         /\ v \in RunAt /\ v.at = p /\ v.job = w.job /\ v.seen = w.seen
BY DEF RunAt

LEMMA AsRead ==
  ASSUME NEW j \in Jobs, NEW job \in CashOutJob
  PROVE  /\ [at |-> "read", job |-> j] \in RunAt
         /\ [at |-> "chain", job |-> j, seen |-> job] \in RunAt
BY DEF RunAt

LEMMA AsSettle ==
  ASSUME NEW j \in Jobs, NEW job \in CashOutJob, NEW g \in BOOLEAN
  PROVE  [at |-> "settle", job |-> j, gasHeld |-> g, result |-> job] \in RunAt
BY DEF RunAt

LEMMA NewJobShape ==
  /\ NewJob \in CashOutJob /\ NewJob.status = "scheduled"
  /\ ~NewJob.maybeSent /\ ~NewJob.tried /\ ~NewJob.hash
  /\ NoRecord \in CashOutJob /\ NoRecord.status = "none" /\ ~NoRecord.maybeSent
BY DEF NewJob, NoRecord, CashOutJob, JobStatus

LEMMA EndedShape ==
  ASSUME NEW job \in CashOutJob, NEW s \in JobStatus
  PROVE  /\ Ended(job, s) \in CashOutJob
         /\ Ended(job, s).status = s
         /\ Ended(job, s).maybeSent = job.maybeSent
         /\ Ended(job, s).tried = job.tried
         /\ Ended(job, s).hash = job.hash
BY DEF Ended, CashOutJob

LEMMA StillSendingShape ==
  ASSUME NEW job \in CashOutJob
  PROVE  /\ StillSending(job) \in CashOutJob
         /\ StillSending(job).status = "sending"
         /\ StillSending(job).maybeSent
BY DEF StillSending, CashOutJob, JobStatus

LEMMA MarkedShape ==
  ASSUME NEW job \in CashOutJob
  PROVE  /\ Marked(job) \in CashOutJob
         /\ Marked(job).status = "sending"
         /\ Marked(job).tried
         /\ Marked(job).maybeSent = job.maybeSent
         /\ Marked(job).hash = job.hash
BY DEF Marked, CashOutJob, JobStatus

LEMMA HeldShape ==
  ASSUME NEW job \in CashOutJob, NEW h \in BOOLEAN
  PROVE  LET held == [job EXCEPT !.status = "scheduled", !.held = h] IN
         /\ held \in CashOutJob
         /\ held.status = "scheduled"
         /\ held.maybeSent = job.maybeSent
BY DEF CashOutJob, JobStatus

LEMMA SentShape ==
  ASSUME NEW job \in CashOutJob
  PROVE  LET sent == [job EXCEPT !.status = "sent", !.hash = TRUE] IN
         /\ sent \in CashOutJob
         /\ sent.status = "sent"
         /\ sent.maybeSent = job.maybeSent
BY DEF CashOutJob, JobStatus

LEMMA TimesShape ==
  ASSUME NEW job \in CashOutJob, NEW b \in BOOLEAN
  PROVE  /\ [job EXCEPT !.fresh = b] \in CashOutJob
         /\ Alike([job EXCEPT !.fresh = b], job)
         /\ [job EXCEPT !.held = b] \in CashOutJob
         /\ Alike([job EXCEPT !.held = b], job)
BY DEF CashOutJob, Alike

-----------------------------------------------------------------------------
(* Runners and locks: a runner goes on with its job, or leaves it.         *)
RunTyped ==
  /\ lock \in [Jobs -> Runners \cup {NoRunner, Orphan}]
  /\ run \in [Runners -> RunAt \cup {Idle}]
  /\ \A r \in Runners : run[r] # Idle => lock[run[r].job] = r

GoesOn(r, w) ==
  w \in RunAt /\ w.job = run[r].job /\ run' = [run EXCEPT ![r] = w] /\ lock' = lock

Leaves(r) ==
  /\ \E free \in {NoRunner, Orphan} : lock' = [lock EXCEPT ![run[r].job] = free]
  /\ run' = [run EXCEPT ![r] = Idle]

LEMMA GoesOnTyped ==
  ASSUME RunTyped, NEW r \in Runners, run[r] # Idle, NEW w, GoesOn(r, w)
  PROVE  RunTyped'
BY DEF RunTyped, GoesOn

LEMMA LeavesTyped ==
  ASSUME RunTyped, NEW r \in Runners, run[r] # Idle, Leaves(r)
  PROVE  RunTyped'
<1>1. PICK free \in {NoRunner, Orphan} : lock' = [lock EXCEPT ![run[r].job] = free]
  BY DEF Leaves
<1>2. run' = [run EXCEPT ![r] = Idle] /\ run'[r] = Idle
  BY DEF Leaves, RunTyped
<1>3. run[r].job \in Jobs /\ lock[run[r].job] = r
  BY RunShape DEF RunTyped
<1>4. ASSUME NEW s \in Runners, run'[s] # Idle PROVE lock'[run'[s].job] = s
  <2>1. s # r /\ run'[s] = run[s]
    BY <1>2, <1>4 DEF RunTyped
  <2>2. lock[run[s].job] = s /\ run[s].job \in Jobs
    BY <1>4, <2>1, RunShape DEF RunTyped
  <2> QED BY <1>1, <1>3, <2>1, <2>2 DEF RunTyped
<1> QED BY <1>1, <1>2, <1>4 DEF RunTyped

LEMMA TakeTyped ==
  ASSUME RunTyped, NEW r \in Runners, NEW j \in Jobs, Take(r, j)
  PROVE  RunTyped'
<1> DEFINE w == [at |-> "read", job |-> j]
<1>1. /\ run[r] = Idle /\ lock[j] = NoRunner
      /\ lock' = [lock EXCEPT ![j] = r] /\ run' = [run EXCEPT ![r] = w]
  BY DEF Take, LockFree
<1>2. w \in RunAt /\ w.job = j
  BY DEF RunAt
<1>3. ASSUME NEW s \in Runners, run'[s] # Idle PROVE lock'[run'[s].job] = s
  <2>1. CASE s = r
    BY <1>1, <1>2, <2>1 DEF RunTyped
  <2>2. CASE s # r
    <3>1. run'[s] = run[s] /\ lock[run[s].job] = s /\ run[s].job \in Jobs
      BY <1>1, <1>3, <2>2, RunShape DEF RunTyped
    <3>2. run[s].job # j
      BY <1>1, <3>1, ScheduledAssumption
    <3> QED BY <1>1, <3>1, <3>2 DEF RunTyped
  <2> QED BY <2>1, <2>2
<1> HIDE DEF w
<1> QED BY <1>1, <1>2, <1>3 DEF RunTyped

LEMMA FreeTyped ==
  ASSUME RunTyped, NEW j \in Jobs, lock[j] \notin Runners, UNCHANGED run,
         NEW free \in {NoRunner, Orphan},
         lock' \in {lock, [lock EXCEPT ![j] = free]}
  PROVE  RunTyped'
<1>1. ASSUME NEW s \in Runners, run'[s] # Idle PROVE lock'[run'[s].job] = s
  <2>1. lock[run[s].job] = s /\ run[s].job \in Jobs
    BY <1>1, RunShape DEF RunTyped
  <2> QED BY <2>1 DEF RunTyped
<1> QED BY <1>1 DEF RunTyped

-----------------------------------------------------------------------------
(* What a step of a runner writes to its own state.                        *)
LEMMA SettleGoesOn ==
  ASSUME RunTyped, NEW r \in Runners, run[r] # Idle,
         NEW job \in CashOutJob, NEW g \in BOOLEAN, SettleAs(r, job, g), UNCHANGED lock
  PROVE  \E w \in RunAt : /\ GoesOn(r, w)
                          /\ w.at = "settle"
                          /\ Alike(w.result, job)
                          /\ w.gasHeld = g
<1> DEFINE fresh == job.status = "sending"
           result == [job EXCEPT !.fresh = fresh]
           w == [at |-> "settle", job |-> run[r].job, gasHeld |-> g, result |-> result]
<1>1. fresh \in BOOLEAN
  OBVIOUS
<1> HIDE DEF fresh
<1>2. result \in CashOutJob /\ Alike(result, job)
  BY <1>1, TimesShape
<1>3. run[r].job \in Jobs
  BY RunShape DEF RunTyped
<1> HIDE DEF result
<1>4. w \in RunAt /\ w.job = run[r].job /\ w.at = "settle" /\ w.result = result /\ w.gasHeld = g
  BY <1>2, <1>3, AsSettle
<1>5. run' = [run EXCEPT ![r] = w]
  BY DEF SettleAs, result, fresh
<1> HIDE DEF w
<1> QED BY <1>2, <1>4, <1>5 DEF GoesOn

(* A passing problem and dear gas: failed or waiting, marked out or not as *)
(* before.                                                                 *)
Waits(r, job) ==
  \E result \in CashOutJob, g \in BOOLEAN :
    /\ SettleAs(r, result, g)
    /\ result.status \in {"failed", "scheduled"}
    /\ result.maybeSent = job.maybeSent

LEMMA PassingProblemWaits ==
  ASSUME NEW r \in Runners, NEW job \in CashOutJob, PassingProblem(r, job)
  PROVE  Waits(r, job)
<1>1. CASE LongOverdue(run[r].job)
  <2>1. SettleAs(r, Ended(job, "failed"), FALSE)
    BY <1>1 DEF PassingProblem, Settle
  <2>2. "failed" \in JobStatus
    BY DEF JobStatus
  <2> QED BY <2>1, <2>2, EndedShape DEF Waits
<1>2. CASE ~LongOverdue(run[r].job)
  <2> DEFINE waiting(h) == [job EXCEPT !.status = "scheduled", !.held = h]
  <2>1. PICK held \in BOOLEAN : SettleAs(r, waiting(held), FALSE)
    BY <1>2 DEF PassingProblem, Settle
  <2>2. /\ waiting(held) \in CashOutJob
        /\ waiting(held).status = "scheduled"
        /\ waiting(held).maybeSent = job.maybeSent
    BY HeldShape
  <2> HIDE DEF waiting
  <2> QED BY <2>1, <2>2 DEF Waits
<1> QED BY <1>1, <1>2

LEMMA WaitForGasWaits ==
  ASSUME NEW r \in Runners, NEW job \in CashOutJob, WaitForGas(r, job)
  PROVE  Waits(r, job)
<1>1. CASE run[r].job \in gasOverdue
  <2>1. SettleAs(r, Ended(job, "failed"), FALSE)
    BY <1>1 DEF WaitForGas, Settle
  <2>2. "failed" \in JobStatus
    BY DEF JobStatus
  <2> QED BY <2>1, <2>2, EndedShape DEF Waits
<1>2. CASE run[r].job \notin gasOverdue
  <2> DEFINE waiting == [job EXCEPT !.status = "scheduled", !.held = TRUE]
  <2>1. SettleAs(r, waiting, TRUE)
    BY <1>2 DEF WaitForGas
  <2>2. /\ waiting \in CashOutJob
        /\ waiting.status = "scheduled"
        /\ waiting.maybeSent = job.maybeSent
    BY HeldShape
  <2> HIDE DEF waiting
  <2> QED BY <2>1, <2>2 DEF Waits
<1> QED BY <1>1, <1>2

-----------------------------------------------------------------------------
(* What a step of a runner decides, and that it fits the chain as the step *)
(* leaves it.                                                              *)
Decides(r, j) ==
  \E job \in CashOutJob, g \in BOOLEAN : SettleAs(r, job, g) /\ AtSettle(j, job)'

LEMMA WaitsDecides ==
  ASSUME NEW r \in Runners, NEW j \in Jobs, NEW job \in CashOutJob,
         Waits(r, job), ~job.maybeSent, UNCHANGED record, ~record[j].maybeSent,
         j \notin pending', spentBy' # j
  PROVE  Decides(r, j)
<1>1. PICK result \in CashOutJob, g \in BOOLEAN :
        /\ SettleAs(r, result, g)
        /\ result.status \in {"failed", "scheduled"}
        /\ result.maybeSent = job.maybeSent
  BY DEF Waits
<1>2. AtSettle(j, result)'
  BY <1>1 DEF AtSettle, Fits, NotScheduledIfOut
<1> QED BY <1>1, <1>2 DEF Decides

LEMMA EndedDecides ==
  ASSUME NEW r \in Runners, NEW j \in Jobs, NEW job \in CashOutJob,
         NEW s \in JobStatus \ {"none", "scheduled"}, Settle(r, Ended(job, s)),
         \/ s \in {"sending", "sent"}
         \/ s = "expired" /\ j \notin rootKnown' /\ spentBy' # j
         \/ j \notin pending' /\ spentBy' # j
  PROVE  Decides(r, j)
<1>1. Ended(job, s) \in CashOutJob /\ Ended(job, s).status = s
  BY EndedShape
<1>2. AtSettle(j, Ended(job, s))'
  BY <1>1 DEF AtSettle, Fits, NotScheduledIfOut
<1>3. SettleAs(r, Ended(job, s), FALSE)
  BY DEF Settle
<1> QED BY <1>1, <1>2, <1>3 DEF Decides

LEMMA StillSendingDecides ==
  ASSUME NEW r \in Runners, NEW j \in Jobs, NEW job \in CashOutJob,
         Settle(r, StillSending(job))
  PROVE  Decides(r, j)
<1>1. AtSettle(j, StillSending(job))'
  BY StillSendingShape DEF AtSettle, Fits, NotScheduledIfOut
<1>2. SettleAs(r, StillSending(job), FALSE)
  BY DEF Settle
<1> QED BY <1>1, <1>2, StillSendingShape DEF Decides

LEMMA SentDecides ==
  ASSUME NEW r \in Runners, NEW j \in Jobs, NEW job \in CashOutJob,
         Settle(r, [job EXCEPT !.status = "sent", !.hash = TRUE])
  PROVE  Decides(r, j)
<1>1. PICK sent : sent = [job EXCEPT !.status = "sent", !.hash = TRUE]
  OBVIOUS
<1>2. sent \in CashOutJob /\ sent.status = "sent"
  BY <1>1, SentShape
<1>3. AtSettle(j, sent)'
  BY <1>2 DEF AtSettle, Fits, NotScheduledIfOut
<1>4. SettleAs(r, sent, FALSE)
  BY <1>1 DEF Settle
<1> QED BY <1>2, <1>3, <1>4 DEF Decides

(* A live job that nobody counts as out is waiting, with nothing out.      *)
LEMMA WaitingIsClear ==
  ASSUME NEW j \in Jobs, RecordFits(j), j \in LiveJobs,
         NEW seen, Alike(seen, record[j]), ~CountsAsOut(seen)
  PROVE  /\ ~seen.maybeSent /\ ~record[j].maybeSent
         /\ j \notin pending /\ spentBy # j
BY DEF RecordFits, Fits, LiveJobs, IsLive, Status, Alike, CountsAsOut, MayBeOut

LEMMA TypesOfRuns == TypeOK => RunTyped
BY DEF TypeOK, RunTyped

LEMMA AtWork ==
  ASSUME IInv, NEW r \in Runners, run[r].at # "idle"
  PROVE  /\ run[r] # Idle /\ run[r] \in RunAt /\ run[r].job \in Jobs
         /\ RunTyped /\ lock[run[r].job] = r
         /\ Works(r)
         /\ RecordFits(run[r].job) /\ record[run[r].job] \in CashOutJob
         /\ run[r].at \in {"read", "chain", "gas", "mark", "send", "settle"}
         /\ run[r].at \in {"chain", "gas", "mark", "send"} => run[r].seen \in CashOutJob
         /\ run[r].at = "settle" => run[r].result \in CashOutJob /\ run[r].gasHeld \in BOOLEAN
<1>1. run[r] \in RunAt \cup {Idle}
  BY DEF IInv, TypeOK
<1>2. run[r] # Idle /\ run[r].job \in Jobs
  BY <1>1, RunShape
<1> QED BY <1>1, <1>2, RunShape, TypesOfRuns DEF IInv, TypeOK

LEMMA ReadChainGoes ==
  ASSUME IInv, NEW r \in Runners, ReadChain(r), NEW j, j = run[r].job
  PROVE  \/ run' = [run EXCEPT ![r].at = "gas"]
         \/ Decides(r, j)
<1> DEFINE job == run[r].seen
<1>1. /\ j \in Jobs /\ job \in CashOutJob
      /\ RecordFits(j) /\ j \in LiveJobs /\ Alike(job, record[j])
      /\ UNCHANGED <<record, chainVars>>
  BY AtWork DEF ReadChain, Works, storeVars
<1> HIDE DEF job
<1>2. UNCHANGED <<spentBy, pending, rootKnown, record>>
  BY <1>1 DEF chainVars
<1>3. ASSUME IF CountsAsOut(job) THEN Settle(r, StillSending(job))
                                 ELSE PassingProblem(r, job)
      PROVE Decides(r, j)
  <2>1. CASE CountsAsOut(job)
    BY <1>1, <1>3, <2>1, StillSendingDecides
  <2>2. CASE ~CountsAsOut(job)
    <3>1. Waits(r, job)
      BY <1>1, <1>3, <2>2, PassingProblemWaits
    <3>2. ~job.maybeSent /\ ~record[j].maybeSent /\ j \notin pending /\ spentBy # j
      BY <1>1, <2>2, WaitingIsClear
    <3> QED BY <1>1, <1>2, <3>1, <3>2, WaitsDecides
  <2> QED BY <2>1, <2>2
<1>4. ASSUME Settle(r, Ended(job, IF job.hash \/ CountsAsOut(job) THEN "sent" ELSE "spent"))
      PROVE Decides(r, j)
  <2>1. CASE Settle(r, Ended(job, "sent"))
    BY <1>1, <2>1, EndedDecides DEF JobStatus
  <2>2. CASE ~CountsAsOut(job) /\ Settle(r, Ended(job, "spent"))
    <3>1. j \notin pending' /\ spentBy' # j
      BY <1>1, <1>2, <2>2, WaitingIsClear
    <3> QED BY <1>1, <2>2, <3>1, EndedDecides DEF JobStatus
  <2> QED BY <1>4, <2>1, <2>2
<1>5. ASSUME ~Spent, j \notin rootKnown, Settle(r, Ended(job, "expired"))
      PROVE Decides(r, j)
  <2>1. j \notin rootKnown' /\ spentBy' # j
    BY <1>1, <1>2, <1>5, ScheduledAssumption DEF Spent
  <2> QED BY <1>1, <1>5, <2>1, EndedDecides DEF JobStatus
<1> QED BY <1>3, <1>4, <1>5 DEF ReadChain, job

LEMMA GasCheckGoes ==
  ASSUME IInv, NEW r \in Runners, GasCheck(r), NEW j, j = run[r].job
  PROVE  \/ run' = [run EXCEPT ![r].at = "mark"]
         \/ Decides(r, j)
<1> DEFINE job == run[r].seen
<1>1. /\ j \in Jobs /\ job \in CashOutJob
      /\ RecordFits(j) /\ j \in LiveJobs /\ Alike(job, record[j])
      /\ UNCHANGED <<record, chainVars>>
  BY AtWork DEF GasCheck, Works, storeVars
<1> HIDE DEF job
<1>2. UNCHANGED <<spentBy, pending, rootKnown, record>>
  BY <1>1 DEF chainVars
<1>3. ASSUME Settle(r, StillSending(job)) PROVE Decides(r, j)
  BY <1>1, <1>3, StillSendingDecides
<1>4. ASSUME ~CountsAsOut(job), WaitForGas(r, job) PROVE Decides(r, j)
  <2>1. ~job.maybeSent /\ ~record[j].maybeSent /\ j \notin pending /\ spentBy # j
    BY <1>1, <1>4, WaitingIsClear
  <2> QED BY <1>1, <1>2, <1>4, <2>1, WaitForGasWaits, WaitsDecides
<1> QED BY <1>3, <1>4 DEF GasCheck, job

(* Send adds at most its own copy, and only where it can land.             *)
LEMMA SendReaches ==
  ASSUME NEW r \in Runners, Send(r)
  PROVE  \/ UNCHANGED pending
         \/ pending' = pending \cup {run[r].job} /\ ~Spent /\ run[r].job \in rootKnown
BY Zenon DEF Send, ReachesNode

LEMMA SendGoes ==
  ASSUME IInv, NEW r \in Runners, Send(r), NEW j, j = run[r].job
  PROVE  Decides(r, j)
<1> DEFINE job == run[r].seen
           sending == Marked(job)
<1>1. /\ j \in Jobs /\ job \in CashOutJob
      /\ AtSend(j, job) /\ record[j] \in CashOutJob
      /\ UNCHANGED <<record, spentBy, rootKnown>>
  BY AtWork DEF Send, Works, storeVars
<1>2. sending \in CashOutJob
  BY <1>1, MarkedShape
<1>3. ASSUME ~CountsAsOut(job)
      PROVE  /\ ~job.maybeSent /\ ~sending.maybeSent /\ ~record[j].maybeSent
             /\ j \notin pending /\ spentBy # j
  BY <1>1, <1>3, MarkedShape DEF AtSend, Alike, CountsAsOut, MayBeOut
<1> HIDE DEF job, sending
<1>4. ASSUME Settle(r, [sending EXCEPT !.status = "sent", !.hash = TRUE])
      PROVE Decides(r, j)
  BY <1>1, <1>2, <1>4, SentDecides
<1>5. ASSUME Settle(r, StillSending(sending)) PROVE Decides(r, j)
  BY <1>1, <1>2, <1>5, StillSendingDecides
<1>6. ASSUME UNCHANGED pending,
             Settle(r, Ended(sending, IF CountsAsOut(job) THEN "sent" ELSE "spent"))
      PROVE Decides(r, j)
  <2>1. CASE Settle(r, Ended(sending, "sent"))
    BY <1>1, <1>2, <2>1, EndedDecides DEF JobStatus
  <2>2. CASE ~CountsAsOut(job) /\ Settle(r, Ended(sending, "spent"))
    BY <1>1, <1>2, <1>3, <1>6, <2>2, EndedDecides DEF JobStatus
  <2> QED BY <1>6, <2>1, <2>2
<1>7. ASSUME UNCHANGED pending, ~CountsAsOut(job),
             \/ Settle(r, Ended(sending, "expired"))
             \/ Settle(r, Ended(sending, "failed"))
      PROVE Decides(r, j)
  BY <1>1, <1>2, <1>3, <1>7, EndedDecides DEF JobStatus
<1>8. ASSUME UNCHANGED pending, ~CountsAsOut(job), PassingProblem(r, sending)
      PROVE Decides(r, j)
  <2>1. Waits(r, sending)
    BY <1>2, <1>8, PassingProblemWaits
  <2> QED BY <1>1, <1>2, <1>3, <1>8, <2>1, WaitsDecides
<1>9. ASSUME UNCHANGED pending, ~CountsAsOut(job), WaitForGas(r, job)
      PROVE Decides(r, j)
  <2>1. Waits(r, job)
    BY <1>1, <1>9, WaitForGasWaits
  <2> QED BY <1>1, <1>3, <1>9, <2>1, WaitsDecides
<1> QED
  BY <1>4, <1>5, <1>6, <1>7, <1>8, <1>9, Zenon DEF Send, job, sending

-----------------------------------------------------------------------------
(* What the invariant keeps of a job a step does not bring nearer to the   *)
(* chain, and whose record it leaves alike.                                *)
NoCloser(j) ==
  /\ j \in pending' => j \in pending
  /\ spentBy' = j => spentBy = j \/ j \in pending \cap rootKnown
  /\ j \in rootKnown' => j \in rootKnown

Untold(j) == Alike(record'[j], record[j]) /\ NoCloser(j)

LEMMA RecordKept ==
  ASSUME NEW j \in Jobs, RecordFits(j), Untold(j)
  PROVE  RecordFits(j)'
BY DEF RecordFits, Fits, NotScheduledIfOut, Untold, Alike, NoCloser

LEMMA WorkKept ==
  ASSUME IInv, NEW s \in Runners, run'[s] = run[s],
         run[s] # Idle => Untold(run[s].job)
  PROVE  Works(s)'
<1>1. CASE run[s] = Idle
  BY <1>1 DEF Works, Idle
<1>2. CASE run[s] # Idle
  <2> DEFINE w == run[s]
  <2>1. /\ w \in RunAt /\ w.job \in Jobs /\ Works(s)
        /\ w.at \in {"read", "chain", "gas", "mark", "send", "settle"}
    BY <1>2, AtWork, RunShape DEF IInv, TypeOK
  <2>2. Alike(record'[w.job], record[w.job]) /\ NoCloser(w.job)
    BY <1>2 DEF Untold
  <2>3. w.job \in LiveJobs => w.job \in LiveJobs'
    BY <2>1, <2>2 DEF LiveJobs, Status, Alike
  <2>4. w.job \in Made => w.job \in Made'
    BY <2>1, <2>2 DEF Made, Status, Alike
  <2>5. w.at = "send" => AtSend(w.job, w.seen)'
    BY <2>1, <2>2 DEF Works, AtSend, Alike, NoCloser
  <2>6. w.at = "settle" => AtSettle(w.job, w.result)'
    BY <2>1, <2>2 DEF Works, AtSettle, Fits, NotScheduledIfOut, Alike, NoCloser
  <2>7. w.at \in {"chain", "gas", "mark"} => Alike(w.seen, record'[w.job])
    BY <2>1, <2>2 DEF Works, Alike
  <2> QED BY <2>1, <2>3, <2>4, <2>5, <2>6, <2>7 DEF Works
<1> QED BY <1>1, <1>2

LEMMA StoreKept ==
  ASSUME IInv, \A j \in Jobs : Alike(record'[j], record[j]),
         \A j \in Jobs : record[j] = NoRecord => record'[j] = NoRecord,
         UNCHANGED <<pointer, request>>,
         queued' \subseteq queued, queued \cap LiveJobs \subseteq queued'
  PROVE  StoreFits' /\ \A j \in Jobs : AskedOnce(j)'
<1>1. LiveJobs' = LiveJobs /\ Made' = Made
  BY DEF LiveJobs, Made, Status, Alike
<1>2. StoreFits'
  BY <1>1 DEF IInv, StoreFits, LiveJobIsQueued
<1>3. ASSUME NEW j \in Jobs PROVE AskedOnce(j)'
  BY <1>1 DEF IInv, AskedOnce
<1> QED BY <1>2, <1>3

(* A runner that has decided is at work.                                   *)
OthersStay(r) == \A s \in Runners \ {r} : run'[s] = run[s]

LEMMA DecidedWorks ==
  ASSUME IInv, NEW r \in Runners, run[r].at \in {"chain", "gas", "send"},
         NEW j, j = run[r].job, Decides(r, j), UNCHANGED <<record, lock>>
  PROVE  RunTyped' /\ OthersStay(r) /\ Works(r)'
<1>1. PICK job \in CashOutJob, g \in BOOLEAN : SettleAs(r, job, g) /\ AtSettle(j, job)'
  BY DEF Decides
<1>2. /\ run[r] # Idle /\ RunTyped /\ Works(r)
      /\ j \in Jobs /\ j \in LiveJobs
  BY AtWork DEF Works
<1>3. PICK w \in RunAt : /\ GoesOn(r, w)
                         /\ w.at = "settle"
                         /\ Alike(w.result, job)
                         /\ w.gasHeld = g
  BY <1>1, <1>2, SettleGoesOn
<1>4. RunTyped'
  BY <1>2, <1>3, GoesOnTyped
<1>5. run'[r] = w /\ OthersStay(r) /\ w.job = j
  BY <1>2, <1>3 DEF GoesOn, RunTyped, OthersStay
<1>6. AtSettle(j, w.result)'
  BY <1>1, <1>3 DEF AtSettle, Fits, NotScheduledIfOut, Alike
<1>7. j \in LiveJobs'
  BY <1>2 DEF LiveJobs, Status
<1> QED BY <1>3, <1>4, <1>5, <1>6, <1>7 DEF Works

LEMMA AheadWorks ==
  ASSUME IInv, NEW r \in Runners, UNCHANGED <<record, lock>>,
         \/ run[r].at = "chain" /\ run' = [run EXCEPT ![r].at = "gas"]
         \/ run[r].at = "gas" /\ run' = [run EXCEPT ![r].at = "mark"]
  PROVE  RunTyped' /\ OthersStay(r) /\ Works(r)'
<1>1. /\ run[r] # Idle /\ run[r] \in RunAt /\ RunTyped /\ Works(r)
      /\ run[r].job \in LiveJobs
  BY AtWork DEF Works
<1>2. PICK p \in {"gas", "mark"} : run' = [run EXCEPT ![r].at = p]
  OBVIOUS
<1>3. PICK w : w = [run[r] EXCEPT !.at = p]
  OBVIOUS
<1>4. w \in RunAt /\ w.at = p /\ w.job = run[r].job /\ w.seen = run[r].seen
  <2>1. run[r].at \in {"chain", "gas", "mark", "send"}
    OBVIOUS
  <2>2. p \in {"chain", "gas", "mark", "send"}
    BY <1>2
  <2> QED BY <1>1, <1>3, <2>1, <2>2, Ahead
<1>5. run' = [run EXCEPT ![r] = w]
  <2>1. run' = [run EXCEPT ![r] = [run[r] EXCEPT !.at = p]]
    BY <1>1, <1>2 DEF RunTyped
  <2> QED BY <1>3, <2>1
<1>6. run'[r] = w /\ OthersStay(r)
  BY <1>1, <1>5 DEF RunTyped, OthersStay
<1>7. RunTyped'
  BY <1>1, <1>4, <1>5, GoesOnTyped DEF GoesOn
<1>8. run[r].job \in LiveJobs'
  BY <1>1 DEF LiveJobs, Status
<1> QED BY <1>1, <1>4, <1>6, <1>7, <1>8 DEF Works, Alike

LEMMA LeftWorks ==
  ASSUME IInv, NEW r \in Runners, run[r] # Idle, Leaves(r)
  PROVE  RunTyped' /\ OthersStay(r) /\ Works(r)'
<1>1. RunTyped'
  BY TypesOfRuns, LeavesTyped DEF IInv
<1>2. run'[r] = Idle /\ OthersStay(r)
  BY DEF IInv, TypeOK, Leaves, OthersStay
<1> QED BY <1>1, <1>2 DEF Works, Idle

(* Who works on a job no other works on, as its lock says.                 *)
LEMMA OneRunner ==
  ASSUME TypeOK, NEW r \in Runners, run[r] # Idle,
         NEW s \in Runners \ {r}, run[s] # Idle
  PROVE  run[s].job # run[r].job
BY DEF TypeOK

LEMMA LockFreeNoRunner ==
  ASSUME TypeOK, NEW j \in Jobs, lock[j] \notin Runners,
         NEW s \in Runners, run[s] # Idle
  PROVE  run[s].job # j
BY DEF TypeOK

-----------------------------------------------------------------------------
(* Steps of a runner that write nothing to the store but the queue.        *)
LEMMA QuietStep ==
  ASSUME IInv, NEW r \in Runners, RunTyped', OthersStay(r), Works(r)',
         UNCHANGED <<record, pointer, request, due, spentBy, rootKnown>>,
         overdue' = overdue, gasOverdue' = gasOverdue,
         queued' \subseteq queued, queued \cap LiveJobs \subseteq queued',
         faults' \in 0..MaxFaults,
         \/ UNCHANGED pending
         \/ /\ run[r].at = "send"
            /\ pending' = pending \cup {run[r].job}
  PROVE  IInv'
<1>1. ASSUME NEW j \in Jobs, \/ UNCHANGED pending
                             \/ run[r].at = "send" /\ j # run[r].job
      PROVE  Untold(j)
  BY <1>1 DEF Untold, Alike, NoCloser
<1>2. StoreFits' /\ \A j \in Jobs : AskedOnce(j)'
  BY StoreKept DEF Alike
<1>3. ASSUME NEW j \in Jobs PROVE RecordFits(j)'
  <2>1. CASE Untold(j)
    BY <2>1, RecordKept DEF IInv
  <2>2. CASE run[r].at = "send" /\ j = run[r].job
    <3>1. AtSend(j, run[r].seen) /\ run[r].seen \in CashOutJob
      BY <2>2, AtWork DEF Works
    <3>2. record[j].status = "sending"
      BY <3>1, MarkedShape DEF AtSend, Alike
    <3> QED BY <3>2 DEF RecordFits, Fits, NotScheduledIfOut
  <2> QED BY <1>1, <2>1, <2>2
<1>4. ASSUME NEW s \in Runners PROVE Works(s)'
  <2>1. ASSUME s # r, run[s] # Idle PROVE Untold(run[s].job)
    <3>1. run[s].job \in Jobs
      BY <2>1, RunShape DEF IInv, TypeOK
    <3>2. run[r].at = "send" => run[s].job # run[r].job
      BY <2>1, AtWork, OneRunner DEF IInv
    <3> QED BY <1>1, <3>1, <3>2
  <2>2. CASE s # r
    <3>1. run'[s] = run[s]
      BY <2>2 DEF OthersStay
    <3> QED BY <2>1, <2>2, <3>1, WorkKept
  <2> QED BY <2>2
<1>5. pending' \subseteq Jobs
  BY AtWork DEF IInv, TypeOK
<1>6. TypeOK'
  BY <1>5 DEF IInv, TypeOK, RunTyped
<1> QED BY <1>2, <1>3, <1>4, <1>6 DEF IInv

LEMMA FaultBound == IInv /\ Fault => faults' \in 0..MaxFaults
BY ScheduledAssumption DEF IInv, TypeOK, Fault

LEMMA TakeStep ==
  ASSUME IInv, NEW r \in Runners, NEW j \in Jobs, Take(r, j)
  PROVE  IInv'
<1>1. /\ run' = [run EXCEPT ![r] = [at |-> "read", job |-> j]]
      /\ j \in queued
      /\ UNCHANGED <<storeVars, request, timeVars, chainVars, faults>>
  BY DEF Take
<1>2. RunTyped'
  BY TakeTyped, TypesOfRuns DEF IInv
<1>3. run'[r] = [at |-> "read", job |-> j] /\ OthersStay(r)
  BY <1>1 DEF IInv, TypeOK, OthersStay
<1>4. j \in Made'
  BY <1>1 DEF IInv, StoreFits, Made, Status, storeVars
<1>5. Works(r)'
  BY <1>3, <1>4 DEF Works
<1> QED BY <1>1, <1>2, <1>3, <1>5, QuietStep
        DEF storeVars, timeVars, chainVars, IInv, TypeOK

LEMMA ReleaseLeaves ==
  ASSUME NEW r \in Runners, Release(r, run[r].job)
  PROVE  Leaves(r)
BY DEF Release, Leaves

LEMMA ReadJobStep ==
  ASSUME IInv, NEW r \in Runners, ReadJob(r)
  PROVE  IInv'
<1> DEFINE j == run[r].job
           job == record[j]
<1>1. /\ run[r] # Idle /\ j \in Jobs /\ j \in Made /\ RunTyped
      /\ job \in CashOutJob
      /\ UNCHANGED <<record, pointer, request, timeVars, chainVars, faults>>
  BY AtWork DEF ReadJob, Works
<1>2. CASE Leaves(r) /\ queued' \in {queued, queued \ {j}}
           /\ (queued' = queued \/ ~IsLive(job.status))
  <2>1. queued' \subseteq queued /\ queued \cap LiveJobs \subseteq queued'
    BY <1>2 DEF LiveJobs, Status
  <2> QED BY <1>1, <1>2, <2>1, LeftWorks, QuietStep
          DEF timeVars, chainVars, IInv, TypeOK
<1>3. CASE /\ IsLive(job.status)
           /\ run' = [run EXCEPT ![r] = [at |-> "chain", job |-> j, seen |-> job]]
           /\ UNCHANGED <<queued, lock>>
  <2> DEFINE w == [at |-> "chain", job |-> j, seen |-> job]
  <2>1. w \in RunAt /\ w.job = j /\ w.at = "chain" /\ w.seen = job
    BY <1>1, AsRead
  <2> HIDE DEF w
  <2>2. run' = [run EXCEPT ![r] = w]
    BY <1>3 DEF w
  <2>3. RunTyped'
    BY <1>1, <1>3, <2>1, <2>2, GoesOnTyped DEF GoesOn
  <2>4. run'[r] = w /\ OthersStay(r)
    BY <1>1, <2>2 DEF RunTyped, OthersStay
  <2>5. j \in LiveJobs'
    BY <1>1, <1>3 DEF LiveJobs, Status
  <2>6. Works(r)'
    BY <1>1, <2>1, <2>4, <2>5 DEF Works, Alike
  <2> QED BY <1>1, <1>3, <2>3, <2>4, <2>6, QuietStep
          DEF timeVars, chainVars, IInv, TypeOK
<1>4. MustForget(job) <=> ~IsLive(job.status)
  BY DEF MustForget
<1> HIDE DEF job
<1>5. \/ Leaves(r) /\ queued' = queued \ {j} /\ ~IsLive(job.status)
      \/ Leaves(r) /\ queued' = queued
      \/ /\ IsLive(job.status)
         /\ run' = [run EXCEPT ![r] = [at |-> "chain", job |-> j, seen |-> job]]
         /\ UNCHANGED <<queued, lock>>
  BY <1>4, ReleaseLeaves DEF ReadJob, job
<1> QED BY <1>2, <1>3, <1>5

LEMMA LookStep ==
  ASSUME IInv, NEW r \in Runners, ReadChain(r) \/ GasCheck(r)
  PROVE  IInv'
<1>1. /\ run[r].at \in {"chain", "gas"}
      /\ UNCHANGED <<storeVars, lock, request, timeVars, chainVars>>
      /\ faults' = faults \/ Fault
  BY DEF ReadChain, GasCheck
<1>2. PICK j : j = run[r].job
  OBVIOUS
<1>3. \/ Decides(r, j)
      \/ run[r].at = "chain" /\ run' = [run EXCEPT ![r].at = "gas"]
      \/ run[r].at = "gas" /\ run' = [run EXCEPT ![r].at = "mark"]
  <2>1. CASE ReadChain(r)
    BY <1>2, <2>1, ReadChainGoes DEF ReadChain
  <2>2. CASE GasCheck(r)
    BY <1>2, <2>2, GasCheckGoes DEF GasCheck
  <2> QED BY <2>1, <2>2
<1>4. RunTyped' /\ OthersStay(r) /\ Works(r)'
  <2>1. UNCHANGED <<record, lock>>
    BY <1>1 DEF storeVars
  <2> QED BY <1>1, <1>2, <1>3, <2>1, DecidedWorks, AheadWorks
<1>5. faults' \in 0..MaxFaults
  BY <1>1, FaultBound DEF IInv, TypeOK
<1> QED BY <1>1, <1>4, <1>5, QuietStep DEF storeVars, timeVars, chainVars

LEMMA SendStep ==
  ASSUME IInv, NEW r \in Runners, Send(r)
  PROVE  IInv'
<1>1. /\ run[r].at = "send"
      /\ UNCHANGED <<storeVars, lock, request, timeVars, spentBy, rootKnown, faults>>
  BY DEF Send
<1>2. PICK j : j = run[r].job
  OBVIOUS
<1>3. UNCHANGED <<record, lock>>
  BY <1>1 DEF storeVars
<1>4. RunTyped' /\ OthersStay(r) /\ Works(r)'
  BY <1>1, <1>2, <1>3, SendGoes, DecidedWorks
<1>5. UNCHANGED pending \/ pending' = pending \cup {run[r].job}
  BY SendReaches
<1> QED BY <1>1, <1>4, <1>5, QuietStep DEF storeVars, timeVars, IInv, TypeOK

LEMMA CrashStep ==
  ASSUME IInv, NEW r \in Runners, Crash(r)
  PROVE  IInv'
<1>1. /\ run[r] # Idle
      /\ UNCHANGED <<storeVars, request, timeVars, spentBy, rootKnown>>
      /\ Leaves(r)
  BY DEF Crash, Leaves
<1>2. \/ UNCHANGED pending
      \/ run[r].at = "send" /\ pending' = pending \cup {run[r].job}
  BY DEF Crash, ReachesNode
<1>3. faults' \in 0..MaxFaults
  BY FaultBound DEF Crash
<1> QED BY <1>1, <1>2, <1>3, LeftWorks, QuietStep DEF storeVars, timeVars

-----------------------------------------------------------------------------
(* The clock and the chain: no runner moves and nothing is stored.         *)
OutsideTyped ==
  /\ record \in [Jobs -> CashOutJob]
  /\ due \subseteq Jobs
  /\ overdue \subseteq due
  /\ gasOverdue \subseteq due
  /\ pending \subseteq Jobs
  /\ spentBy \in Jobs \cup {NoJob, Elsewhere}
  /\ rootKnown \subseteq Jobs
  /\ faults \in 0..MaxFaults

LEMMA OutsideStep ==
  ASSUME IInv, OutsideTyped', RunTyped', UNCHANGED <<run, pointer, queued, request>>,
         \A j \in Jobs : Untold(j),
         \A j \in Jobs : record[j] = NoRecord => record'[j] = NoRecord
  PROVE  IInv'
<1>1. StoreFits' /\ \A j \in Jobs : AskedOnce(j)'
  BY StoreKept DEF Untold
<1>2. ASSUME NEW j \in Jobs PROVE RecordFits(j)'
  BY RecordKept DEF IInv
<1>3. ASSUME NEW s \in Runners PROVE Works(s)'
  <2>1. run[s] # Idle => run[s].job \in Jobs
    BY RunShape DEF IInv, TypeOK
  <2> QED BY <2>1, WorkKept
<1>4. TypeOK'
  BY DEF IInv, TypeOK, RunTyped, OutsideTyped
<1> QED BY <1>1, <1>2, <1>3, <1>4 DEF IInv

LEMMA OutsideNow == IInv => OutsideTyped /\ RunTyped
BY DEF IInv, TypeOK, OutsideTyped, RunTyped

LEMMA ClockStep ==
  ASSUME IInv, NEW j \in Jobs, Clock(j)
  PROVE  IInv'
<1>0. OutsideTyped /\ RunTyped
  BY OutsideNow
<1>1. CASE LockLapses(j)
  <2>1. UNCHANGED <<record, due, overdue, gasOverdue, pending, spentBy, rootKnown, faults>>
        /\ UNCHANGED <<run, pointer, queued, request>>
    BY <1>1 DEF LockLapses, storeVars, timeVars, chainVars
  <2>2. lock[j] = Orphan /\ lock' = [lock EXCEPT ![j] = NoRunner]
    BY <1>1 DEF LockLapses
  <2>3. RunTyped'
    BY <1>0, <2>1, <2>2, FreeTyped, ScheduledAssumption
  <2> QED BY <1>0, <2>1, <2>3, OutsideStep DEF OutsideTyped, Untold, Alike, NoCloser
<1>2. CASE ComesDue(j) \/ ComesOverdue(j) \/ ComesGasOverdue(j)
  <2>1. /\ UNCHANGED <<record, lock, pending, spentBy, rootKnown, faults>>
        /\ UNCHANGED <<run, pointer, queued, request>>
        /\ due' \subseteq Jobs /\ overdue' \subseteq due' /\ gasOverdue' \subseteq due'
    BY <1>0, <1>2
       DEF ComesDue, ComesOverdue, ComesGasOverdue, storeVars, chainVars, OutsideTyped
  <2>2. RunTyped'
    BY <1>0, <2>1 DEF RunTyped
  <2> QED BY <1>0, <2>1, <2>2, OutsideStep DEF OutsideTyped, Untold, Alike, NoCloser
<1>3. CASE HoldEnds(j) \/ GoesStale(j)
  <2>1. /\ j \in LiveJobs
        /\ UNCHANGED <<lock, due, overdue, gasOverdue, pending, spentBy, rootKnown, faults>>
        /\ UNCHANGED <<run, pointer, queued, request>>
        /\ \/ record' = [record EXCEPT ![j].held = FALSE]
           \/ record' = [record EXCEPT ![j].fresh = FALSE]
    BY <1>3 DEF HoldEnds, GoesStale, timeVars, chainVars
  <2>2. PICK job : job \in {[record[j] EXCEPT !.held = FALSE], [record[j] EXCEPT !.fresh = FALSE]}
                   /\ record' = [record EXCEPT ![j] = job]
    BY <1>0, <2>1 DEF OutsideTyped
  <2>3. job \in CashOutJob /\ Alike(job, record[j])
    BY <1>0, <2>2, TimesShape DEF OutsideTyped
  <2>4. record' \in [Jobs -> CashOutJob]
    BY <1>0, <2>2, <2>3 DEF OutsideTyped
  <2>5. ASSUME NEW k \in Jobs
        PROVE  Alike(record'[k], record[k]) /\ (record[k] = NoRecord => record'[k] = NoRecord)
    <3>1. CASE k = j
      BY <1>0, <2>1, <2>2, <2>3, <3>1, NewJobShape DEF OutsideTyped, LiveJobs, IsLive, Status
    <3>2. CASE k # j
      BY <1>0, <2>2, <3>2 DEF OutsideTyped, Alike
    <3> QED BY <3>1, <3>2
  <2>6. RunTyped'
    BY <1>0, <2>1 DEF RunTyped
  <2> QED BY <1>0, <2>1, <2>4, <2>5, <2>6, OutsideStep DEF OutsideTyped, Untold, NoCloser
<1> QED BY <1>1, <1>2, <1>3 DEF Clock

LEMMA ChainStep ==
  ASSUME IInv, NEW j \in Jobs, Land(j) \/ Drop(j) \/ RootLost(j)
  PROVE  IInv'
<1>0. OutsideTyped /\ RunTyped
  BY OutsideNow
<1>1. /\ UNCHANGED <<record, lock, due, overdue, gasOverdue>>
      /\ UNCHANGED <<run, pointer, queued, request>>
  BY DEF Land, Drop, RootLost, storeVars, timeVars
<1>2. faults' \in 0..MaxFaults
  BY <1>0, FaultBound DEF Land, Drop, RootLost, OutsideTyped
<1>3. /\ pending' \subseteq pending /\ rootKnown' \subseteq rootKnown
      /\ \/ spentBy' = spentBy
         \/ spentBy' = j /\ j \in pending \cap rootKnown
  BY DEF Land, Drop, RootLost
<1>4. RunTyped'
  BY <1>0, <1>1 DEF RunTyped
<1>5. ASSUME NEW k \in Jobs PROVE Untold(k)
  BY <1>1, <1>3, ScheduledAssumption DEF Untold, Alike, NoCloser
<1> QED BY <1>0, <1>1, <1>2, <1>3, <1>4, <1>5, OutsideStep DEF OutsideTyped

(* A new proof goes to a job that was never marked, with no runner at it.  *)
LEMMA ReplaceProofStep ==
  ASSUME IInv, NEW j \in Jobs, ReplaceJobProof(j)
  PROVE  IInv'
<1>1. /\ lock[j] = NoRunner /\ Untouched(record[j])
      /\ rootKnown' = rootKnown \cup {j}
      /\ UNCHANGED <<record, queued, pointer, lock, run, request, due, overdue,
                     gasOverdue, pending, spentBy, faults>>
  BY DEF ReplaceJobProof, LockFree, storeVars, timeVars
<1>2. ASSUME NEW k \in Jobs, k # j PROVE Untold(k)
  BY <1>1, <1>2 DEF Untold, Alike, NoCloser
<1>3. StoreFits' /\ \A k \in Jobs : AskedOnce(k)'
  BY <1>1, StoreKept DEF Alike
<1>4. ASSUME NEW k \in Jobs PROVE RecordFits(k)'
  <2>1. CASE k = j
    BY <1>1, <2>1 DEF IInv, RecordFits, Fits, NotScheduledIfOut, Untouched
  <2> QED BY <1>2, <2>1, RecordKept DEF IInv
<1>5. ASSUME NEW s \in Runners PROVE Works(s)'
  <2>1. ASSUME run[s] # Idle PROVE run[s].job \in Jobs \ {j}
    BY <1>1, <2>1, RunShape, LockFreeNoRunner, ScheduledAssumption DEF IInv, TypeOK
  <2> QED BY <1>1, <1>2, <2>1, WorkKept
<1>6. TypeOK'
  BY <1>1 DEF IInv, TypeOK
<1> QED BY <1>3, <1>4, <1>5, <1>6 DEF IInv

(* A request that is told of another job, or is told to look again.        *)
LEMMA RequestStep ==
  ASSUME IInv, UNCHANGED <<record, queued, pointer, lock, run, due, overdue,
                           gasOverdue, pending, spentBy, rootKnown, faults>>,
         request' \in [Jobs -> [at : {"idle", "create", "other", "over"},
                                replace : Jobs \cup {NoJob}, tries : 0..2]],
         \A j \in Jobs : AskedOnce(j)'
  PROVE  IInv'
<1>1. ASSUME NEW k \in Jobs PROVE Untold(k)
  BY DEF Untold, Alike, NoCloser
<1>2. StoreFits'
  BY DEF IInv, StoreFits, LiveJobs, Made, Status, LiveJobIsQueued
<1>3. ASSUME NEW k \in Jobs PROVE RecordFits(k)'
  BY <1>1, RecordKept DEF IInv
<1>4. ASSUME NEW s \in Runners PROVE Works(s)'
  <2>1. run[s] # Idle => run[s].job \in Jobs
    BY RunShape DEF IInv, TypeOK
  <2> QED BY <1>1, <2>1, WorkKept
<1>5. TypeOK'
  BY DEF IInv, TypeOK
<1> QED BY <1>2, <1>3, <1>4, <1>5 DEF IInv

Requests == [at : {"idle", "create", "other", "over"},
             replace : Jobs \cup {NoJob}, tries : 0..2]

(* One request moves to q, which is still owed nothing it did not make.    *)
LEMMA OneRequestStep ==
  ASSUME IInv, NEW j \in Jobs, NEW q \in Requests,
         request' = [request EXCEPT ![j] = q],
         q.at # "over" => record[j] = NoRecord /\ q.tries < 2,
         q.replace \in Made \cup {NoJob},
         q.at = "create" => q.replace \notin LiveJobs,
         UNCHANGED <<record, queued, pointer, lock, run, due, overdue,
                     gasOverdue, pending, spentBy, rootKnown, faults>>
  PROVE  IInv'
<1>1. LiveJobs' = LiveJobs /\ Made' = Made
  BY DEF LiveJobs, Made, Status
<1>2. request \in [Jobs -> Requests]
  BY DEF IInv, TypeOK, Requests
<1>3. ASSUME NEW k \in Jobs PROVE AskedOnce(k)'
  <2>1. CASE k = j
    BY <1>1, <1>2, <2>1 DEF AskedOnce
  <2>2. CASE k # j
    <3>1. request'[k] = request[k]
      BY <1>2, <2>2
    <3> QED BY <1>1, <3>1 DEF IInv, AskedOnce
  <2> QED BY <2>1, <2>2
<1>4. request' \in [Jobs -> Requests]
  BY <1>2
<1> QED BY <1>3, <1>4, RequestStep DEF Requests

LEMMA AskedShape ==
  ASSUME NEW q \in Requests, NEW p \in {"idle", "create", "other", "over"}
  PROVE  LET v == [q EXCEPT !.at = p] IN
         /\ v \in Requests /\ v.at = p
         /\ v.replace = q.replace /\ v.tries = q.tries
BY DEF Requests

LEMMA ToldShape ==
  ASSUME NEW q \in Requests, NEW p \in {"idle", "create", "other", "over"},
         NEW other \in Jobs \cup {NoJob}
  PROVE  LET v == [q EXCEPT !.at = p, !.replace = other] IN
         /\ v \in Requests /\ v.at = p
         /\ v.replace = other /\ v.tries = q.tries
BY DEF Requests

LEMMA AskStep ==
  ASSUME IInv, NEW j \in Jobs, Ask(j)
  PROVE  IInv'
<1>1. /\ request[j].at = "idle"
      /\ UNCHANGED <<record, queued, pointer, lock, run, due, overdue,
                     gasOverdue, pending, spentBy, rootKnown, faults>>
  BY DEF Ask, storeVars, timeVars, chainVars
<1>2. request \in [Jobs -> Requests] /\ AskedOnce(j)
  BY DEF IInv, TypeOK, Requests
<1>3. PICK p : p = IF pointer \in LiveJobs THEN "over" ELSE "create"
  OBVIOUS
<1>4. PICK q : q = [request[j] EXCEPT !.at = p]
  OBVIOUS
<1>5. request' = [request EXCEPT ![j] = q]
  <2>1. request' = [request EXCEPT ![j].at = p]
    BY <1>3 DEF Ask
  <2> QED BY <1>2, <1>4, <2>1
<1>6. q \in Requests /\ q.at = p /\ q.replace = request[j].replace /\ q.tries = request[j].tries
  <2>1. request[j] \in Requests /\ p \in {"idle", "create", "other", "over"}
    BY <1>2, <1>3
  <2> QED BY <1>4, <2>1, AskedShape
<1>7. p = "create" => LiveJobs = {}
  BY <1>3 DEF IInv, StoreFits
<1> QED BY <1>1, <1>2, <1>3, <1>5, <1>6, <1>7, OneRequestStep DEF AskedOnce

LEMMA OtherJobStep ==
  ASSUME IInv, NEW j \in Jobs, OtherJob(j)
  PROVE  IInv'
<1>1. /\ request[j].at = "other"
      /\ UNCHANGED <<record, queued, pointer, lock, run, due, overdue,
                     gasOverdue, pending, spentBy, rootKnown, faults>>
  BY DEF OtherJob, storeVars, timeVars, chainVars
<1>2. request \in [Jobs -> Requests] /\ AskedOnce(j)
  BY DEF IInv, TypeOK, Requests
<1>3. PICK tries : tries = request[j].tries + 1
  OBVIOUS
<1>4. tries \in 0..2
  <2>1. request[j].tries \in 0..2 /\ request[j].tries < 2
    BY <1>1, <1>2 DEF AskedOnce, Requests
  <2> QED BY <1>3, <2>1
<1>5. PICK p : p = IF request[j].replace \in LiveJobs \/ tries = 2
                   THEN "over" ELSE "create"
  OBVIOUS
<1>6. PICK q : q = [request[j] EXCEPT !.tries = tries, !.at = p]
  OBVIOUS
<1>7. request' = [request EXCEPT ![j] = q]
  <2>1. request' = [request EXCEPT ![j].tries = tries, ![j].at = p]
    BY <1>3, <1>5 DEF OtherJob
  <2> QED BY <1>2, <1>6, <2>1
<1>8. q \in Requests /\ q.at = p /\ q.replace = request[j].replace /\ q.tries = tries
  <2>1. request[j] \in Requests /\ p \in {"idle", "create", "other", "over"}
    BY <1>2, <1>5
  <2> QED BY <1>4, <1>6, <2>1 DEF Requests
<1>9. p = "create" => tries < 2 /\ request[j].replace \notin LiveJobs
  BY <1>4, <1>5
<1>10. p \in {"create", "over"}
  BY <1>5
<1> QED BY <1>1, <1>2, <1>7, <1>8, <1>9, <1>10, OneRequestStep DEF AskedOnce

LEMMA CreateOtherStep ==
  ASSUME IInv, NEW j \in Jobs, Create(j), ~MayTakePointer(j)
  PROVE  IInv'
<1>1. /\ request[j].at = "create"
      /\ UNCHANGED <<record, queued, pointer, lock, run, due, overdue,
                     gasOverdue, pending, spentBy, rootKnown, faults>>
  BY DEF Create, storeVars, timeVars, chainVars
<1>2. request \in [Jobs -> Requests] /\ AskedOnce(j)
  BY DEF IInv, TypeOK, Requests
<1>3. pointer \in Made \cup {NoJob} /\ pointer \in Jobs \cup {NoJob}
  BY DEF IInv, TypeOK, StoreFits
<1>4. PICK q : q = [request[j] EXCEPT !.at = "other", !.replace = pointer]
  OBVIOUS
<1>5. request' = [request EXCEPT ![j] = q]
  <2>1. request' = [request EXCEPT ![j].at = "other", ![j].replace = pointer]
    BY DEF Create
  <2> QED BY <1>2, <1>4, <2>1
<1>6. q \in Requests /\ q.at = "other" /\ q.replace = pointer /\ q.tries = request[j].tries
  <2>1. request[j] \in Requests
    BY <1>2
  <2> QED BY <1>3, <1>4, <2>1, ToldShape
<1> QED BY <1>1, <1>2, <1>3, <1>5, <1>6, OneRequestStep DEF AskedOnce

-----------------------------------------------------------------------------
(* The puts.  One that fails left all of the store alone, or all but the   *)
(* record.                                                                 *)
Writes(j, job) ==
  \/ Put(j, job)
  \/ (UNCHANGED record \/ PutRecord(j, job)) /\ UNCHANGED <<queued, pointer>>

LEMMA Written ==
  ASSUME IInv, NEW j \in Jobs, NEW job \in CashOutJob, Writes(j, job)
  PROVE  /\ record' \in [Jobs -> CashOutJob]
         /\ record'[j] \in {record[j], job}
         /\ \A k \in Jobs \ {j} : record'[k] = record[k]
         /\ queued' \subseteq Jobs /\ pointer' \in Jobs \cup {NoJob}
BY DEF IInv, TypeOK, Writes, Put, PutRecord

LEMMA WrittenStore ==
  ASSUME IInv, NEW j \in LiveJobs, NEW job \in CashOutJob, job.status # "none",
         Writes(j, job), UNCHANGED request
  PROVE  StoreFits' /\ \A k \in Jobs : AskedOnce(k)'
<1>1. /\ j \in Jobs /\ record \in [Jobs -> CashOutJob]
      /\ LiveJobs \subseteq {j} /\ pointer = j /\ j \in queued /\ j \in Made
      /\ queued \subseteq Made
  BY DEF IInv, TypeOK, StoreFits, LiveJobIsQueued, LiveJobs, Made, IsLive
<1>2. /\ record'[j] \in {record[j], job}
      /\ \A k \in Jobs \ {j} : record'[k] = record[k]
  BY <1>1, Written
<1>3. Made' = Made
  BY <1>1, <1>2 DEF Made, Status
<1>4. LiveJobs' \subseteq LiveJobs
  BY <1>1, <1>2 DEF LiveJobs, Status
<1>5. pointer' = j /\ queued' \subseteq Made
  BY <1>1 DEF Writes, Put
<1>6. LiveJobs' \subseteq queued'
  <2>1. CASE queued' = queued
    BY <1>1, <1>4, <2>1
  <2>2. CASE queued' = queued \cup {j}
    BY <1>1, <1>4, <2>2
  <2>3. CASE PutRecord(j, job) /\ ~IsLive(job.status)
    <3>1. record'[j] = job
      BY <1>1, <2>3 DEF PutRecord
    <3>2. j \notin LiveJobs'
      BY <2>3, <3>1 DEF LiveJobs, Status
    <3> QED BY <1>1, <1>4, <3>2
  <2> QED BY <2>1, <2>2, <2>3 DEF Writes, Put
<1>7. ASSUME NEW k \in Jobs PROVE AskedOnce(k)'
  <2>1. AskedOnce(k)
    BY DEF IInv
  <2>2. record[k] = NoRecord => k # j
    BY <1>1, NewJobShape DEF LiveJobs, IsLive, Status
  <2> QED BY <1>2, <1>3, <1>4, <2>1, <2>2 DEF AskedOnce
<1> QED BY <1>1, <1>3, <1>4, <1>5, <1>6, <1>7 DEF StoreFits, LiveJobIsQueued

LEMMA WriteStep ==
  ASSUME IInv, NEW j \in LiveJobs, NEW job \in CashOutJob, job.status # "none",
         Writes(j, job), Fits(j, job), NotScheduledIfOut(job),
         UNCHANGED <<request, due, gasOverdue, pending, spentBy, rootKnown>>,
         RunTyped', overdue' \subseteq due, faults' \in 0..MaxFaults,
         \A s \in Runners : \/ Works(s)'
                            \/ run'[s] = run[s] /\ (run[s] # Idle => run[s].job # j)
  PROVE  IInv'
<1>1. j \in Jobs
  BY DEF LiveJobs
<1>2. /\ record' \in [Jobs -> CashOutJob]
      /\ record'[j] \in {record[j], job}
      /\ \A k \in Jobs \ {j} : record'[k] = record[k]
      /\ queued' \subseteq Jobs /\ pointer' \in Jobs \cup {NoJob}
  BY <1>1, Written
<1>3. ASSUME NEW k \in Jobs \ {j} PROVE Untold(k)
  BY <1>2 DEF Untold, Alike, NoCloser
<1>4. ASSUME NEW k \in Jobs PROVE RecordFits(k)'
  <2>1. CASE k # j
    BY <1>3, <2>1, RecordKept DEF IInv
  <2>2. CASE k = j
    BY <1>1, <1>2, <2>2 DEF IInv, RecordFits, Fits, NotScheduledIfOut
  <2> QED BY <2>1, <2>2
<1>5. ASSUME NEW s \in Runners PROVE Works(s)'
  <2>1. CASE run'[s] = run[s] /\ (run[s] # Idle => run[s].job # j)
    <3>1. run[s] # Idle => run[s].job \in Jobs
      BY RunShape DEF IInv, TypeOK
    <3> QED BY <1>3, <2>1, <3>1, WorkKept
  <2> QED BY <2>1
<1>6. TypeOK'
  BY <1>2 DEF IInv, TypeOK, RunTyped
<1> QED BY <1>4, <1>5, <1>6, WrittenStore DEF IInv

LEMMA CancelStep ==
  ASSUME IInv, NEW j \in Jobs, CancelJob(j)
  PROVE  IInv'
<1>1. PICK job : job = [record[j] EXCEPT !.status = "cancelled"]
  OBVIOUS
<1>2. /\ Untouched(record[j]) /\ lock[j] = NoRunner
      /\ UNCHANGED <<run, request, timeVars, chainVars>>
  BY DEF CancelJob, LockFree
<1>3. Writes(j, job) /\ lock' \in {lock, [lock EXCEPT ![j] = Orphan]}
      /\ (faults' = faults \/ Fault)
  BY <1>1 DEF CancelJob, Writes, PutFails
<1>4. record[j] \in CashOutJob /\ RecordFits(j) /\ j \in LiveJobs
  BY <1>2 DEF IInv, TypeOK, LiveJobs, IsLive, Status, Untouched
<1>5. job \in CashOutJob /\ job.status = "cancelled" /\ job.maybeSent = record[j].maybeSent
  BY <1>1, <1>4 DEF CashOutJob, JobStatus
<1>6. Fits(j, job) /\ NotScheduledIfOut(job)
  BY <1>2, <1>4, <1>5 DEF RecordFits, Fits, NotScheduledIfOut, Untouched
<1>7. faults' \in 0..MaxFaults
  BY <1>3, FaultBound DEF IInv, TypeOK
<1>8. RunTyped'
  BY <1>2, <1>3, OutsideNow, FreeTyped, ScheduledAssumption
<1>9. ASSUME NEW s \in Runners, run[s] # Idle PROVE run[s].job # j
  BY <1>2, <1>9, LockFreeNoRunner, ScheduledAssumption DEF IInv
<1> QED BY <1>2, <1>3, <1>4, <1>5, <1>6, <1>7, <1>8, <1>9, WriteStep
        DEF timeVars, chainVars, IInv, TypeOK

LEMMA MarkStep ==
  ASSUME IInv, NEW r \in Runners, MarkSending(r)
  PROVE  IInv'
<1>1. PICK j, seen, job : j = run[r].job /\ seen = run[r].seen /\ job = Marked(seen)
  OBVIOUS
<1>2. run[r].at = "mark" /\ UNCHANGED <<request, timeVars, chainVars>>
  BY DEF MarkSending
<1>3. /\ run[r] # Idle /\ run[r] \in RunAt /\ RunTyped
      /\ j \in Jobs /\ j \in LiveJobs /\ RecordFits(j)
      /\ seen \in CashOutJob /\ Alike(seen, record[j])
      /\ record \in [Jobs -> CashOutJob]
  BY <1>1, <1>2, AtWork DEF Works, IInv, TypeOK
<1>4. /\ job \in CashOutJob /\ job.status = "sending"
      /\ Fits(j, job) /\ NotScheduledIfOut(job)
  BY <1>1, <1>3, MarkedShape DEF Fits, NotScheduledIfOut
<1>5. ASSUME NEW s \in Runners \ {r}, run[s] # Idle PROVE run[s].job # j
  BY <1>1, <1>3, <1>5, OneRunner DEF IInv
<1>6. CASE /\ Put(j, job) /\ run' = [run EXCEPT ![r].at = "send"]
           /\ UNCHANGED <<lock, faults>>
  <2>1. PICK w : w = [run[r] EXCEPT !.at = "send"]
    OBVIOUS
  <2>2. w \in RunAt /\ w.at = "send" /\ w.job = j /\ w.seen = seen
    BY <1>1, <1>2, <1>3, <2>1, Ahead
  <2>3. run' = [run EXCEPT ![r] = w]
    BY <1>3, <1>6, <2>1 DEF RunTyped
  <2>4. RunTyped'
    BY <1>1, <1>3, <1>6, <2>2, <2>3, GoesOnTyped DEF GoesOn
  <2>5. run'[r] = w /\ OthersStay(r)
    BY <1>3, <2>3 DEF RunTyped, OthersStay
  <2>6. record'[j] = job /\ j \in LiveJobs'
    BY <1>3, <1>4, <1>6 DEF Put, PutRecord, LiveJobs, IsLive, Status
  <2>7. AtSend(j, seen)'
    <3>1. Alike(Marked(seen), record[j])'
      BY <1>1, <2>6 DEF Alike
    <3>2. IsLive(seen.status) /\ NotScheduledIfOut(seen)
      BY <1>3 DEF Alike, LiveJobs, IsLive, Status, RecordFits, NotScheduledIfOut
    <3>3. ~MayBeOut(seen) => j \notin pending /\ spentBy # j
      BY <1>3, WaitingIsClear DEF CountsAsOut
    <3> QED BY <1>2, <3>1, <3>2, <3>3 DEF AtSend, chainVars, NotScheduledIfOut
  <2>8. Works(r)'
    BY <2>2, <2>5, <2>6, <2>7 DEF Works
  <2>9. Writes(j, job)
    BY <1>6 DEF Writes
  <2> QED BY <1>2, <1>3, <1>4, <1>5, <1>6, <2>4, <2>5, <2>8, <2>9, WriteStep
          DEF timeVars, chainVars, OthersStay, IInv, TypeOK
<1>7. CASE PutFails(j, job) /\ Release(r, j)
  <2>1. Writes(j, job) /\ Leaves(r)
    BY <1>1, <1>7, ReleaseLeaves DEF Writes, PutFails
  <2>2. faults' \in 0..MaxFaults
    BY <1>7, FaultBound DEF PutFails
  <2>3. RunTyped' /\ OthersStay(r) /\ Works(r)'
    BY <1>3, <2>1, LeftWorks
  <2> QED BY <1>2, <1>3, <1>4, <1>5, <2>1, <2>2, <2>3, WriteStep
          DEF timeVars, chainVars, OthersStay, IInv, TypeOK
<1> QED BY <1>1, <1>6, <1>7 DEF MarkSending

LEMMA PutResultStep ==
  ASSUME IInv, NEW r \in Runners, PutResult(r)
  PROVE  IInv'
<1>1. PICK j, job : j = run[r].job /\ job = run[r].result
  OBVIOUS
<1>2. /\ run[r].at = "settle"
      /\ Writes(j, job) /\ Release(r, j) /\ (faults' = faults \/ Fault)
      /\ UNCHANGED <<request, due, gasOverdue, chainVars>>
      /\ overdue' \in {overdue, overdue \ {j}}
  BY <1>1 DEF PutResult, Writes, PutFails
<1>3. /\ run[r] # Idle
      /\ j \in LiveJobs /\ job \in CashOutJob /\ AtSettle(j, job)
  BY <1>1, <1>2, AtWork DEF Works
<1>4. RunTyped' /\ OthersStay(r) /\ Works(r)'
  BY <1>1, <1>2, <1>3, ReleaseLeaves, LeftWorks
<1>5. ASSUME NEW s \in Runners \ {r}, run[s] # Idle PROVE run[s].job # j
  BY <1>1, <1>3, <1>5, OneRunner DEF IInv
<1>6. faults' \in 0..MaxFaults /\ overdue' \subseteq due
  BY <1>2, FaultBound DEF IInv, TypeOK
<1> QED BY <1>2, <1>3, <1>4, <1>5, <1>6, WriteStep DEF AtSettle, OthersStay, chainVars

(* A request that may take the pointer finds no job of the spend live.     *)
LEMMA CreateStep ==
  ASSUME IInv, NEW j \in Jobs, Create(j), MayTakePointer(j)
  PROVE  IInv'
<1>1. /\ request[j].at = "create"
      /\ Put(j, NewJob)
      /\ request' = [request EXCEPT ![j].at = "over"]
      /\ UNCHANGED <<lock, run, due, overdue, gasOverdue, pending, spentBy, rootKnown, faults>>
  BY DEF Create, timeVars, chainVars
<1>2. /\ AskedOnce(j) /\ RecordFits(j)
      /\ request \in [Jobs -> Requests] /\ record \in [Jobs -> CashOutJob]
      /\ RunTyped
  BY OutsideNow DEF IInv, TypeOK, Requests
<1>3. record[j] = NoRecord /\ LiveJobs = {} /\ j \notin Made
  <2>1. record[j] = NoRecord
    BY <1>1, <1>2 DEF AskedOnce
  <2>2. j \notin LiveJobs /\ j \notin Made
    BY <2>1, NewJobShape DEF LiveJobs, Made, IsLive, Status
  <2>3. pointer \notin LiveJobs
    BY <1>1, <1>2, <2>2, ScheduledAssumption DEF MayTakePointer, AskedOnce, LiveJobs
  <2> QED BY <2>1, <2>2, <2>3 DEF IInv, StoreFits
<1>4. /\ record' \in [Jobs -> CashOutJob] /\ record'[j] = NewJob
      /\ \A k \in Jobs \ {j} : record'[k] = record[k]
  BY <1>1, <1>2, NewJobShape DEF Put, PutRecord
<1>5. pointer' = j /\ queued' = queued \cup {j}
  BY <1>1, NewJobShape DEF Put, IsLive
<1>6. Made' = Made \cup {j} /\ LiveJobs' = {j}
  BY <1>3, <1>4, NewJobShape DEF Made, LiveJobs, IsLive, Status
<1>7. StoreFits'
  BY <1>5, <1>6 DEF IInv, StoreFits, LiveJobIsQueued
<1>8. request' \in [Jobs -> Requests] /\ request'[j].at = "over"
      /\ request'[j].replace = request[j].replace
      /\ \A k \in Jobs \ {j} : request'[k] = request[k]
  BY <1>1, <1>2 DEF Requests
<1>9. ASSUME NEW k \in Jobs PROVE AskedOnce(k)'
  <2>1. CASE k = j
    BY <1>2, <1>6, <1>8, <2>1 DEF AskedOnce
  <2>2. CASE k # j
    <3>1. AskedOnce(k) /\ request'[k] = request[k] /\ record'[k] = record[k]
      BY <1>4, <1>8, <2>2 DEF IInv
    <3>2. request[k].replace # j
      BY <1>3, <3>1, ScheduledAssumption DEF AskedOnce
    <3> QED BY <1>6, <3>1, <3>2 DEF AskedOnce
  <2> QED BY <2>1, <2>2
<1>10. ASSUME NEW k \in Jobs \ {j} PROVE Untold(k)
  BY <1>1, <1>4 DEF Untold, Alike, NoCloser
<1>11. ASSUME NEW k \in Jobs PROVE RecordFits(k)'
  <2>1. CASE k = j
    BY <1>1, <1>2, <1>3, <1>4, <2>1, NewJobShape DEF RecordFits, Fits, NotScheduledIfOut
  <2> QED BY <1>10, <2>1, RecordKept DEF IInv
<1>12. ASSUME NEW s \in Runners PROVE Works(s)'
  <2>1. ASSUME run[s] # Idle PROVE run[s].job \in Jobs \ {j}
    BY <1>3, <2>1, AtWork, RunShape DEF Works, IInv, TypeOK
  <2> QED BY <1>1, <1>10, <2>1, WorkKept
<1>13. TypeOK'
  BY <1>1, <1>4, <1>5, <1>8 DEF IInv, TypeOK, Requests
<1> QED BY <1>7, <1>9, <1>11, <1>12, <1>13 DEF IInv

-----------------------------------------------------------------------------
LEMMA InitInv == Init => IInv
<1> SUFFICES ASSUME Init PROVE IInv
  OBVIOUS
<1>1. /\ record \in [Jobs -> CashOutJob]
      /\ \A j \in Jobs : record[j] = NoRecord
  BY NewJobShape DEF Init
<1>2. LiveJobs = {} /\ Made = {}
  BY <1>1, NewJobShape DEF LiveJobs, Made, IsLive, Status
<1>3. TypeOK
  BY <1>1, ScheduledAssumption DEF Init, TypeOK, Idle
<1>4. StoreFits
  BY <1>2 DEF Init, StoreFits, LiveJobIsQueued
<1>5. ASSUME NEW j \in Jobs PROVE AskedOnce(j) /\ RecordFits(j)
  BY <1>1, <1>2, NewJobShape, ScheduledAssumption
     DEF Init, AskedOnce, RecordFits, Fits, NotScheduledIfOut
<1>6. ASSUME NEW r \in Runners PROVE Works(r)
  BY DEF Init, Works, Idle
<1> QED BY <1>3, <1>4, <1>5, <1>6 DEF IInv

LEMMA StutterStep == IInv /\ UNCHANGED vars => IInv'
<1> SUFFICES ASSUME IInv, UNCHANGED vars PROVE IInv'
  OBVIOUS
<1> QED BY OutsideNow, OutsideStep
        DEF vars, storeVars, timeVars, chainVars, OutsideTyped, RunTyped,
            Untold, Alike, NoCloser

LEMMA InvStep == IInv /\ [Next]_vars => IInv'
<1> SUFFICES ASSUME IInv, [Next]_vars PROVE IInv'
  OBVIOUS
<1>1. ASSUME NEW j \in Jobs, Ask(j) \/ Create(j) \/ OtherJob(j) PROVE IInv'
  BY <1>1, AskStep, CreateStep, CreateOtherStep, OtherJobStep
<1>2. ASSUME NEW j \in Jobs, CancelJob(j) \/ ReplaceJobProof(j) PROVE IInv'
  BY <1>2, CancelStep, ReplaceProofStep
<1>3. ASSUME NEW r \in Runners, NEW j \in Jobs, Take(r, j) PROVE IInv'
  BY <1>3, TakeStep
<1>4. ASSUME NEW r \in Runners, RunStep(r) PROVE IInv'
  BY <1>4, ReadJobStep, LookStep, MarkStep, SendStep, PutResultStep DEF RunStep
<1>5. ASSUME NEW r \in Runners, Crash(r) PROVE IInv'
  BY <1>5, CrashStep
<1>6. ASSUME NEW j \in Jobs, Clock(j) PROVE IInv'
  BY <1>6, ClockStep
<1>7. ASSUME NEW j \in Jobs, Land(j) \/ Drop(j) \/ RootLost(j) PROVE IInv'
  BY <1>7, ChainStep
<1>8. CASE SpendElsewhere
  <2>1. UNCHANGED <<record, queued, pointer, run, request, pending, rootKnown>>
        /\ UNCHANGED <<lock, due, overdue, gasOverdue, faults>>
        /\ spentBy' = Elsewhere
    BY <1>8 DEF SpendElsewhere, storeVars, timeVars
  <2> QED BY <2>1, OutsideNow, OutsideStep, ScheduledAssumption
          DEF OutsideTyped, RunTyped, Untold, Alike, NoCloser
<1>9. CASE UNCHANGED vars
  BY <1>9, StutterStep
<1> QED BY <1>1, <1>2, <1>3, <1>4, <1>5, <1>6, <1>7, <1>8, <1>9 DEF Next

(* What runners and requests rely on holds throughout, for any number of   *)
(* jobs, runners, crashes and lost store commands.                         *)
THEOREM InvHolds == Spec => []IInv
<1> QED BY InitInv, InvStep, PTL DEF Spec

(* The job machine keeps its types.                                        *)
THEOREM TypeCorrect == Spec => []TypeOK
<1>1. IInv => TypeOK
  BY DEF IInv
<1> QED BY <1>1, InvHolds, PTL

(* However many requests, runs and half done puts race, a spend has at     *)
(* most one live job, and it is the one its pointer names.                 *)
THEOREM OneLiveJob == Spec => []OneLiveJobPerSpend
<1>1. IInv => OneLiveJobPerSpend
  <2> SUFFICES ASSUME IInv PROVE OneLiveJobPerSpend
    OBVIOUS
  <2>1. LiveJobs \subseteq {pointer}
    BY DEF IInv, StoreFits
  <2>2. IsFiniteSet({pointer}) /\ Cardinality({pointer}) = 1
    BY FS_Singleton
  <2>3. Cardinality(LiveJobs) <= 1
    BY <2>1, <2>2, FS_Subset
  <2> QED BY <2>1, <2>3 DEF OneLiveJobPerSpend
<1> QED BY <1>1, InvHolds, PTL

(* No crash, half done put or forget takes a live job out of the queue.    *)
THEOREM LiveJobStaysQueued == Spec => []LiveJobIsQueued
<1>1. IInv => LiveJobIsQueued
  BY DEF IInv, StoreFits
<1> QED BY <1>1, InvHolds, PTL

(* No run says of a cash out that may still land, or has, that it did not  *)
(* go out.                                                                 *)
THEOREM NeverUnsent == Spec => []NeverUnsentOnAGuess
<1>1. IInv => NeverUnsentOnAGuess
  <2> SUFFICES ASSUME IInv, NEW j \in Jobs,
                      \/ CanStillLand(j)
                      \/ spentBy = j
                      \/ \E r \in Runners : run[r] # Idle /\ run[r].at = "send" /\ run[r].job = j
               PROVE  Status(j) \in {"sending", "sent"}
    BY DEF NeverUnsentOnAGuess
  <2>1. CASE CanStillLand(j) \/ spentBy = j
    BY <2>1 DEF IInv, RecordFits, Fits, CanStillLand, Status
  <2>2. ASSUME NEW r \in Runners, run[r].at = "send", run[r].job = j
        PROVE  Status(j) \in {"sending", "sent"}
    <3>1. AtSend(j, run[r].seen) /\ run[r].seen \in CashOutJob
      BY <2>2, AtWork DEF Works
    <3> QED BY <3>1, MarkedShape DEF AtSend, Alike, Status
  <2> QED BY <2>1, <2>2
<1> QED BY <1>1, InvHolds, PTL

-----------------------------------------------------------------------------
(* No step takes a job back.                                               *)
GoesForward(j) ==
  \/ record'[j] = record[j]
  \/ record[j] = NoRecord
  \/ /\ j \in LiveJobs
     /\ record[j].maybeSent => record'[j].status # "scheduled"

LEMMA WriteGoesForward ==
  ASSUME IInv, NEW j \in Jobs, NEW job \in CashOutJob, Writes(j, job),
         \/ record[j] = NoRecord
         \/ j \in LiveJobs /\ (record[j].maybeSent => job.status # "scheduled")
  PROVE  \A k \in Jobs : GoesForward(k)
<1>1. record'[j] \in {record[j], job} /\ \A k \in Jobs \ {j} : record'[k] = record[k]
  BY Written
<1> QED BY <1>1 DEF GoesForward

LEMMA NextGoesForward ==
  ASSUME IInv, Next
  PROVE  \A j \in Jobs : GoesForward(j)
<1>1. CASE UNCHANGED record
  BY <1>1 DEF GoesForward
<1>2. ASSUME NEW j \in Jobs, Create(j) PROVE \A k \in Jobs : GoesForward(k)
  <2>1. UNCHANGED record \/ Put(j, NewJob)
    BY <1>2 DEF Create, storeVars
  <2>2. record[j] = NoRecord
    BY <1>2 DEF Create, IInv, AskedOnce
  <2> QED BY <1>1, <2>1, <2>2, NewJobShape, WriteGoesForward DEF Writes
<1>3. ASSUME NEW j \in Jobs, CancelJob(j) PROVE \A k \in Jobs : GoesForward(k)
  <2>1. PICK job : job = [record[j] EXCEPT !.status = "cancelled"]
    OBVIOUS
  <2>2. Writes(j, job)
    BY <1>3, <2>1 DEF CancelJob, Writes, PutFails
  <2>3. record[j] \in CashOutJob /\ j \in LiveJobs
    BY <1>3 DEF CancelJob, Untouched, LiveJobs, IsLive, Status, IInv, TypeOK
  <2>4. job \in CashOutJob /\ job.status = "cancelled"
    BY <2>1, <2>3 DEF CashOutJob, JobStatus
  <2> QED BY <2>2, <2>3, <2>4, WriteGoesForward
<1>4. ASSUME NEW r \in Runners, MarkSending(r) PROVE \A k \in Jobs : GoesForward(k)
  <2>1. PICK j, job : j = run[r].job /\ job = Marked(run[r].seen)
    OBVIOUS
  <2>2. Writes(j, job) /\ run[r].at = "mark"
    BY <1>4, <2>1 DEF MarkSending, Writes, PutFails
  <2>3. j \in Jobs /\ j \in LiveJobs /\ job \in CashOutJob /\ job.status = "sending"
    BY <2>1, <2>2, AtWork, MarkedShape DEF Works
  <2> QED BY <2>2, <2>3, WriteGoesForward
<1>5. ASSUME NEW r \in Runners, PutResult(r) PROVE \A k \in Jobs : GoesForward(k)
  <2>1. PICK j, job : j = run[r].job /\ job = run[r].result
    OBVIOUS
  <2>2. Writes(j, job) /\ run[r].at = "settle"
    BY <1>5, <2>1 DEF PutResult, Writes, PutFails
  <2>3. j \in Jobs /\ j \in LiveJobs /\ job \in CashOutJob /\ AtSettle(j, job)
    BY <2>1, <2>2, AtWork DEF Works
  <2> QED BY <2>2, <2>3, WriteGoesForward DEF AtSettle
<1>6. ASSUME NEW j \in Jobs, Clock(j) PROVE \A k \in Jobs : GoesForward(k)
  <2>1. CASE HoldEnds(j) \/ GoesStale(j)
    <3>1. PICK job : /\ job \in {[record[j] EXCEPT !.held = FALSE],
                                 [record[j] EXCEPT !.fresh = FALSE]}
                     /\ record' = [record EXCEPT ![j] = job]
      BY <2>1 DEF HoldEnds, GoesStale, IInv, TypeOK
    <3>2. /\ j \in LiveJobs /\ RecordFits(j) /\ record[j] \in CashOutJob
      BY <2>1 DEF HoldEnds, GoesStale, IInv, TypeOK
    <3>3. job \in CashOutJob /\ Alike(job, record[j])
      BY <3>1, <3>2, TimesShape
    <3> QED BY <3>1, <3>2, <3>3 DEF GoesForward, RecordFits, NotScheduledIfOut, Alike, IInv, TypeOK
  <2>2. CASE ~(HoldEnds(j) \/ GoesStale(j))
    <3>1. UNCHANGED record
      BY <1>6, <2>2 DEF Clock, LockLapses, ComesDue, ComesOverdue, ComesGasOverdue, storeVars
    <3> QED BY <1>1, <3>1
  <2> QED BY <2>1, <2>2
<1>7. ASSUME NEW j \in Jobs, Ask(j) \/ OtherJob(j) \/ ReplaceJobProof(j)
                             \/ Land(j) \/ Drop(j) \/ RootLost(j)
      PROVE UNCHANGED record
  BY <1>7 DEF Ask, OtherJob, ReplaceJobProof, Land, Drop, RootLost, storeVars
<1>8. ASSUME NEW r \in Runners, ReadJob(r) \/ ReadChain(r) \/ GasCheck(r) \/ Send(r)
                                \/ Crash(r) \/ \E j \in Jobs : Take(r, j)
      PROVE UNCHANGED record
  BY <1>8 DEF ReadJob, ReadChain, GasCheck, Send, Crash, Take, storeVars
<1>9. SpendElsewhere => UNCHANGED record
  BY DEF SpendElsewhere, storeVars
<1> QED
  BY <1>1, <1>2, <1>3, <1>4, <1>5, <1>6, <1>7, <1>8, <1>9 DEF Next, RunStep

(* A job that is over stays as it ended, and one that may be out never     *)
(* waits again, where it could be cancelled or said to have failed.        *)
THEOREM NeverGoesBack == Spec => NoWayBack
<1> DEFINE Forward ==
      \A j \in Jobs :
        /\ Status(j) # "none" /\ j \notin LiveJobs => record'[j] = record[j]
        /\ record[j].maybeSent => Status(j)' # "scheduled"
<1>1. IInv /\ [Next]_vars => [Forward]_vars
  <2> SUFFICES ASSUME IInv, Next, NEW j \in Jobs
               PROVE  /\ Status(j) # "none" /\ j \notin LiveJobs => record'[j] = record[j]
                      /\ record[j].maybeSent => record'[j].status # "scheduled"
    BY DEF Status
  <2>1. GoesForward(j) /\ RecordFits(j)
    BY NextGoesForward DEF IInv
  <2> QED BY <2>1, NewJobShape DEF GoesForward, RecordFits, NotScheduledIfOut, Status
<1> QED BY <1>1, InvHolds, PTL DEF Spec, NoWayBack
=============================================================================
