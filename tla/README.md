# Gloam: a TLA+ verification project

Gloam is a private payments system. People deposit into a vault contract, hold
notes that only they can spend, send and cash out privately with zero knowledge
proofs, and let a relay pay the gas so that no wallet of theirs shows on chain.
This directory holds TLA+ models of the parts where money can be lost, made or
stuck, the TLC runs that check them and the TLAPS proofs about them. Paths below
are relative to `src/`; `CORE` is `contracts/src/ShieldPoolCore.sol`, `relay/` is
`app/src/lib/relay/`, `SWAP2` is `contracts/src/GloamVaultSwap2.sol`, `store` is
`mcp/src/noteStore.ts`, `server` (of the agent) is `mcp/src/server.ts`.

## 1. Inventory

### Vault ledger
*Code.* `ShieldPoolCore.sol`, `ShieldPoolPayments.sol`,
`lib/IncrementalMerkleTreePoseidon.sol`, circuits `shield`, `transfer`, `unshield`.
*State.* The Merkle tree and every root it ever had, accepted commitments, used
nullifiers, per asset `deposited`, `feesOwed` and the token balance; the rules
(two verifiers, limits, fee).
*Operations.* `shieldBound`, `transfer`, `unshield`, `collectFees`,
`sweepStrayNative`, plain payments into the contract, the setter bodies.
*Interactions.* Circuits say what a proof establishes; tokens are called for each
pull and push; governance changes the rules between any two calls.
*Hard.* Value is conserved only across three functions and three circuits; proofs
are made against old roots; fees are rounded; rules move under open notes.
*Correct when* the recorded backing equals the unspent notes, the contract is
solvent with fees on top, every note stays redeemable.

### Vault governance
*Code.* `lib/ChangeTimelock.sol`, the setters and owner of `CORE`,
`VaultOwnerGuard.sol`.
*State.* `setupMode`, an eta per queued call, owner and pending owner, the guard's
controller and pending controller, block time.
*Operations.* direct setters (setup), queue / execute / cancel, lowering a limit or
fee at once, ending setup, two-step ownership, the guard's filtered forwards.
*Hard.* Entries that expire and are queued again; changes queued before the guard
came; an open ownership offer when the guard accepts.
*Correct when* a live vault's rules only loosen after three days of notice, a
guarded vault can never change its proof checkers or owner, setup ends only wired.

### Scheduled cash out
*Code.* `relay/scheduled.ts`, `relay/scheduledStore.ts`, the two routes under
`app/src/app/api/relay/scheduled/`.
*State.* In Redis a record per job, a due queue, a pointer per spend, a lock per
job; in each cron invocation what it has read; on chain the copies it sent.
*Operations.* schedule, cancel, replace the proof, take due jobs, look at the chain
and gas, mark, send, settle.
*Hard.* Overlapping cron runs; requests racing for a spend's pointer; a `put` of
three Redis commands; a function dying between the mark and the send; unknown
outcomes; deadlines for giving up and for waiting for gas.
*Correct when* no job is called unsent while its money may move, a spend has one
live job, no live job drops out of the queue, due jobs end, landed ones say so.

### Relay send path
*Code.* `submitSpend` and `submit` in `relay/server.ts`, `relay/inflight.ts`.
*State.* The in-flight key of a spend (token, TTL), each request's position, its
transaction at the node.
*Hard.* Lost answers, crashes, retries, a key that expires under a slow transaction.
*Correct when* of the sends whose key has not run out over them at most one is out, the
relay pays for no copy that another of them beat, and nothing stays locked for good.

### Agent spending limits
*Code.* `mcp/src/fileLock.ts`, `spendLog.ts`, `spendGuard.ts`, the caps of `policy.ts`,
and how the paying tools of `mcp/src/server.ts`, `swaps.ts` and `x402Cashout.ts` settle.
*State.* A JSON log with one entry per spend, a lock file beside it, each call's
payment.
*Operations.* check and reserve, pay, settle, drop old entries.
*Hard.* Several server processes share one log; a lock file outlives a dead process;
answers to sends are lost; a full log drops entries; a refused or reverted send may still
land, since its proof stays valid.
*Correct when* in every rolling day what moved or may still move, as far as the agent was
told, stays within the cap and keeps counting.

### Private swap routers and escrows
*Code.* `SWAP2` with the pools of `GloamVaultSwapV4c.sol` and `SwapEscrow2.sol`.
*State.* Per swap an escrow address (a hash of everything the swap must do), what it
holds and whether it was opened; the router's and the treasury's balances; the pool
list with its delay.
*Operations.* `swap` (of a note still in the vault, or as the refund of one that is
not), `exit`, the pool list; around it anyone may send the swap's unshield alone, send
stray money, spend the note elsewhere, and the vault may change its fee.
*Interactions.* The vault pays escrows and takes the new note or the refund note; the
pools ask and give what they like; the treasury may refuse a sweep.
*Hard.* Two ways out of an escrow that opens once; proofs that strangers may send;
strays and leftovers beside the money of a swap.
*Correct when* a note becomes the new note, or waits and leaves once, or nothing
happened; no note can be paid to an opened escrow; nobody's leftovers are spent.

### Agent server: note store, swaps and payments
*Code.* `store`, `mcp/src/swaps.ts`, the paying and listing tools of `server`,
`readSwapOutcome` of `packages/sdk/src/swapIntent.ts`.
*State.* A file of notes with a status each (`unspent`, `pending`, `dead`, `spent`,
held for a move), swap records, and one `PaymentAttempt` per purchase.
*Operations.* reserve a note, keep the new notes before the send, send, read the
outcome, write it, refresh, finish a swap, move a held note; claim a purchase, look
what became of its sends, mark a send, close.
*Hard.* Every write may fail and the process may die between two of them; a proof the
relay refused, or whose transaction reverted, stays good; outcomes are read at one moment
and written at a later one; retries take a purchase over from calls that are dead, slow or
still about to send. *Correct when* no secret of a note that may come to hold value is
dropped, balances are real, the value is found again, a purchase is paid once.

### Parts not modelled yet
| part | state and operations | hard | what would make it correct |
|---|---|---|---|
| Send lanes and nonces (`inflight.ts` 218-316) | a lock and a kept nonce per relay account | the lane outliving or outlived by its send, memory against Redis | one nonce per send, no gap for good |
| Spend cap holds (`server.ts` 907-975) | counters per account and asset | a failure between two counters | a hold is given back once or kept |
| Notices and job sealing | an outbox field of a record, a sealed proof | a notice taken from a stale result | each status is told once |
| The selling side of the agent server (`claimSettle`, sweeps) | claims on payments received | claims taken over from the dead | a payment is served once |
| Client flows (`cashOutLater`, `cashOutSplit`, `claimSweep`, `treeSync`, `noteVault`) | browser storage | interrupted sequences, reorganisations | no note forgotten while it holds value |

User interface, brand assets, key-value bookkeeping (votes, partners, updates), the
disclosure circuits, legacy pools and the SDK's encoding are out of scope: pure
input and output, no state the money depends on, or superseded.

## 2. The modules

| module | is | composes |
|---|---|---|
| `VaultRules` | a vault's rules and the setter bodies, with no word on who calls them | |
| `Vault` | the ledger under any rule change `VaultRules` allows | `VaultRules` |
| `VaultGovernance` | who may call a setter and when | `VaultRules` |
| `ScheduledCashOut` | the jobs of one spend, runners, requests, clock, store faults, chain | |
| `RelaySend` | the requests for one spend, its lock, node and chain | |
| `SpendLog` | the calls that spend, in server processes of their own, their lock file and log | |
| `SwapPromise` | what a swap of a note promises its holder: the abstract specification | |
| `SwapEscrow` | the router, its escrows and its pool list | implements `SwapPromise` |
| `AgentSwap` | the agent server's swaps and private sends of one note, its store, the chain | uses `SwapPromise` |
| `NotePayments` | the calls for one purchase, the notes that can pay, the record | |
| `VaultProofs`, `VaultGovernanceProofs`, `ScheduledCashOutProofs`, `RelaySendProofs`, `SpendLogProofs`, `SwapEscrowProofs`, `AgentSwapProofs`, `NotePaymentsProofs` | theorems | the module named |
| `MC*` | symmetry, constant values and narrowed starts for TLC | the module named |

**How they compose.** `VaultRules!RulesSpec` is the abstract specification of
governance: rules change at any moment, but only through the setter bodies. `Vault`
runs under it; `VaultGovernance` implements it (run `governance`, theorem
`GovernanceKeepsToTheRules`), so what holds of the money under `RulesSpec` holds
under the timelock and the guard. `ScheduledCashOut`'s `Send` takes from
`submitSpend` only its outcomes: a hash, unknown, refused; `RelaySend` opens that
step up. `SwapEscrow` implements `SwapPromise` (`KeepsPromise`, in run `swap_escrow` and
as a theorem), and `AgentSwap` takes the promise's steps as what the chain may do to a
swap: what it shows of the agent server holds over the router.

**Vault.** A commitment is its opening `[secret, amount, asset]` and a nullifier is
named by its note: Poseidon is taken to be collision free. Root `r` is the first `r`
leaves, because `isKnownRoot` never forgets. A proof is accepted exactly when its
circuit's constraints hold. A call is one step (`nonReentrant`, and a revert undoes
it). `balance` is what the token reports; paying the vault itself is legal and leaves
it unchanged. The fee is computed by the two-part division of `_withdrawFee`.

**VaultGovernance.** `now` is block time. A queued change is its ABI-encoded call, here a
record, so that equal calls share an eta as equal ids do. `announced` is a history
variable: since when users have seen a call pending. It is kept apart from the eta: a live
call that were queued again would move the eta and not `announced`. Guard actions are the
vault's actions with `GUARD` as sender, under the controller's filter. `Apply` can fail
(fee cap, a second deposit verifier): then `executeChange` reverts and is no step.

**ScheduledCashOut.** Numbers the code compares become what the comparison says:
`due`, `overdue` (the give-up), `gasOverdue`, `held` (`notBefore`), `fresh`
(`SENDING_STALE_MS`), `tried` (`attempts > 0`). One step of a runner is one awaited
call: read the record, read the chain, check gas, mark, send, put the result. `put`'s
three commands are one step that may fail after the first. Cancel and proof
replacement run under the same job lock. Only the code's flags decide; the model's
`pending` and `spentBy` are the world the code cannot see.

**RelaySend.** One step per Redis command, RPC call or receipt poll. `lock` holds the
request whose token the key carries, `Release` deletes only one's own token. `Expire` is
the 180 s of `SET NX EX` (`inflight.ts:37`, 160): wall clock, whatever the transaction
does, but longer than a request lives. `outlived` is a history variable: the sends that
were still pending when their key ran out. This is finding 4. `RpcErrorMayBeTaken` says
whether the node can take a send it answered with an error; the code treats it both ways,
so both are run.

**SpendLog.** One step is one file operation: open the lock file, find it old, remove it,
read the log, write it, leave. A call that waited may give up at any moment (the 200
tries). Any process may die at any moment, which leaves its lock file behind; a live
holder is out long before its file is ten seconds old. `Settle` takes any outcome the
paying tools can give for what became of the transaction: `failed` when it was not sent or
the relay refused it, `reverted` or `sent` by its receipt, `unconfirmed` for every doubt.
`LandsLate` is the proof of a refused or reverted send landing after all. Its entry does
not count any more: finding 5. The checks of `checkSpend` other than the caps only refuse
more and are left out.

**SwapEscrow.** An escrow's address is a hash of its whole key, so an escrow is named by
its swap, and a proof that binds `to` pays this escrow only. `spentTo` says where each
note's money went. `Swap`'s inputs are what the pools asked and gave, within what
`unlockCallback` and `_buy` accept; `takes` is the set of assets the treasury accepts. A
reverted call is no step, so a vault that is full or paused is a step not taken; fairness
is only of `Exit`, which depends on neither. The vault's fee is a share of the amount in
the source and one number here; it may move before every step, so each unshield meets each
fee it could. Stray tokens at an escrow that was opened stay there and are not counted.
`exit` is signed by the swap's own key: the model lets it happen at any moment, to any
address.

**AgentSwap.** One note, with the calls that may spend it: swaps, and private sends (a
split, a payment, the move of a note a reverted swap left held). A send "seen" is one the
relay refused or never answered, or one the network has forgotten (`Drops`): whoever has
seen the proofs may still send them. One that reverted may land by another copy as well,
and its hash stays reverted. A note is taken as never spent (`NeverShown`) only once the
node does not know its send (`server.ts:860`). `look` is an outcome that was read and not
yet written, by the call or by a later tool. The writes of one handler are one step of
which any subset may be lost, at the price of a fault: that is `tryStore` failing, and a
crash between two writes. `reserveForSpend` leaves the old `spentTx`, as the code does.

**NotePayments.** One purchase, asked for by several calls. Each store operation is
atomic under the file lock (taken to work here; finding 1 is about when it does not). `once`
says whether the purchase is an MPP challenge. A landed send may be unknown to a lagging
node (`behind`): each read then may show it or not. `recent` says that a payment note is
less than `STUCK_MS` old. `heard` counts the records dropped because the answer arrived:
what may rightly be paid again. A payment is made when its note's spend is its own
(`Landed`), whichever copy did it: a send that was refused or reverted can still land.

## 3. The runs

| run | properties | shows |
|---|---|---|
| `vault_rules` | `TypeOK` `BackingIsExact` `Solvent` `NoteRedeemable` | one asset, three secrets, three leaves, every rule moving at every moment |
| `governance` | `GuardedVaultIsClosed` `LiveVaultIsWired` `RulesSpec` `NoticeBeforeChange` `GuardIsOneWay` | two accounts, five calls, one of which the body must refuse; entries that mature, run, expire and are queued again, none of which is moved while it is live; governance implements `VaultRules` |
| `scheduled` | `TypeOK` `NeverUnsentOnAGuess` `OneLiveJobPerSpend` `LiveJobIsQueued` `NoWayBack` | two runners with one request and three faults, or with two requests and one fault; three requests racing for one pointer where nothing fails and one runner at a time is busy |
| `scheduled_live` | `DueJobEnds` `LandedIsRecorded` | one job, two runners, three faults, fair cron and clock |
| `relay_send` | `TypeOK` `AtMostOneSendOut` `NoPaidCopy` `LockOutlivesSend` `SpendIsFreed` | three requests, lost answers, crashes, keys that run out also over a pending transaction, fair scheduling |
| `relay_send_rpc` | `AtMostOneSendOut`, violated | finding 2 |
| `spend_log` | `TypeOK` `CallsTakeTurns` `DailyCapHolds` `MovingIsCounted` | two spends and a swap's exit in two processes, each of which may die anywhere, over two days of history, with refused and reverted sends that land late |
| `spend_log_stale` | `DailyCapHolds`, violated | finding 1 |
| `swap_escrow` | `TypeOK` `NoNoteToADeadEscrow` `StraysAreNeverSpent` `WaitingMoneyLeaves` `KeepsPromise` | two swaps of one note and one of another, in opposite directions, prices, fee, pool list, strays and a treasury that refuses; the router implements `SwapPromise` |
| `agent_swap` | `TypeOK` `NoSecretIsForgotten` `BalanceIsReal` `ValueIsFound` `NoteIsFreed` | a swap and a private send of one note with a fault anywhere, sends the network drops, reverted ones that land by another copy |
| `note_payments` | `TypeOK` `PaidOnce` `SendsAreOnRecord` `KnownMeansLanded` | calls taking one purchase over from each other, two notes to pay from; nodes that lag, or sends that land late, refused and reverted ones included |
| `note_payments_lag` | `PaidOnce`, violated | finding 3 |

**Bounds and why they are enough.**
* `MaxAmount = 2`: a note can be split into unequal and zero parts. `BPS = 4` with a
  cap of 2 stands for 10 000 and 100: the fee rounds on amounts of 1 and 2 (both parts
  of the division are exercised) and can be half a note, so an error in the split is
  worth a whole unit.
* Three leaves: a deposit and a send of it (two leaves), or three deposits, give old
  roots, spent notes, change and foreign deposits; the tree also fills. `MaxBalance = 2`
  bounds stray money. One asset: that no asset's notes are paid with another's, and
  longer chains, are left to the theorems of section 5, which remove all these bounds.
* `CHANGE_DELAY = 1`, `CHANGE_GRACE = 0`, `MaxTime = 3`: room to queue, mature, run or
  miss the grace, and queue again. The proofs remove them.
* `MaxFaults` counts crashes, lost store commands, unreadable chains and lost roots: three
  with one job, where a fault can hit the recovery of the recovery of a fault, one with
  two. Lock releases that do not reach Redis are free.
* Three jobs are what it takes for the pointer to move between `scheduleJob`'s read and
  its second try; two runners what it takes to race a run.
* Three requests: one whose key lapses while it is pending, or that reverts or is dropped,
  one that takes the lapsed lock, one that races or retries.
* Spends of 2 under a cap of 3: one fits and two do not. `DAY = 1`, `KEEP = 2` and a
  clock up to 2: entries leave the window, stop counting and leave the log.
  `KEEP_MAX = 1`: the log is full at the second entry. One waiter behind a dead process
  keeps the caps, two do not.

* `swap_escrow`: amounts of 2 with a fee of up to 1, refunds of 1 (covered by any fee) and
  of 2 (uncovered once the fee rises), one stray unit per place; the swap of the other note
  trades the other way, so each swap's output asset is the other's input. `SwapEscrowProofs`
  removes these bounds from everything but `WaitingMoneyLeaves`.
* `agent_swap`: one swap, one send, one fault, each of which may be a crash, a lost write,
  a refusal or a revert; two calls are what one note's reservation needs to be contended.
* `note_payments`: two calls with a fault over either network, a third call where nothing
  fails: three is what it takes for a call to lose a purchase to a second that loses it to
  a third. That a network is both behind and late at once is the run that fails.

Deadlock is not checked: every one of these systems may rightly stop (a full tree, the
end of the modelled clock, all requests answered).

## 4. Fairness

Only the four runs with a liveness property assume any.
* `scheduled_live`: the cron comes every minute and takes a due job that is free (weak
  fairness of `Take` per job; a batch is ordered by due time, so no job is passed over
  for ever); a function that does not die runs on (`RunStep`; it may take the gas or
  chain-refusal branch every time); time passes. No fairness is assumed of the chain:
  a pending copy may stay pending for ever, and people need not do anything. Faults
  are finite by `MaxFaults`: a store that is down for ever makes no promise.
* `relay_send`: a live request runs on and Redis expires keys. Nothing is assumed of the
  chain: a transaction may be pending for ever.
* `swap_escrow`: the holder of an exit key sends the exit of money that waits (weak
  fairness of `Exit`). Nothing is assumed of the relay, the pools or the vault.
* `agent_swap`: a running call goes on unless it dies or fails, the agent keeps calling
  `gloam_list_notes` with refresh, and finishes a swap whose money waits. Looks of one
  swap exclude each other in the model, hence strong fairness of `Looks`. Nothing is
  assumed of the chain: a send that is out may stay out for ever, and then its note stays
  reserved, which `NoteIsFreed` allows when the store has the send's hash.

Two facts about time are built into the steps rather than assumed as fairness: a job's
lock (90 s) outlives its function (60 s), and the in-flight key (180 s) outlives its
request (60 s), so a lock lapses only when its holder has died or ended. How long a
*transaction* is pending is not bounded by either.

## 5. What is proved

All theorems are checked by TLAPS for every value of the constants allowed by the
modules' `ASSUME`s (which TLC evaluates in the runs).

*Vault* (`VaultProofs`). `IInv` = types, `TreeIsSeen` (tree, accepted and spent notes
agree), `FiniteUnits`, `BackingIsExact`, `Solvent`. Backing alone is not inductive:
without `TreeIsSeen` a note could be spent before it entered, and a proof against any
old root would take out value nobody put in. The value of a set of notes is a number of
*units* (pairs of note and ordinal), so adding and removing a note is adding and
removing a finite set: that replaces a sum by recursion, and lets the cardinality
theorems carry the argument. `TypeCorrect`, `BackingStaysExact`, `StaysSolvent`,
and `NotesStayRedeemable` (a note is worth no more than all notes, which is what is
recorded, which the vault holds) follow from it.

*Governance* (`VaultGovernanceProofs`). Steps are split into core actions taken by an
account or by the guard, each argued once. `IInv` = types, `EtaIsThePublishedOne` (an
eta is its announcement plus the delay), `GuardedVaultIsClosed`, `LiveVaultIsWired`.
`NoticeBeforeChange` needs the first strengthening, `GuardIsOneWay` the second: the
guard stays owner because no offer is open when it comes and it can make none. The
refinement `GovernanceKeepsToTheRules` is step simulation with the identity mapping.

*Relay* (`RelaySendProofs`). Under the assumption that a refused send was not taken:
`IInv` = types (whoever is before or at its send holds the key), `NothingSentYet`,
`LockOutlivesSend`, `SendsUnspent`, `NoPaidCopy`. They are about the sends *in time*:
those whose key has not run out while they were pending (`outlived` names the others,
which no key can hold back, finding 4). What the key then promises is that nothing but its
180 s ends it under a send that may land: no refusal, retry, crash, lost answer or late
release of another request. `NoPaidCopy` needs `SendsUnspent`: between the last check and
the send no *other request* in time can spend the note, because it would need the key.
`OneSendOut` is then the uniqueness of the key's holder. Without the assumption the
statement is false (run `relay_send_rpc`). `TypeCorrect` needs no assumption: its last
part says that whoever is before or at its send holds the key.

*Swaps* (`SwapEscrowProofs`). `IInv` = types, `NoNoteToADeadEscrow`, `EndedIsOpened` (an
escrow is open exactly when its swap has an event), `WaitingIsHeld` (a note's money sent
to a closed escrow is still there). The first needs nothing else once types are known;
the promise needs the other two: a refund or an exit is a step of `SwapPromise` because
the escrow was closed, hence its swap had no event. `StraysAreSafe` is an action property:
each call adds to the router before it sweeps, and a sweep moves and loses nothing.
`MoneyCanAlwaysLeave` says that the guard of `exit` holds as long as money waits, which
with the fairness of `Exit` is `WaitingMoneyLeaves`. `RouterKeepsThePromise` is step
simulation under the refinement mapping `Fate`. `SwapAssumption` asks that a note is worth
more than the largest fee: the vault's cap is 1% of the amount.

*Payments* (`NotePaymentsProofs`). Assumed: a network is behind or late, not both
(`NotBoth`; with both the claim is false, run `note_payments_lag`), and calls and notes
are finite. A send is *stopped* when its note was spent by something else: it can never
land. Two sends *agree* when they pay from one note or one of them is stopped; of sends
that agree one can land at most. `IInv` = types, `KnownMeansLanded` and: `OneNote` (the
sends on the record agree), `HolderAgrees` (what the holder read is the whole record, and
the note it is about to pay from agrees with every send there), `OpenIsOnRecord` (a send
that can still land, a refused or reverted one too, is on the record), `ReadIsSpent`,
`BehindIsRecent` (a spend some node does not show is of a recent payment note),
`HeardIsCounted` (a payment that landed and left the record was heard of), and where each
call's note and send stand (`Placed`, `Recorded`). The step that needs them all is
`ReadPaymentsAgrees`: a retry goes to any note only when all sends are read as spent,
unseen and not recent, so none of them is the spender; else to the one note of those not
stopped. The record is dropped only with no send on it or with a payment that was heard
of, and `OneLands` says that one landed at most, so the count of landed payments keeps up
with the answers heard (`PaysOnce`).

*Scheduled cash outs* (`ScheduledCashOutProofs`). `IInv` = types (a runner at a job holds
its lock), `StoreFits` (the live jobs are in the queue and under the pointer, and both name
only jobs that were made), `RecordFits` (a job that landed says sending or sent, and so does
one that is pending, or its root is gone; one that may be out is not scheduled), `AskedOnce`
(a request that has not ended has no record, and the job it would replace is over) and
`Works`: what a runner has read agrees with the record in all but its times, the job it is
at is live, and what it is about to write fits the chain. The lock is what makes `Works`
inductive: the only writer of a live record is the runner at it. It gives `OneLiveJob` and
`LiveJobStaysQueued`, after every store command and not only after a whole `put`,
`NeverUnsent`, and the action property `NeverGoesBack`.

*Agent swaps* (`AgentSwapProofs`). `IInv` = types, `SentLater` and `SwapKept`/`SendKept`
(a call stores its notes before its transaction is seen, and nothing of a swap or send is
on the chain before that), `SwapReal`/`SendReal`/`InputReal` (what is shown spendable is
in the vault, what is written off is spent) and `LookTrue`: an outcome that was read and
not yet written is still true when it is, in what it says of money: a swap read as landed,
refunded, waiting or closed stays so. A swap read as reverted, expired or pending may
still land by another copy, and writing that late only marks notes dead, which a later
refresh wakes, or frees a note, which one writes off. That is what makes a late write
harmless. A note is kept as long as a copy of its send, reverted ones included, could
still land. `SecretsAreKept` and `BalanceStaysReal` follow for any number of swaps and
sends of one note. `AgentSwapAssumption` says that a swap is not a send, and that `None`
names no call.

*Spending limits* (`SpendLogProofs`). The types hold always. The rest is false as soon as
three processes use one log (finding 1, run `spend_log_stale`), and is proved in two ways.
For any number of processes it holds of every behaviour in which no lock file is cleared
that is in use (`[][ClearsNoneInUse]_vars`): for money that moves as the agent was told,
that step of `withFileLock` is the only way over the cap, and what a repair has to rule
out. A send that lands after it was refused or reverted is the other way (finding 5); the
properties name it and leave it out. And `TwoServersClearSafely`: at most two processes
(`AtMostTwoServers`) never take it, because the one whose old file is cleared is dead and
the other, which clears, runs one call at a time in the lock; so all of it holds for two
without condition (`TwoServersKeepAll`). `IInv` = types, `LockFits` (a call inside has its
lock file; a file whose maker is not inside was left by a dead process; only such a file
gets old, and only then is a call about to clear it), `CallFits` (a call reserves before
it sends and at most a tick after it began; what it read is still the log when it writes;
a result settled on is none that frees money still out), `EntryFits` (all money that moved
or may move in the last two days has a counting entry, stamped when its call began) and
`CapFits` (each day's such money is within the cap). A reservation keeps `CapFits` because
what a rolling day holds is within the window the check reads: `KEEP >= 2 * DAY` and a
wait of a tick at most are needed there, and pruning must keep what still counts. `Spend`
is a sum over a set by the community modules' fold. Its laws (it is a number, any call's
amount can be taken out first, more calls spend no less) are proved from its definition:
the fold exists and is unique because of any sets of calls one is smallest (`SmallestSet`,
from the library's theorem that strict inclusion of finite sets is well founded), which
does the work of an induction.

**Only model-checked.** Liveness (`DueJobEnds`, `LandedIsRecorded`, `SpendIsFreed`,
`WaitingMoneyLeaves`, `ValueIsFound`, `NoteIsFreed`), as fairness and `ENABLED` are beyond
the prover. Every invariant, action property and refinement of the passing runs is stated
by a theorem. Of these, some hold under an assumption that a run of its own shows to be
needed: what a refused send means (`relay_send_rpc`), that no lock in use is cleared
(`spend_log_stale`), and a network that is not both behind and late (`note_payments_lag`).

## 6. Findings

1. **A stale lock file lets two processes in.** `withFileLock` removes a lock file it
   found old by its path (`mcp/src/fileLock.ts:26`). Of two waiters that both found a
   dead process's file old, the slower removes the lock the faster has just taken; both
   check the log at once and the later write drops the earlier reservation, so "two calls
   at once cannot both squeeze under the daily limit" (`spendLog.ts:4-6`) fails.
2. **A refused send may be out with its lock gone.** `explain` (`server.ts:637-638`) says
   an unexplained error "may still have been taken, so callers treat it as maybe sent",
   and `inflight.ts:24-25` that "a send whose outcome is unknown never drops" the lock.
   `submit` keeps only the cap holds for `rpc` (1099); the lock is released, and a second
   copy can be out beside the first.
3. **A retry can pay twice.** `sendsOutcome` (`mcp/src/server.ts:1651-1657`) takes an earlier
   send as stopped when its note reads spent, its payment unseen and its payment note is
   more than ten minutes old. The ten minutes run from the note's creation: if the send
   lands after them, and the first read comes from a node that has its block and the second
   from one that has not, the retry pays from another note, although the tool says "a call
   whose answer never arrived is not paid twice" (1805). With either half of the condition
   alone the purchase is paid once (`note_payments`).

Two more were read from the code, and no run is spent on them: the models have both steps,
and the properties say what holds beside them.

4. **A second copy can go out beside a slow one.** The in-flight key lives for 180 s
   (`relay/inflight.ts:37`). The header says that once a transaction is out the lock stays until it
   expires, and "by then the spend has landed" (20-21), with two testnets in mind (30-36).
   The relay also serves Ethereum (`relay/server.ts:857`) with a capped fee (1138-1152), where a
   transaction can be pending for longer; then a second copy passes the dry run and is sent,
   and one of the two reverts at the relay's expense. In `RelaySend` this is an `Expire` that
   adds to `outlived`, followed by another request's send.
5. **Money can move after its entry stopped counting.** `spendLog.ts:7-9` calls an entry
   "failed" when "nothing moved" and does not count "reverted" ones. The agent settles
   `failed` after a relay refusal, where it says itself that the proof "stays valid until the
   note is spent" (`mcp/src/server.ts:1537`), and `reverted` for a copy whose first copy
   may still land (1432-1434). What lands then comes on top of the day's cap. In `SpendLog`
   this is `LandsLate`.

Two disagreements in `relay/scheduled.ts` were read from the code; no run is spent on them,
as each restates one guard. The header (39-41) says a job whose gas is too dear "waits,
still scheduled and still cancellable", but `cancelJob` (577) refuses every job with
`attempts > 0`, and attempts stay when a passing refusal is followed by dear gas. And
`sent` is documented as "The relay sent it (hash set)" (115), but after a run that died
between the mark and the send, a spend of the note elsewhere makes the next run write
`sent` (479) with no hash.

## 7. Limits of the models

* Cryptography: hashes are injective, verifiers sound and complete for their circuits.
  A faulty verifier contract is outside.
* Tokens: exact transfers (the contract rejects others), no rebasing, no callbacks.
* `uint256` overflow: `deposited` cannot reach it with 128-bit amounts and 2^20 leaves;
  the fee formula is written so it cannot. Integers are therefore unbounded.
* `ScheduledCashOut`: notices, sealing and TTLs of records and pointers are left out
  (TTLs outlast the longest life of a job). A chain read is consistent; a node that
  lags is a fault, not an answer.
* `RelaySend`: one relay account; lanes, nonces and cap holds are separate parts. The
  properties are about sends whose key has not run out over them (finding 4).
* `SpendLog`: one asset of one agent; the limits do not change; a damaged log (which
  stops all spending) and one that cannot be written are left out. The cap is stated of what
  moved or may move as the agent was told (finding 5).
* `SwapEscrow`: signatures and addresses of an exit, the conversions of a route between
  pools (a route is what it asks and gives), the owner who manages the pool list, the
  Tempo router and the first version of the router are left out.
* `AgentSwap`: one note; the route, prices and spending limits of a swap are elsewhere;
  `gloam_finish_swap` compares with the record as it is when it writes. Time enters as
  the deadline and as "long idle", read only while no call on the note runs.
* `NotePayments`: a call makes at most one send; the change of a payment, the answers kept
  for callers that were not heard and the selling side are left out.

## 8. Plan

1. An ideal ledger (the unspent notes) that `Vault` implements, with its proof.
2. `SendLane`: lanes, kept nonce in Redis and memory, lost lanes; one nonce per send.
3. `SpendHolds`: the counters a send takes and gives back, joined with `RelaySend`'s
   outcomes.
4. The selling side of the agent server: `claimSettle`, served payments, sweeps.
5. Notices of `ScheduledCashOut`.
6. Client flows: `cashOutLater`, `cashOutSplit`, `claimSweep`, `treeSync`.
