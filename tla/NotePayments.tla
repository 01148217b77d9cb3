---------------------------- MODULE NotePayments ----------------------------
(***************************************************************************)
(* One purchase of the agent server, asked for by several calls (retries   *)
(* of an answer that never came, calls at once, in one process or several):*)
(* claimPayment / markSend / closePayment of mcp/src/noteStore.ts, and     *)
(* payOnce, sendsOutcome and payPrivately of mcp/src/server.ts.  A call    *)
(* makes at most one send, so the payment note it makes is named by it.    *)
(* Each operation of the store is atomic: it runs under the file lock.     *)
(***************************************************************************)
EXTENDS Integers, FiniteSets

CONSTANTS
  Calls, Notes, None,
  Other,      \* what spends a note for another purchase
  Worlds,     \* the networks checked: sets of "lag" and "late"
  MaxFaults   \* bound on crashes, lost writes, refused, unclear and reverted sends

VARIABLES
  world,    \* "lag": a node may be behind; "late": a send may land after ten minutes
  once,     \* whether the purchase is a challenge, paid once
  spentBy,  \* chain: what spent each note
  tx,       \* what the relay and the chain have of each call's own transaction
  behind,   \* sends that landed and that some node does not show yet
  recent,   \* calls whose payment note is less than ten minutes old
  note,     \* store: status of the notes that can pay
  spentTx,  \* store: the send each note was last shown to be in
  payment,  \* store: status of each call's payment note
  record,   \* store: the PaymentAttempt, or None
  pc, from, \* where each call is, and the note it pays from (None: any)
  asked,    \* the sends a call found on the record when it took it over
  open,     \* those of them it has read as not yet stopped by a spend
  gone,     \* calls whose process died
  heard,    \* how many times the record went with an answer that arrived
  faults

chainVars == <<world, once, spentBy, tx, behind, recent>>
noteVars == <<note, spentTx, payment>>
callVars == <<pc, from, asked, open, gone>>
vars == <<chainVars, noteVars, record, callVars, heard, faults>>

PaymentAttempt == [by : Calls, sends : SUBSET Calls, closed : BOOLEAN, retried : BOOLEAN]

ASSUME PaymentAssumption ==
  /\ IsFiniteSet(Calls) /\ IsFiniteSet(Notes)
  /\ None \notin Calls \cup Notes \cup PaymentAttempt \cup {Other}
  /\ Other \notin Calls
  /\ MaxFaults \in Nat

(* A call's payment is made when its note's spend is its own, whichever    *)
(* copy of its transaction did it.                                         *)
Landed(c) == \E n \in Notes : spentBy[n] = c

TypeOK ==
  /\ world \in Worlds /\ once \in BOOLEAN
  /\ spentBy \in [Notes -> Calls \cup {None, Other}]
  /\ tx \in [Calls -> {"unsent", "seen", "out", "reverted", "landed"}]
  /\ behind \subseteq {c \in Calls : Landed(c)}
  /\ recent \subseteq Calls
  /\ note \in [Notes -> {"unspent", "pending", "spent"}]
  /\ spentTx \in [Notes -> Calls \cup {None}]
  /\ payment \in [Calls -> {"absent", "pending", "dead", "spent"}]
  /\ record \in PaymentAttempt \cup {None}
  /\ pc \in [Calls -> {"off", "asking", "reading", "paying", "reserved", "marked", "sent",
                       "found", "failed", "over"}]
  /\ from \in [Calls -> Notes \cup {None}]
  /\ asked \in [Calls -> SUBSET Calls]
  /\ open \in [Calls -> SUBSET Calls]
  /\ gone \subseteq Calls
  /\ heard \in Nat
  /\ faults \in 0..MaxFaults

Init ==
  /\ world \in Worlds /\ once \in BOOLEAN
  /\ spentBy = [n \in Notes |-> None]
  /\ tx = [c \in Calls |-> "unsent"]
  /\ behind = {} /\ recent = {} /\ gone = {}
  /\ note = [n \in Notes |-> "unspent"]
  /\ spentTx = [n \in Notes |-> None]
  /\ payment = [c \in Calls |-> "absent"]
  /\ record = None
  /\ pc = [c \in Calls |-> "off"]
  /\ from = [c \in Calls |-> None]
  /\ asked = [c \in Calls |-> {}] /\ open = asked
  /\ heard = 0
  /\ faults = 0

Fault == faults < MaxFaults /\ faults' = faults + 1
Goes(c, to) == pc' = [pc EXCEPT ![c] = to]
(* Somebody has seen the proof, which stays valid until the note is spent, *)
(* also after the relay's own transaction has reverted.                    *)
Sendable(c) == tx[c] \in {"out", "seen", "reverted"}
SendsOf(r) == {s \in r.sends : payment[s] # "absent"}

-----------------------------------------------------------------------------
(* claimPayment.  `stale` says the claim is ten minutes old.               *)
Running(stale) == record # None /\ ~record.closed /\ record.by \notin gone /\ ~stale

ForgetsSends == record # None /\ record.sends # {} /\ ~record.closed  \* mutant: a closed record starts anew
HasSends == record # None /\ SendsOf(record) # {}

ClaimPayment(c, stale) ==
  /\ pc[c] = "off"
  /\ \/ /\ Running(stale)
        /\ record' = [record EXCEPT !.retried = TRUE]
        /\ Goes(c, "over") /\ UNCHANGED asked
     \/ /\ ~Running(stale) /\ HasSends
        /\ record' = [record EXCEPT !.by = c, !.closed = FALSE, !.retried = FALSE]
        /\ asked' = [asked EXCEPT ![c] = SendsOf(record)]
        /\ Goes(c, IF \E s \in SendsOf(record) : payment[s] = "spent" THEN "found" ELSE "asking")
     \/ /\ ~Running(stale) /\ ~HasSends
        /\ record' = [by |-> c, sends |-> {}, closed |-> FALSE, retried |-> FALSE]
        /\ Goes(c, "paying") /\ UNCHANGED asked
  /\ UNCHANGED <<chainVars, noteVars, from, open, gone, heard, faults>>

(* sendsOutcome: the spends first, then the payments.  A node that is      *)
(* behind shows neither of a send that has just landed.                    *)
ReadsSpent(n) ==
  IF spentBy[n] = None THEN {FALSE}
  ELSE IF spentBy[n] \in behind THEN {TRUE, FALSE} ELSE {TRUE}

ReadSpends(c) ==
  /\ pc[c] = "asking"
  /\ \E spent \in [Notes -> BOOLEAN] :
       /\ \A n \in Notes : spent[n] \in ReadsSpent(n)
       /\ open' = [open EXCEPT ![c] = {s \in asked[c] : ~spent[from[s]]}]
  /\ Goes(c, "reading")
  /\ UNCHANGED <<chainVars, noteVars, record, from, asked, gone, heard, faults>>

PaysFromAny(S) == TRUE              \* mutant: a recent send is not waited for
NoneIsRecent(S) == S \cap recent = {}
AnyNote(S) == {None}             \* mutant: a retry may pay from any note
TheirPayment(S) == S              \* mutant: the send's payment note, not its input
TheirNote(S) == {from[s] : s \in S}

(* The payment found landed, which the store is told if it can be written; *)
(* or the note to pay from now; or not known.                              *)
ReadPayments(c) ==
  /\ pc[c] = "reading"
  /\ \/ /\ \E s \in asked[c] :
             /\ Landed(s)
             /\ \/ payment' = [payment EXCEPT ![s] = "spent"] /\ UNCHANGED faults
                \/ Fault /\ UNCHANGED payment
        /\ Goes(c, "found") /\ UNCHANGED from
     \/ /\ UNCHANGED <<payment, faults>>
        /\ \A s \in asked[c] : Landed(s) => s \in behind
        /\ \/ /\ open[c] = {} /\ NoneIsRecent(asked[c])
              /\ Goes(c, "paying") /\ UNCHANGED from
           \/ /\ Cardinality({from[s] : s \in open[c]}) = 1
              /\ \E n \in TheirNote(open[c]) : from' = [from EXCEPT ![c] = n]
              /\ Goes(c, "paying")
           \/ Goes(c, "failed") /\ UNCHANGED from
  /\ open' = [open EXCEPT ![c] = {}]
  /\ UNCHANGED <<chainVars, note, spentTx, record, asked, gone, heard>>

-----------------------------------------------------------------------------
(* payPrivately: notes met that an earlier send spent after all are marked,*)
(* if the store can be written, and the note that pays is reserved,        *)
FoundSpent == {n \in Notes : note[n] = "unspent" /\ TRUE \in ReadsSpent(n)}
Mark(S) == [n \in Notes |-> IF n \in S THEN "spent" ELSE note[n]]

Reserve(c, n) ==
  /\ pc[c] = "paying"
  /\ from[c] \in {n, None}
  /\ note[n] = "unspent"
  /\ FALSE \in ReadsSpent(n)
  /\ \E S \in SUBSET (FoundSpent \ {n}) : note' = [Mark(S) EXCEPT ![n] = "pending"]
  /\ from' = [from EXCEPT ![c] = n]
  /\ Goes(c, "reserved")
  /\ UNCHANGED <<chainVars, spentTx, payment, record, asked, open, gone, heard, faults>>

CannotPay(c) ==
  /\ pc[c] = "paying"
  /\ \E S \in SUBSET FoundSpent : note' = Mark(S)
  /\ Goes(c, "failed")
  /\ UNCHANGED <<chainVars, spentTx, payment, record, from, asked, open, gone, heard, faults>>

(* the payment note kept and the send recorded, just before it goes out; a *)
(* call that gave way forgets its payment and sends nothing.               *)
StillOurs(c) == record # None  \* mutant: whoever holds the purchase
Holds(c) == record # None /\ record.by = c

MarkSend(c) ==
  /\ pc[c] = "reserved"
  /\ IF Holds(c)
       THEN /\ record' = [record EXCEPT !.sends = @ \cup {c}]
            /\ payment' = [payment EXCEPT ![c] = "pending"]
            /\ recent' = recent \cup {c}
            /\ UNCHANGED note
            /\ Goes(c, "marked")
       ELSE /\ note' = [note EXCEPT ![from[c]] = "unspent"]
            /\ UNCHANGED <<record, payment, recent>>
            /\ Goes(c, "failed")
  /\ UNCHANGED <<world, once, spentBy, tx, behind, spentTx, from, asked, open, gone, heard, faults>>

(* The send: a hash, no clear answer, or a refusal that has seen the proof.*)
Frees(c) == note' = [note EXCEPT ![from[c]] = "unspent"]
Removes(c) == payment' = [payment EXCEPT ![c] = "absent"]  \* mutant: a refused payment is forgotten
StaysDead(c) == payment' = [payment EXCEPT ![c] = "dead"]

Send(c) ==
  /\ pc[c] = "marked"
  /\ \/ /\ tx' = [tx EXCEPT ![c] = "out"]
        /\ spentTx' = [spentTx EXCEPT ![from[c]] = c]
        /\ Goes(c, "sent")
        /\ UNCHANGED <<note, payment, faults>>
     \/ /\ Fault
        /\ \E s \in {"out", "seen"} : tx' = [tx EXCEPT ![c] = s]
        /\ Goes(c, "failed")
        /\ UNCHANGED <<noteVars>>
     \/ /\ Fault
        /\ tx' = [tx EXCEPT ![c] = "seen"]
        /\ StaysDead(c) /\ Frees(c)
        /\ Goes(c, "failed")
        /\ UNCHANGED spentTx
  /\ UNCHANGED <<world, once, spentBy, behind, recent, record, from, asked, open, gone, heard>>

Receipt(c) ==
  /\ pc[c] = "sent"
  /\ \/ /\ tx[c] = "landed"
        /\ note' = [note EXCEPT ![from[c]] = "spent"]
        /\ payment' = [payment EXCEPT ![c] = "spent"]
        /\ Goes(c, "found") /\ UNCHANGED spentTx
     \/ /\ tx[c] = "reverted" /\ FALSE \in ReadsSpent(from[c])
        /\ StaysDead(c) /\ Frees(c)
        /\ Goes(c, "failed") /\ UNCHANGED spentTx
     \/ /\ tx[c] = "reverted" /\ TRUE \in ReadsSpent(from[c])
        /\ note' = [note EXCEPT ![from[c]] = "spent"]
        /\ spentTx' = [spentTx EXCEPT ![from[c]] = None]
        /\ UNCHANGED payment
        /\ Goes(c, "failed")
     \/ Goes(c, "failed") /\ UNCHANGED noteVars
  /\ UNCHANGED <<chainVars, record, from, asked, open, gone, heard, faults>>

(* closePayment, `arrived` saying that the caller got a finished answer.   *)
Closed(c, arrived) ==
  LET sends == SendsOf(record)
      landed == \E s \in sends : payment[s] = "spent"
  IN IF record = None \/ ~Holds(c) THEN UNCHANGED <<record, heard>>
     ELSE IF sends = {} THEN record' = None /\ UNCHANGED heard
     ELSE IF landed /\ arrived /\ ~record.retried /\ ~once THEN record' = None /\ heard' = heard + 1
     ELSE record' = [record EXCEPT !.closed = TRUE] /\ UNCHANGED heard

Close(c) ==
  /\ pc[c] \in {"found", "failed"}
  /\ \E arrived \in {FALSE, pc[c] = "found"} : Closed(c, arrived)
  /\ Goes(c, "over")
  /\ UNCHANGED <<chainVars, noteVars, from, asked, open, gone, faults>>

Crash(c) ==
  /\ pc[c] \notin {"off", "over"}
  /\ Fault
  /\ Goes(c, "over")
  /\ gone' = gone \cup {c}
  /\ UNCHANGED <<chainVars, noteVars, record, from, asked, open, heard>>

-----------------------------------------------------------------------------
(* It lands by a copy of its own; one that has reverted, by another copy.  *)
Lands(c) ==
  /\ Sendable(c) /\ spentBy[from[c]] = None
  /\ "late" \in world \/ c \in recent
  /\ tx' = [tx EXCEPT ![c] = IF @ = "reverted" THEN @ ELSE "landed"]
  /\ spentBy' = [spentBy EXCEPT ![from[c]] = c]
  /\ behind' = IF "lag" \in world THEN behind \cup {c} ELSE behind
  /\ UNCHANGED <<world, once, recent, noteVars, record, callVars, heard, faults>>

CatchUp(c) ==
  /\ c \in behind
  /\ behind' = behind \ {c}
  /\ UNCHANGED <<world, once, spentBy, tx, recent, noteVars, record, callVars, heard, faults>>

(* Ten minutes pass: a node is behind for much less.                       *)
TenMinutes(c) ==
  /\ c \in recent \ behind
  /\ recent' = recent \ {c}
  /\ UNCHANGED <<world, once, spentBy, tx, behind, noteVars, record, callVars, heard, faults>>

Reverts(c) ==
  /\ tx[c] = "out"
  /\ tx' = [tx EXCEPT ![c] = "reverted"]
  /\ IF spentBy[from[c]] = None THEN Fault ELSE UNCHANGED faults
  /\ UNCHANGED <<world, once, spentBy, behind, recent, noteVars, record, callVars, heard>>

(* The note pays for something else.                                       *)
OtherSpend(n) ==
  /\ note[n] = "unspent" /\ spentBy[n] = None
  /\ note' = [note EXCEPT ![n] = "spent"]
  /\ spentBy' = [spentBy EXCEPT ![n] = Other]
  /\ UNCHANGED <<world, once, tx, behind, recent, spentTx, payment, record, callVars, heard, faults>>

(* gloam_list_notes with refresh: a note spent after all, or freed because *)
(* its send reverted or never showed up; a payment that landed, or whose   *)
(* send reverted or never showed up.                                       *)
RefreshNote(n) ==
  /\ \/ /\ note[n] # "spent" /\ TRUE \in ReadsSpent(n)
        /\ note' = [note EXCEPT ![n] = "spent"]
        /\ UNCHANGED spentTx
     \/ /\ note[n] = "pending" /\ FALSE \in ReadsSpent(n)
        /\ spentTx[n] # None => tx[spentTx[n]] \in {"reverted", "out"}
        /\ note' = [note EXCEPT ![n] = "unspent"]
        /\ spentTx' = [spentTx EXCEPT ![n] = None]
  /\ UNCHANGED <<chainVars, payment, record, callVars, heard, faults>>

NoteSpent(c) == spentBy[from[c]] # None  \* mutant: a spend of its note is taken as the payment
CommitmentSeen(c) == Landed(c)

RefreshPayment(c) ==
  /\ payment[c] \in {"pending", "dead"}
  /\ \/ CommitmentSeen(c) /\ payment' = [payment EXCEPT ![c] = "spent"]
     \/ /\ payment[c] = "pending"
        /\ tx[c] = "reverted" \/ (tx[c] = "out" /\ ~(note[from[c]] = "pending" /\ spentTx[from[c]] = c))
        /\ payment' = [payment EXCEPT ![c] = "dead"]
  /\ UNCHANGED <<chainVars, note, spentTx, record, callVars, heard, faults>>

CallStep(c) ==
  \/ \E stale \in BOOLEAN : ClaimPayment(c, stale)
  \/ ReadSpends(c) \/ ReadPayments(c) \/ CannotPay(c) \/ MarkSend(c) \/ Send(c)
  \/ Receipt(c) \/ Close(c) \/ Crash(c)
  \/ \E n \in Notes : Reserve(c, n)

ChainStep(c) == Lands(c) \/ CatchUp(c) \/ TenMinutes(c) \/ Reverts(c)

Next ==
  \/ \E c \in Calls : CallStep(c) \/ ChainStep(c) \/ RefreshPayment(c)
  \/ \E n \in Notes : OtherSpend(n) \/ RefreshNote(n)

Spec == Init /\ [][Next]_vars

-----------------------------------------------------------------------------
(* A purchase is paid once, however often it is asked: one payment lands   *)
(* for each answer that arrived and one more, and only one of a challenge. *)
PaidOnce ==
  Cardinality({c \in Calls : Landed(c)}) <= IF once THEN 1 ELSE heard + 1

(* A send that can still land, refused and reverted ones included, is on   *)
(* the purchase's record with its payment note, so no later call pays from *)
(* another note meanwhile.                                                 *)
SendsAreOnRecord ==
  \A c \in Calls :
    Sendable(c) /\ spentBy[from[c]] = None =>
      record # None /\ c \in SendsOf(record)

(* A payment is taken as made, and a note written off, only when the chain *)
(* has it so.                                                              *)
KnownMeansLanded ==
  /\ \A c \in Calls : payment[c] = "spent" => Landed(c)
  /\ \A n \in Notes : note[n] = "spent" => spentBy[n] # None
=============================================================================
