------------------------- MODULE NotePaymentsProofs -------------------------
(***************************************************************************)
(* One purchase, proved paid once for any number of calls and notes, where *)
(* a network is behind or late but not both.  The invariant: of the sends  *)
(* on the purchase's record, and the one its holder is about to add, any   *)
(* two pay from the same note unless one of them is stopped for good, its  *)
(* note spent by something else; and every send that can still land, one   *)
(* refused or reverted too, is on the record.                              *)
(***************************************************************************)
EXTENDS NotePayments, FiniteSetTheorems, TLAPS

NotBoth == \A w \in Worlds : ~({"lag", "late"} \subseteq w)

Early == {"off", "asking", "reading", "paying", "reserved", "marked"}
After == {"marked", "sent", "found", "failed", "over"}
Sends == IF record = None THEN {} ELSE record.sends
Paid == {c \in Calls : Landed(c)}
Stopped(c) == from[c] \in Notes /\ ~Landed(c) /\ spentBy[from[c]] # None
Agree(s, t) == from[s] = from[t] \/ Stopped(s) \/ Stopped(t)

(* Where a call's send and note stand by where the call is.                *)
Placed ==
  \A c \in Calls :
    /\ pc[c] \in Early => tx[c] = "unsent"
    /\ pc[c] \in {"reserved", "marked", "sent"} \/ tx[c] # "unsent" => from[c] \in Notes
    /\ tx[c] = "landed" => spentBy[from[c]] = c
    /\ \A n \in Notes : spentBy[n] = c => from[c] = n /\ tx[c] # "unsent"
    /\ pc[c] = "reading" => open[c] \subseteq asked[c]

(* The sends on the record, and those a call found there, are calls that   *)
(* have chosen their note and kept their payment.                          *)
Chosen(S) == \A s \in S : pc[s] \in After /\ from[s] \in Notes /\ payment[s] # "absent"
Recorded == Chosen(Sends) /\ \A c \in Calls : Chosen(asked[c])

BehindIsRecent == behind \subseteq recent
OpenIsOnRecord ==
  \A c \in Calls : (pc[c] = "marked" \/ Sendable(c)) /\ spentBy[from[c]] = None => c \in Sends
OneNote == \A s, t \in Sends : Agree(s, t)
ReadIsSpent ==
  \A c \in Calls : pc[c] = "reading" =>
    \A s \in asked[c] \ open[c] : spentBy[from[s]] # None
HolderAgrees ==
  \A c \in Calls : record # None /\ record.by = c =>
    /\ pc[c] # "off"
    /\ pc[c] \in {"asking", "reading"} => asked[c] = Sends
    /\ pc[c] \in {"paying", "reserved"} => \A s \in Sends : Agree(s, c)
HeardIsCounted ==
  /\ Cardinality(Paid \ Sends) <= heard
  /\ once => heard = 0

IInv ==
  /\ TypeOK /\ Placed /\ Recorded /\ KnownMeansLanded
  /\ BehindIsRecent /\ OpenIsOnRecord /\ OneNote /\ ReadIsSpent /\ HolderAgrees
  /\ HeardIsCounted

-----------------------------------------------------------------------------
LEMMA InitInv == Init => IInv
<1> SUFFICES ASSUME Init PROVE IInv
  OBVIOUS
<1>1. TypeOK
  BY PaymentAssumption DEF Init, TypeOK
<1>2. Paid = {} /\ Sends = {}
  BY PaymentAssumption DEF Init, Paid, Landed, Sends
<1>3. Cardinality(Paid \ Sends) = 0
  BY <1>2, FS_EmptySet
<1> QED
  BY <1>1, <1>2, <1>3, PaymentAssumption
     DEF Init, IInv, Placed, Recorded, Chosen, KnownMeansLanded, BehindIsRecent,
         OpenIsOnRecord, OneNote, ReadIsSpent, HolderAgrees, HeardIsCounted, Sendable, Early

(* The record's type, through each of the changes the store makes to it.   *)
LEMMA RecordChanges ==
  ASSUME TypeOK, NEW c \in Calls,
         \/ record' \in {record, None}
         \/ record' = [by |-> c, sends |-> {}, closed |-> FALSE, retried |-> FALSE]
         \/ record # None /\ record' = [record EXCEPT !.retried = TRUE]
         \/ record # None /\ record' = [record EXCEPT !.closed = TRUE]
         \/ record # None /\ record' = [record EXCEPT !.by = c, !.closed = FALSE, !.retried = FALSE]
         \/ record # None /\ record' = [record EXCEPT !.sends = @ \cup {c}]
  PROVE  record' \in PaymentAttempt \cup {None}
<1>1. record # None => record \in PaymentAttempt
  BY DEF TypeOK
<1>2. CASE record' \in {record, None}
  BY <1>1, <1>2
<1>7. CASE record' = [by |-> c, sends |-> {}, closed |-> FALSE, retried |-> FALSE]
  BY <1>7 DEF PaymentAttempt
<1>3. CASE record # None /\ record' = [record EXCEPT !.retried = TRUE]
  BY <1>1, <1>3 DEF PaymentAttempt
<1>4. CASE record # None /\ record' = [record EXCEPT !.closed = TRUE]
  BY <1>1, <1>4 DEF PaymentAttempt
<1>5. CASE record # None /\ record' = [record EXCEPT !.by = c, !.closed = FALSE, !.retried = FALSE]
  BY <1>1, <1>5 DEF PaymentAttempt
<1>6. CASE record # None /\ record' = [record EXCEPT !.sends = @ \cup {c}]
  BY <1>1, <1>6 DEF PaymentAttempt
<1> QED BY <1>2, <1>3, <1>4, <1>5, <1>6, <1>7

LEMMA SendsTyped == ASSUME TypeOK, record # None PROVE SendsOf(record) \subseteq Calls
BY DEF TypeOK, PaymentAttempt, SendsOf

LEMMA ClaimTyped ==
  ASSUME TypeOK, NEW c \in Calls, NEW stale \in BOOLEAN, ClaimPayment(c, stale)
  PROVE  record' \in PaymentAttempt \cup {None} /\ asked' \in [Calls -> SUBSET Calls]
<1>1. \/ record' = [by |-> c, sends |-> {}, closed |-> FALSE, retried |-> FALSE]
      \/ record # None /\ record' = [record EXCEPT !.retried = TRUE]
      \/ record # None /\ record' = [record EXCEPT !.by = c, !.closed = FALSE, !.retried = FALSE]
  BY Zenon DEF ClaimPayment, Running, HasSends
<1>2. asked' = asked \/ (record # None /\ asked' = [asked EXCEPT ![c] = SendsOf(record)])
  BY Zenon DEF ClaimPayment, HasSends
<1>3. asked' \in [Calls -> SUBSET Calls]
  BY <1>2, SendsTyped DEF TypeOK
<1> QED BY <1>1, <1>3, RecordChanges

LEMMA MarkTyped ==
  ASSUME TypeOK, NEW c \in Calls, MarkSend(c)
  PROVE  record' \in PaymentAttempt \cup {None}
<1>1. record' = record \/ (record # None /\ record' = [record EXCEPT !.sends = @ \cup {c}])
  BY Zenon DEF MarkSend, Holds
<1> QED BY <1>1, RecordChanges

LEMMA CloseTyped ==
  ASSUME TypeOK, NEW c \in Calls, Close(c)
  PROVE  record' \in PaymentAttempt \cup {None} /\ heard' \in {heard, heard + 1}
<1>1. /\ record' \in {None, record} \/ (record # None /\ record' = [record EXCEPT !.closed = TRUE])
      /\ heard' \in {heard, heard + 1}
  BY Zenon DEF Close, Closed, Holds
<1> QED BY <1>1, RecordChanges

LEMMA TypeStep == TypeOK /\ Placed /\ [Next]_vars => TypeOK'
<1> SUFFICES ASSUME TypeOK, Placed, [Next]_vars PROVE TypeOK'
  OBVIOUS
<1>a. ASSUME NEW c \in Calls, NEW stale \in BOOLEAN, ClaimPayment(c, stale)
      PROVE  record' \in PaymentAttempt \cup {None} /\ asked' \in [Calls -> SUBSET Calls]
  BY <1>a, ClaimTyped
<1>b. ASSUME NEW c \in Calls, MarkSend(c) PROVE record' \in PaymentAttempt \cup {None}
  BY <1>b, MarkTyped
<1>c. ASSUME NEW c \in Calls, Close(c)
      PROVE  record' \in PaymentAttempt \cup {None} /\ heard' \in Nat
  BY <1>c, CloseTyped DEF TypeOK
<1> USE PaymentAssumption DEF TypeOK, Landed, Goes, Fault, chainVars, noteVars, callVars
<1>1. ASSUME NEW c \in Calls, NEW stale \in BOOLEAN, ClaimPayment(c, stale) PROVE TypeOK'
  <2>3. pc' \in {[pc EXCEPT ![c] = to] : to \in {"over", "found", "asking", "paying"}}
    BY <1>1 DEF ClaimPayment
  <2>1. record' \in PaymentAttempt \cup {None} /\ asked' \in [Calls -> SUBSET Calls]
    BY <1>1, <1>a, Zenon
  <2>2. UNCHANGED <<chainVars, noteVars, from, open, gone, heard, faults>>
    BY <1>1 DEF ClaimPayment
  <2> QED BY <2>1, <2>2, <2>3
<1>2. ASSUME NEW c \in Calls, ReadSpends(c) PROVE TypeOK'
  BY <1>2 DEF ReadSpends
<1>3. ASSUME NEW c \in Calls, ReadPayments(c) PROVE TypeOK'
  BY <1>3 DEF ReadPayments, TheirNote
<1>4. ASSUME NEW c \in Calls, NEW n \in Notes, Reserve(c, n) PROVE TypeOK'
  BY <1>4 DEF Reserve, Mark
<1>5. ASSUME NEW c \in Calls, CannotPay(c) PROVE TypeOK'
  BY <1>5 DEF CannotPay, Mark
<1>6. ASSUME NEW c \in Calls, MarkSend(c) PROVE TypeOK'
  <2>2. note' \in [Notes -> {"unspent", "pending", "spent"}]
    BY <1>6 DEF MarkSend, Placed
  <2>3. /\ payment' \in [Calls -> {"absent", "pending", "dead", "spent"}]
        /\ recent' \subseteq Calls
        /\ pc' \in {[pc EXCEPT ![c] = to] : to \in {"marked", "failed"}}
    BY <1>6 DEF MarkSend
  <2> QED BY <1>6, <1>b, <2>2, <2>3 DEF MarkSend
<1>7. ASSUME NEW c \in Calls, Send(c) PROVE TypeOK'
  <2>1. tx[c] = "unsent" /\ from[c] \in Notes
    BY <1>7 DEF Send, Placed, Early
  <2>2. tx' \in {[tx EXCEPT ![c] = s] : s \in {"out", "seen"}}
    BY <1>7 DEF Send
  <2>3. /\ note' \in [Notes -> {"unspent", "pending", "spent"}]
        /\ spentTx' \in [Notes -> Calls \cup {None}]
        /\ payment' \in [Calls -> {"absent", "pending", "dead", "spent"}]
        /\ pc' \in {[pc EXCEPT ![c] = to] : to \in {"sent", "failed"}}
        /\ faults' \in 0..MaxFaults
    BY <1>7, <2>1 DEF Send, StaysDead, Frees
  <2> QED BY <1>7, <2>1, <2>2, <2>3 DEF Send
<1>8. ASSUME NEW c \in Calls, Receipt(c) PROVE TypeOK'
  <2>1. from[c] \in Notes
    BY <1>8 DEF Receipt, Placed
  <2>2. note' \in [Notes -> {"unspent", "pending", "spent"}]
    BY <1>8, <2>1 DEF Receipt, Frees
  <2>3. spentTx' \in [Notes -> Calls \cup {None}]
    BY <1>8, <2>1 DEF Receipt
  <2>4. payment' \in [Calls -> {"absent", "pending", "dead", "spent"}]
    BY <1>8, <2>1 DEF Receipt, StaysDead
  <2>5. pc' \in {[pc EXCEPT ![c] = to] : to \in {"found", "failed"}}
    BY <1>8 DEF Receipt
  <2> QED BY <1>8, <2>2, <2>3, <2>4, <2>5 DEF Receipt
<1>9. ASSUME NEW c \in Calls, Close(c) PROVE TypeOK'
  BY <1>9, <1>c DEF Close
<1>10. ASSUME NEW c \in Calls, Crash(c) PROVE TypeOK'
  <2>1. pc' = [pc EXCEPT ![c] = "over"] /\ gone' = gone \cup {c} /\ faults' \in 0..MaxFaults
    BY <1>10 DEF Crash
  <2> QED BY <1>10, <2>1 DEF Crash
<1>11. ASSUME NEW c \in Calls, Lands(c) PROVE TypeOK'
  <2>1. from[c] \in Notes /\ spentBy[from[c]] = None
    BY <1>11 DEF Lands, Sendable, Placed
  <2>2. /\ spentBy' = [spentBy EXCEPT ![from[c]] = c] /\ behind' \subseteq behind \cup {c}
        /\ tx' \in [Calls -> {"unsent", "seen", "out", "reverted", "landed"}]
    BY <1>11 DEF Lands
  <2>3. behind' \subseteq {d \in Calls : \E n \in Notes : spentBy'[n] = d}
    <3>1. \A d \in behind' : d \in Calls /\ \E n \in Notes : spentBy'[n] = d
      BY <2>1, <2>2
    <3> QED BY <3>1
  <2>4. spentBy' \in [Notes -> Calls \cup {None, Other}]
    BY <2>2
  <2>5. UNCHANGED <<world, once, recent, noteVars, record, callVars, heard, faults>>
    BY <1>11 DEF Lands
  <2> QED BY <2>2, <2>3, <2>4, <2>5
<1>12. ASSUME NEW c \in Calls, CatchUp(c) \/ TenMinutes(c) PROVE TypeOK'
  BY <1>12 DEF CatchUp, TenMinutes
<1>13. ASSUME NEW c \in Calls, Reverts(c) PROVE TypeOK'
  BY <1>13 DEF Reverts
<1>14. ASSUME NEW c \in Calls, RefreshPayment(c) PROVE TypeOK'
  BY <1>14 DEF RefreshPayment
<1>15. ASSUME NEW n \in Notes, OtherSpend(n) \/ RefreshNote(n) PROVE TypeOK'
  <2>1. CASE OtherSpend(n)
    <3>1. /\ spentBy[n] = None /\ spentBy' = [spentBy EXCEPT ![n] = Other]
          /\ note' = [note EXCEPT ![n] = "spent"] /\ behind' = behind
      BY <2>1 DEF OtherSpend
    <3>2. behind' \subseteq {d \in Calls : \E m \in Notes : spentBy'[m] = d}
      <4>1. \A d \in behind' : d \in Calls /\ \E m \in Notes : spentBy'[m] = d
        BY <3>1
      <4> QED BY <4>1
    <3>3. /\ spentBy' \in [Notes -> Calls \cup {None, Other}]
          /\ note' \in [Notes -> {"unspent", "pending", "spent"}]
      BY <3>1
    <3>4. UNCHANGED <<world, once, tx, behind, recent, spentTx, payment, record, callVars, heard, faults>>
      BY <2>1 DEF OtherSpend
    <3> QED BY <3>2, <3>3, <3>4
  <2>2. CASE RefreshNote(n)
    <3>0. \/ note' = [note EXCEPT ![n] = "spent"] /\ spentTx' = spentTx
          \/ note' = [note EXCEPT ![n] = "unspent"] /\ spentTx' = [spentTx EXCEPT ![n] = None]
      BY <2>2, Zenon DEF RefreshNote
    <3>1. /\ note' \in [Notes -> {"unspent", "pending", "spent"}]
          /\ spentTx' \in [Notes -> Calls \cup {None}]
      BY <3>0
    <3>2. UNCHANGED <<chainVars, payment, record, callVars, heard, faults>>
      BY <2>2, Zenon DEF RefreshNote
    <3> QED BY <3>1, <3>2
  <2> QED BY <1>15, <2>1, <2>2
<1>16. CASE UNCHANGED vars
  BY <1>16 DEF vars
<1> QED
  BY <1>1, <1>2, <1>3, <1>4, <1>5, <1>6, <1>7, <1>8, <1>9, <1>10, <1>11,
     <1>12, <1>13, <1>14, <1>15, <1>16 DEF Next, CallStep, ChainStep

-----------------------------------------------------------------------------
(* What no step undoes: a note once spent stays spent by the same, a send  *)
(* that landed stays landed, and a call that has marked its send keeps its *)
(* note and its payment.                                                   *)
LEMMA Steady ==
  ASSUME TypeOK, Placed, [Next]_vars
  PROVE  /\ UNCHANGED <<world, once>>
         /\ \A n \in Notes : spentBy[n] # None => spentBy'[n] = spentBy[n]
         /\ \A c \in Calls : Landed(c) => Landed(c)'
         /\ \A c \in Calls : ~Landed(c) /\ Landed(c)' =>
              spentBy[from[c]] = None /\ Sendable(c)
         /\ \A c \in Calls : pc'[c] = pc[c] => from'[c] = from[c]
         /\ \A c \in Calls : pc[c] \in After => pc'[c] \in After /\ from'[c] = from[c]
         /\ \A c \in Calls : payment[c] # "absent" => payment'[c] # "absent"
<1> USE PaymentAssumption
    DEF TypeOK, Placed, Landed, Early, After, Goes, chainVars, noteVars, callVars
<1>1. ASSUME NEW c \in Calls, NEW stale \in BOOLEAN, ClaimPayment(c, stale)
      PROVE  /\ UNCHANGED <<chainVars, noteVars, from>> /\ pc[c] = "off"
             /\ \E to \in {"over", "found", "asking", "paying"} : pc' = [pc EXCEPT ![c] = to]
  BY <1>1 DEF ClaimPayment
<1>2. ASSUME NEW c \in Calls, ReadSpends(c)
      PROVE  /\ UNCHANGED <<chainVars, noteVars, from>> /\ pc[c] = "asking"
             /\ pc' = [pc EXCEPT ![c] = "reading"]
  BY <1>2 DEF ReadSpends
<1>3. ASSUME NEW c \in Calls, ReadPayments(c)
      PROVE  /\ UNCHANGED <<chainVars, note, spentTx>> /\ pc[c] = "reading"
             /\ payment' = payment \/ \E s \in Calls : payment' = [payment EXCEPT ![s] = "spent"]
             /\ \E to \in {"found", "paying", "failed"} : pc' = [pc EXCEPT ![c] = to]
             /\ from' = from \/ \E n : from' = [from EXCEPT ![c] = n]
  BY <1>3 DEF ReadPayments
<1>4. ASSUME NEW c \in Calls, NEW n \in Notes, Reserve(c, n)
      PROVE  /\ UNCHANGED <<chainVars, payment>> /\ pc[c] = "paying"
             /\ pc' = [pc EXCEPT ![c] = "reserved"] /\ from' = [from EXCEPT ![c] = n]
  BY <1>4 DEF Reserve
<1>5. ASSUME NEW c \in Calls, CannotPay(c)
      PROVE  /\ UNCHANGED <<chainVars, payment, from>> /\ pc[c] = "paying"
             /\ pc' = [pc EXCEPT ![c] = "failed"]
  BY <1>5 DEF CannotPay
<1>6. ASSUME NEW c \in Calls, MarkSend(c)
      PROVE  /\ UNCHANGED <<world, once, spentBy, tx, from>> /\ pc[c] = "reserved"
             /\ \E to \in {"marked", "failed"} : pc' = [pc EXCEPT ![c] = to]
             /\ payment' = payment \/ payment' = [payment EXCEPT ![c] = "pending"]
  BY <1>6 DEF MarkSend
<1>7. ASSUME NEW c \in Calls, Send(c)
      PROVE  /\ UNCHANGED <<world, once, spentBy, from>> /\ pc[c] = "marked"
             /\ pc' = [pc EXCEPT ![c] = "sent"] \/ pc' = [pc EXCEPT ![c] = "failed"]
             /\ tx[c] = "unsent" /\ \E s \in {"out", "seen"} : tx' = [tx EXCEPT ![c] = s]
             /\ payment' = payment \/ payment' = [payment EXCEPT ![c] = "dead"]
  BY <1>7 DEF Send, StaysDead
<1>8. ASSUME NEW c \in Calls, Receipt(c)
      PROVE  /\ UNCHANGED <<chainVars, from>> /\ pc[c] = "sent"
             /\ pc' = [pc EXCEPT ![c] = "found"] \/ pc' = [pc EXCEPT ![c] = "failed"]
             /\ payment' = payment \/ \E s \in {"dead", "spent"} : payment' = [payment EXCEPT ![c] = s]
  BY <1>8 DEF Receipt, StaysDead
<1>9. ASSUME NEW c \in Calls, Close(c) \/ Crash(c)
      PROVE  UNCHANGED <<chainVars, noteVars, from>> /\ pc' = [pc EXCEPT ![c] = "over"]
  BY <1>9 DEF Close, Crash
<1>10. ASSUME NEW c \in Calls, Lands(c) \/ CatchUp(c) \/ TenMinutes(c) \/ Reverts(c)
       PROVE  /\ UNCHANGED <<world, once, noteVars, callVars>>
              /\ \/ /\ spentBy[from[c]] = None /\ Sendable(c)
                    /\ spentBy' = [spentBy EXCEPT ![from[c]] = c]
                 \/ spentBy' = spentBy
  BY <1>10 DEF Lands, CatchUp, TenMinutes, Reverts, Sendable
<1>11. ASSUME NEW c \in Calls, RefreshPayment(c)
       PROVE  /\ UNCHANGED <<chainVars, callVars>> /\ payment[c] # "absent"
              /\ \E s \in {"dead", "spent"} : payment' = [payment EXCEPT ![c] = s]
  BY <1>11 DEF RefreshPayment
<1>12. ASSUME NEW n \in Notes, OtherSpend(n) \/ RefreshNote(n)
       PROVE  /\ UNCHANGED <<world, once, tx, payment, callVars>>
              /\ \/ spentBy' = spentBy
                 \/ spentBy[n] = None /\ spentBy' = [spentBy EXCEPT ![n] = Other]
  BY <1>12 DEF OtherSpend, RefreshNote
<1>13. CASE UNCHANGED vars
  BY <1>13 DEF vars
<1> QED
  BY <1>1, <1>2, <1>3, <1>4, <1>5, <1>6, <1>7, <1>8, <1>9, <1>10, <1>11, <1>12, <1>13
     DEF Next, CallStep, ChainStep

LEMMA PlacedStep == ASSUME TypeOK, Placed, [Next]_vars PROVE Placed'
<1> USE PaymentAssumption DEF TypeOK, Placed, Early, Goes, chainVars, noteVars, callVars
<1>1. ASSUME NEW c \in Calls, NEW stale \in BOOLEAN, ClaimPayment(c, stale) PROVE Placed'
  <2>1. /\ UNCHANGED <<chainVars, from, open>> /\ pc[c] = "off"
        /\ \E to \in {"over", "found", "asking", "paying"} : pc' = [pc EXCEPT ![c] = to]
    BY <1>1 DEF ClaimPayment
  <2>2. asked' = asked \/ asked' = [asked EXCEPT ![c] = SendsOf(record)]
    BY <1>1 DEF ClaimPayment
  <2> QED BY <2>1, <2>2
<1>2. ASSUME NEW c \in Calls, ReadSpends(c) PROVE Placed'
  BY <1>2 DEF ReadSpends
<1>3. ASSUME NEW c \in Calls, ReadPayments(c) PROVE Placed'
  <2>1. /\ UNCHANGED <<chainVars, asked>> /\ pc[c] = "reading"
        /\ \E to \in {"found", "paying", "failed"} : pc' = [pc EXCEPT ![c] = to]
        /\ from' = from \/ \E n : from' = [from EXCEPT ![c] = n]
        /\ open' = [open EXCEPT ![c] = {}]
    BY <1>3 DEF ReadPayments
  <2> QED BY <2>1
<1>4. ASSUME NEW c \in Calls, NEW n \in Notes, Reserve(c, n) PROVE Placed'
  BY <1>4 DEF Reserve
<1>5. ASSUME NEW c \in Calls, CannotPay(c) PROVE Placed'
  BY <1>5 DEF CannotPay
<1>6. ASSUME NEW c \in Calls, MarkSend(c) PROVE Placed'
  BY <1>6 DEF MarkSend
<1>7. ASSUME NEW c \in Calls, Send(c) PROVE Placed'
  <2>1. /\ UNCHANGED <<spentBy, asked, open, from>> /\ pc[c] = "marked"
        /\ \E to \in {"sent", "failed"} : pc' = [pc EXCEPT ![c] = to]
        /\ \E s \in {"out", "seen"} : tx' = [tx EXCEPT ![c] = s]
    BY <1>7 DEF Send
  <2> QED BY <2>1
<1>8. ASSUME NEW c \in Calls, Receipt(c) PROVE Placed'
  <2>1. /\ UNCHANGED <<chainVars, asked, open, from>> /\ pc[c] = "sent"
        /\ \E to \in {"found", "failed"} : pc' = [pc EXCEPT ![c] = to]
    BY <1>8 DEF Receipt
  <2> QED BY <2>1
<1>9. ASSUME NEW c \in Calls, Close(c) \/ Crash(c) PROVE Placed'
  <2>1. UNCHANGED <<chainVars, asked, open, from>> /\ pc' = [pc EXCEPT ![c] = "over"]
    BY <1>9 DEF Close, Crash
  <2> QED BY <2>1
<1>10. ASSUME NEW c \in Calls, Lands(c) PROVE Placed'
  <2>1. /\ tx[c] # "unsent" /\ spentBy[from[c]] = None /\ UNCHANGED <<pc, from, asked, open>>
        /\ spentBy' = [spentBy EXCEPT ![from[c]] = c]
        /\ tx'[c] # "unsent" /\ \A d \in Calls \ {c} : tx'[d] = tx[d]
    BY <1>10 DEF Lands, Sendable
  <2> QED BY <2>1
<1>11. ASSUME NEW c \in Calls, CatchUp(c) \/ TenMinutes(c) \/ Reverts(c) PROVE Placed'
  BY <1>11 DEF CatchUp, TenMinutes, Reverts
<1>12. ASSUME NEW c \in Calls, RefreshPayment(c) PROVE Placed'
  BY <1>12 DEF RefreshPayment
<1>13. ASSUME NEW n \in Notes, OtherSpend(n) \/ RefreshNote(n) PROVE Placed'
  <2>1. CASE RefreshNote(n)
    BY <2>1 DEF RefreshNote
  <2>2. CASE OtherSpend(n)
    <3>1. /\ UNCHANGED <<tx, pc, from, asked, open>>
          /\ spentBy[n] = None /\ spentBy' = [spentBy EXCEPT ![n] = Other]
      BY <2>2 DEF OtherSpend
    <3> QED BY <3>1
  <2> QED BY <1>13, <2>1, <2>2
<1>14. CASE UNCHANGED vars
  BY <1>14 DEF vars
<1> QED
  BY <1>1, <1>2, <1>3, <1>4, <1>5, <1>6, <1>7, <1>8, <1>9, <1>10, <1>11, <1>12, <1>13, <1>14
     DEF Next, CallStep, ChainStep

(* A send that is stopped stays stopped.                                   *)
LEMMA StoppedStays ==
  ASSUME TypeOK, Placed, [Next]_vars, NEW c \in Calls, Stopped(c),
         pc[c] \in After \/ pc'[c] = pc[c]
  PROVE  Stopped(c)'
<1>1. from'[c] = from[c] /\ from[c] \in Notes /\ spentBy[from[c]] # None
  BY Steady DEF Stopped
<1>2. ~Landed(c)'
  BY <1>1, Steady DEF Stopped
<1>3. spentBy'[from[c]] # None
  BY <1>1, Steady
<1> QED BY <1>1, <1>2, <1>3 DEF Stopped

LEMMA AgreeStays ==
  ASSUME TypeOK, Placed, [Next]_vars, NEW s \in Calls, NEW t \in Calls, Agree(s, t),
         pc[s] \in After \/ pc'[s] = pc[s], pc[t] \in After \/ pc'[t] = pc[t]
  PROVE  Agree(s, t)'
BY StoppedStays, Steady DEF Agree

(* What is known of the chain is so, for what is marked is read from it.   *)
LEMMA KnownStep == ASSUME TypeOK, Placed, KnownMeansLanded, [Next]_vars PROVE KnownMeansLanded'
<1>1. /\ \A n \in Notes : note'[n] = "spent" => note[n] = "spent" \/ spentBy'[n] # None
      /\ \A c \in Calls : payment'[c] = "spent" => payment[c] = "spent" \/ Landed(c)
  <2> USE PaymentAssumption DEF TypeOK, Goes, chainVars, noteVars
  <2>1. ASSUME NEW c \in Calls, NEW stale \in BOOLEAN, ClaimPayment(c, stale)
        PROVE  UNCHANGED noteVars
    BY <2>1 DEF ClaimPayment
  <2>2. ASSUME NEW c \in Calls, ReadSpends(c) \/ Close(c) \/ Crash(c) PROVE UNCHANGED noteVars
    BY <2>2 DEF ReadSpends, Close, Crash
  <2>3. ASSUME NEW c \in Calls, ReadPayments(c)
        PROVE  /\ note' = note
               /\ \/ payment' = payment
                  \/ \E s \in Calls : Landed(s) /\ payment' = [payment EXCEPT ![s] = "spent"]
    BY <2>3 DEF ReadPayments
  <2>4. ASSUME NEW S \in SUBSET FoundSpent, NEW n \in Notes, Mark(S)[n] = "spent", note[n] # "spent"
        PROVE  spentBy[n] # None
    BY <2>4 DEF Mark, FoundSpent, ReadsSpent
  <2>5. ASSUME NEW c \in Calls, NEW n \in Notes, Reserve(c, n)
        PROVE  UNCHANGED <<payment, spentBy>> /\ \E S \in SUBSET FoundSpent : note' = [Mark(S) EXCEPT ![n] = "pending"]
    BY <2>5 DEF Reserve
  <2>6. ASSUME NEW c \in Calls, CannotPay(c)
        PROVE  UNCHANGED <<payment, spentBy>> /\ \E S \in SUBSET FoundSpent : note' = Mark(S)
    BY <2>6 DEF CannotPay
  <2>7. ASSUME NEW c \in Calls, MarkSend(c)
        PROVE  /\ note' = note \/ note' = [note EXCEPT ![from[c]] = "unspent"]
               /\ payment' = payment \/ payment' = [payment EXCEPT ![c] = "pending"]
    BY <2>7 DEF MarkSend
  <2>8. ASSUME NEW c \in Calls, Send(c)
        PROVE  /\ note' = note \/ note' = [note EXCEPT ![from[c]] = "unspent"]
               /\ payment' = payment \/ payment' = [payment EXCEPT ![c] = "dead"]
    BY <2>8 DEF Send, StaysDead, Frees
  <2>9. ASSUME NEW c \in Calls, Receipt(c)
        PROVE  /\ \/ note' = note
                  \/ note' = [note EXCEPT ![from[c]] = "unspent"]
                  \/ note' = [note EXCEPT ![from[c]] = "spent"] /\ spentBy'[from[c]] # None
               /\ \/ payment' = payment \/ payment' = [payment EXCEPT ![c] = "dead"]
                  \/ Landed(c) /\ payment' = [payment EXCEPT ![c] = "spent"]
    <3>1. UNCHANGED spentBy /\ from[c] \in Notes
      BY <2>9 DEF Receipt, Placed
    <3>2. tx[c] = "landed" => spentBy[from[c]] # None /\ Landed(c)
      BY <3>1 DEF Placed, Landed
    <3>3. TRUE \in ReadsSpent(from[c]) => spentBy[from[c]] # None
      BY Zenon DEF ReadsSpent
    <3> QED BY <2>9, <3>1, <3>2, <3>3 DEF Receipt, StaysDead, Frees
  <2>10. ASSUME NEW c \in Calls, ChainStep(c) PROVE UNCHANGED noteVars
    BY <2>10 DEF ChainStep, Lands, CatchUp, TenMinutes, Reverts
  <2>11. ASSUME NEW c \in Calls, RefreshPayment(c)
         PROVE  /\ note' = note
                /\ \/ payment' = [payment EXCEPT ![c] = "dead"]
                   \/ Landed(c) /\ payment' = [payment EXCEPT ![c] = "spent"]
    BY <2>11 DEF RefreshPayment, CommitmentSeen
  <2>12. ASSUME NEW n \in Notes, OtherSpend(n) \/ RefreshNote(n)
         PROVE  /\ payment' = payment
                /\ \/ note' = [note EXCEPT ![n] = "unspent"]
                   \/ note' = [note EXCEPT ![n] = "spent"] /\ spentBy'[n] # None
    <3>1. CASE RefreshNote(n)
      <4>1. TRUE \in ReadsSpent(n) => spentBy[n] # None
        BY Zenon DEF ReadsSpent
      <4>2. UNCHANGED <<payment, spentBy>>
        BY <3>1 DEF RefreshNote
      <4>3. \/ note' = [note EXCEPT ![n] = "unspent"]
            \/ note' = [note EXCEPT ![n] = "spent"] /\ spentBy[n] # None
        BY <3>1, <4>1, Zenon DEF RefreshNote
      <4> QED BY <4>2, <4>3
    <3>2. CASE OtherSpend(n)
      BY <3>2 DEF OtherSpend
    <3> QED BY <2>12, <3>1, <3>2
  <2>13. CASE UNCHANGED vars
    BY <2>13 DEF vars
  <2>14. ASSUME NEW S \in SUBSET FoundSpent, UNCHANGED <<payment, spentBy>>,
                note' = Mark(S) \/ \E n \in Notes : note' = [Mark(S) EXCEPT ![n] = "pending"]
         PROVE  <1>1!1
    BY <2>4, <2>14 DEF Mark
  <2> QED
    BY <2>1, <2>2, <2>3, <2>5, <2>6, <2>7, <2>8, <2>9, <2>10, <2>11, <2>12, <2>13, <2>14
       DEF Next, CallStep
<1> QED BY <1>1, Steady DEF KnownMeansLanded

-----------------------------------------------------------------------------
(* What a step does to the record: it is kept but for its flags, taken     *)
(* over by a call that finds its sends there, given a send by its holder,  *)
(* or dropped with no send on it or with a payment that was heard of.      *)
Keeps ==
  /\ record' = None <=> record = None
  /\ record # None => record'.by = record.by
  /\ Sends' = Sends /\ UNCHANGED <<asked, heard>>
TakesOver(c) ==
  /\ pc[c] = "off" /\ record' # None /\ record'.by = c
  /\ Sends' = Sends /\ UNCHANGED <<chainVars, heard, from>>
  /\ \/ pc' = [pc EXCEPT ![c] = "found"] /\ asked' = [asked EXCEPT ![c] = Sends]
     \/ pc' = [pc EXCEPT ![c] = "asking"] /\ asked' = [asked EXCEPT ![c] = Sends]
     \/ pc' = [pc EXCEPT ![c] = "paying"] /\ asked' = asked /\ Sends = {}
Adds(c) ==
  /\ pc[c] = "reserved" /\ pc' = [pc EXCEPT ![c] = "marked"]
  /\ record # None /\ record.by = c /\ record' # None /\ record'.by = c
  /\ Sends' = Sends \cup {c} /\ payment'[c] # "absent"
  /\ UNCHANGED <<world, once, spentBy, tx, behind, asked, heard, from>>
Drops(c) ==
  /\ record' = None /\ UNCHANGED <<chainVars, asked>>
  /\ \/ Sends = {} /\ heard' = heard
     \/ ~once /\ heard' = heard + 1 /\ \E s \in Sends : Landed(s)

LEMMA SendsAreKept ==
  ASSUME TypeOK, Recorded, record # None
  PROVE  SendsOf(record) = Sends /\ Sends \subseteq Calls
BY DEF TypeOK, PaymentAttempt, Recorded, Chosen, Sends, SendsOf

LEMMA FlagsKeep ==
  ASSUME TypeOK, UNCHANGED <<asked, heard>>,
         \/ record' = record
         \/ record # None /\ record' = [record EXCEPT !.retried = TRUE]
         \/ record # None /\ record' = [record EXCEPT !.closed = TRUE]
  PROVE  Keeps
<1>1. record # None => record \in PaymentAttempt
  BY DEF TypeOK
<1>2. None \notin PaymentAttempt
  BY PaymentAssumption
<1>3. CASE record' = record
  BY <1>3 DEF Keeps, Sends
<1>4. CASE record # None /\ record' = [record EXCEPT !.retried = TRUE]
  <2>1. record' \in PaymentAttempt /\ record'.by = record.by /\ record'.sends = record.sends
    BY <1>1, <1>4 DEF PaymentAttempt
  <2> QED BY <1>2, <1>4, <2>1 DEF Keeps, Sends
<1>5. CASE record # None /\ record' = [record EXCEPT !.closed = TRUE]
  <2>1. record' \in PaymentAttempt /\ record'.by = record.by /\ record'.sends = record.sends
    BY <1>1, <1>5 DEF PaymentAttempt
  <2> QED BY <1>2, <1>5, <2>1 DEF Keeps, Sends
<1> QED BY <1>3, <1>4, <1>5

LEMMA ClaimOfRecord ==
  ASSUME TypeOK, Recorded, NEW c \in Calls, NEW stale \in BOOLEAN, ClaimPayment(c, stale)
  PROVE  Keeps \/ TakesOver(c)
<1>0. None \notin PaymentAttempt
  BY PaymentAssumption
<1>1. UNCHANGED <<chainVars, heard, from>> /\ pc[c] = "off"
  BY DEF ClaimPayment, noteVars
<1>2. CASE record # None /\ record' = [record EXCEPT !.retried = TRUE] /\ asked' = asked
  BY <1>1, <1>2, FlagsKeep
<1>3. CASE /\ record # None
           /\ record' = [record EXCEPT !.by = c, !.closed = FALSE, !.retried = FALSE]
           /\ asked' = [asked EXCEPT ![c] = SendsOf(record)]
           /\ pc' \in {[pc EXCEPT ![c] = "found"], [pc EXCEPT ![c] = "asking"]}
  <2>1. record \in PaymentAttempt
    BY <1>3 DEF TypeOK
  <2>2. record' \in PaymentAttempt /\ record'.by = c /\ record'.sends = record.sends
    BY <1>3, <2>1 DEF PaymentAttempt
  <2>3. Sends' = Sends /\ asked' = [asked EXCEPT ![c] = Sends]
    BY <1>0, <1>3, <2>2, SendsAreKept DEF Sends
  <2> QED BY <1>0, <1>1, <1>3, <2>2, <2>3 DEF TakesOver
<1>4. CASE /\ ~HasSends /\ asked' = asked /\ pc' = [pc EXCEPT ![c] = "paying"]
           /\ record' = [by |-> c, sends |-> {}, closed |-> FALSE, retried |-> FALSE]
  <2>1. Sends = {}
    BY <1>4, SendsAreKept DEF HasSends, Sends
  <2>2. record' \in PaymentAttempt /\ record'.by = c /\ record'.sends = {}
    BY <1>4 DEF PaymentAttempt
  <2>3. Sends' = Sends
    BY <1>0, <2>1, <2>2 DEF Sends
  <2> QED BY <1>0, <1>1, <1>4, <2>1, <2>2, <2>3 DEF TakesOver
<1>5. \/ record # None /\ record' = [record EXCEPT !.retried = TRUE] /\ asked' = asked
      \/ /\ record # None
         /\ record' = [record EXCEPT !.by = c, !.closed = FALSE, !.retried = FALSE]
         /\ asked' = [asked EXCEPT ![c] = SendsOf(record)]
         /\ pc' \in {[pc EXCEPT ![c] = "found"], [pc EXCEPT ![c] = "asking"]}
      \/ /\ ~HasSends /\ asked' = asked /\ pc' = [pc EXCEPT ![c] = "paying"]
         /\ record' = [by |-> c, sends |-> {}, closed |-> FALSE, retried |-> FALSE]
  BY DEF ClaimPayment, Running, HasSends, Goes
<1> QED BY <1>2, <1>3, <1>4, <1>5

LEMMA CloseOfRecord ==
  ASSUME TypeOK, Recorded, KnownMeansLanded, NEW c \in Calls, Close(c)
  PROVE  Keeps \/ Drops(c)
<1>1. UNCHANGED <<chainVars, asked>>
  BY Zenon DEF Close
<1>2. \/ UNCHANGED <<record, heard>>
      \/ record # None /\ SendsOf(record) = {} /\ record' = None /\ UNCHANGED heard
      \/ /\ record # None /\ ~once /\ record' = None /\ heard' = heard + 1
         /\ \E s \in SendsOf(record) : payment[s] = "spent"
      \/ record # None /\ record' = [record EXCEPT !.closed = TRUE] /\ UNCHANGED heard
  BY Zenon DEF Close, Closed
<1>3. record # None => SendsOf(record) = Sends /\ Sends \subseteq Calls
  BY SendsAreKept
<1>4. CASE UNCHANGED <<record, heard>>
  BY <1>1, <1>4, FlagsKeep
<1>5. CASE record # None /\ record' = [record EXCEPT !.closed = TRUE] /\ UNCHANGED heard
  BY <1>1, <1>5, FlagsKeep
<1>6. CASE record # None /\ SendsOf(record) = {} /\ record' = None /\ UNCHANGED heard
  BY <1>1, <1>3, <1>6 DEF Drops
<1>7. CASE /\ record # None /\ ~once /\ record' = None /\ heard' = heard + 1
           /\ \E s \in SendsOf(record) : payment[s] = "spent"
  BY <1>1, <1>3, <1>7 DEF Drops, KnownMeansLanded
<1> QED BY <1>2, <1>4, <1>5, <1>6, <1>7

LEMMA MarkOfRecord ==
  ASSUME TypeOK, Recorded, NEW c \in Calls, MarkSend(c)
  PROVE  Adds(c) \/ (Keeps /\ pc'[c] = "failed")
<1>1. CASE Holds(c)
  <2>1. /\ pc[c] = "reserved" /\ pc' = [pc EXCEPT ![c] = "marked"]
        /\ record # None /\ record.by = c
        /\ record' = [record EXCEPT !.sends = @ \cup {c}]
        /\ payment' = [payment EXCEPT ![c] = "pending"]
        /\ UNCHANGED <<world, once, spentBy, tx, behind, asked, heard, from>>
    BY <1>1 DEF MarkSend, Holds, Goes
  <2>2. record \in PaymentAttempt
    BY <2>1 DEF TypeOK
  <2>3. record' \in PaymentAttempt /\ record'.by = c /\ record'.sends = record.sends \cup {c}
    BY <2>1, <2>2 DEF PaymentAttempt
  <2>4. payment'[c] = "pending"
    BY <2>1 DEF TypeOK
  <2> QED BY <2>1, <2>3, <2>4, PaymentAssumption DEF Adds, Sends
<1>2. CASE ~Holds(c)
  <2>1. UNCHANGED <<record, asked, heard>> /\ pc' = [pc EXCEPT ![c] = "failed"]
    BY <1>2 DEF MarkSend, Goes
  <2> QED BY <2>1, FlagsKeep DEF TypeOK
<1> QED BY <1>1, <1>2

LEMMA RecordStep ==
  ASSUME TypeOK, Recorded, KnownMeansLanded, [Next]_vars
  PROVE  Keeps \/ \E c \in Calls : TakesOver(c) \/ Adds(c) \/ Drops(c)
<1>1. ASSUME NEW c \in Calls, NEW stale \in BOOLEAN, ClaimPayment(c, stale)
      PROVE  Keeps \/ TakesOver(c)
  BY <1>1, ClaimOfRecord
<1>2. ASSUME NEW c \in Calls, MarkSend(c) PROVE Keeps \/ Adds(c)
  BY <1>2, MarkOfRecord
<1>3. ASSUME NEW c \in Calls, Close(c) PROVE Keeps \/ Drops(c)
  BY <1>3, CloseOfRecord
<1>5. ASSUME NEW c \in Calls,
             \/ ReadSpends(c) \/ ReadPayments(c) \/ CannotPay(c) \/ Send(c) \/ Receipt(c) \/ Crash(c)
             \/ (\E n \in Notes : Reserve(c, n)) \/ ChainStep(c) \/ RefreshPayment(c)
      PROVE  UNCHANGED <<record, asked, heard>>
  BY <1>5 DEF ReadSpends, ReadPayments, CannotPay, Send, Receipt, Crash, Reserve, ChainStep,
              Lands, CatchUp, TenMinutes, Reverts, RefreshPayment, callVars
<1>6. ASSUME NEW n \in Notes, OtherSpend(n) \/ RefreshNote(n)
      PROVE  UNCHANGED <<record, asked, heard>>
  BY <1>6 DEF OtherSpend, RefreshNote, callVars
<1>7. CASE UNCHANGED vars
  BY <1>7, FlagsKeep DEF vars, callVars
<1>8. UNCHANGED <<record, asked, heard>> => Keeps
  BY FlagsKeep
<1> QED
  BY <1>1, <1>2, <1>3, <1>5, <1>6, <1>7, <1>8, Zenon DEF Next, CallStep

-----------------------------------------------------------------------------
(* How a call comes to be where the invariant says something of it.        *)
LEMMA Moves ==
  ASSUME TypeOK, Placed, [Next]_vars, NEW c \in Calls
  PROVE  /\ pc'[c] = "off" => pc[c] = "off"
         /\ pc'[c] = "asking" => pc[c] \in {"off", "asking"}
         /\ pc'[c] = "reading" => ReadSpends(c) \/ (pc[c] = "reading" /\ open'[c] = open[c])
         /\ pc'[c] = "paying" => ReadPayments(c) \/ pc[c] \in {"off", "paying"}
         /\ pc'[c] = "reserved" => pc[c] = "reserved" \/ \E n \in Notes : Reserve(c, n)
         /\ pc'[c] = "marked" => pc[c] = "marked" \/ MarkSend(c)
         /\ Sendable(c)' => Sendable(c) \/ Send(c)
<1> DEFINE Same == UNCHANGED <<pc, open>> /\ (Sendable(c)' => Sendable(c))
<1> USE DEF Goes, chainVars, noteVars, callVars, Sendable, TypeOK
<1>1. ASSUME NEW d \in Calls, NEW stale \in BOOLEAN, ClaimPayment(d, stale)
      PROVE  /\ pc[d] = "off" /\ UNCHANGED <<tx, open>>
             /\ \E to \in {"over", "found", "asking", "paying"} : pc' = [pc EXCEPT ![d] = to]
  BY <1>1 DEF ClaimPayment
<1>2. ASSUME NEW d \in Calls, ReadSpends(d)
      PROVE  /\ pc' = [pc EXCEPT ![d] = "reading"] /\ tx' = tx
             /\ \E S : open' = [open EXCEPT ![d] = S]
  BY <1>2 DEF ReadSpends
<1>3. ASSUME NEW d \in Calls, ReadPayments(d)
      PROVE  /\ \E to \in {"found", "paying", "failed"} : pc' = [pc EXCEPT ![d] = to]
             /\ open' = [open EXCEPT ![d] = {}] /\ tx' = tx
  BY <1>3 DEF ReadPayments
<1>4. ASSUME NEW d \in Calls, NEW n \in Notes, Reserve(d, n)
      PROVE  pc' = [pc EXCEPT ![d] = "reserved"] /\ UNCHANGED <<tx, open>>
  BY <1>4 DEF Reserve
<1>5. ASSUME NEW d \in Calls, MarkSend(d)
      PROVE  /\ \E to \in {"marked", "failed"} : pc' = [pc EXCEPT ![d] = to]
             /\ UNCHANGED <<tx, open>>
  BY <1>5 DEF MarkSend
<1>6. ASSUME NEW d \in Calls, Send(d)
      PROVE  /\ \E to \in {"sent", "failed"} : pc' = [pc EXCEPT ![d] = to]
             /\ \E s : tx' = [tx EXCEPT ![d] = s]
             /\ open' = open
  BY <1>6 DEF Send
<1>7. ASSUME NEW d \in Calls, CannotPay(d) \/ Receipt(d) \/ Close(d) \/ Crash(d)
      PROVE  /\ \E to \in {"found", "failed", "over"} : pc' = [pc EXCEPT ![d] = to]
             /\ UNCHANGED <<tx, open>>
  BY <1>7 DEF CannotPay, Receipt, Close, Crash
<1>8. ASSUME NEW d \in Calls, ChainStep(d) PROVE Same
  <2>1. /\ UNCHANGED <<pc, open>>
        /\ \/ tx' = tx \/ tx' = [tx EXCEPT ![d] = "landed"]
           \/ tx[d] = "out" /\ tx' = [tx EXCEPT ![d] = "reverted"]
    <3>1. CASE Lands(d)
      BY <3>1 DEF Lands
    <3>2. CASE CatchUp(d) \/ TenMinutes(d) \/ Reverts(d)
      BY <3>2 DEF CatchUp, TenMinutes, Reverts
    <3> QED BY <1>8, <3>1, <3>2 DEF ChainStep
  <2> QED BY <2>1
<1>9. ASSUME NEW d \in Calls, RefreshPayment(d) PROVE Same
  BY <1>9 DEF RefreshPayment
<1>10. ASSUME NEW n \in Notes, OtherSpend(n) \/ RefreshNote(n) PROVE Same
  BY <1>10 DEF OtherSpend, RefreshNote
<1>11. CASE UNCHANGED vars
  BY <1>11 DEF vars
<1>12. CASE \E d \in Calls : CallStep(d)
  <2> PICK d \in Calls : CallStep(d)
    BY <1>12
  <2>1. CASE d = c
    BY <1>1, <1>2, <1>3, <1>4, <1>5, <1>6, <1>7, <2>1 DEF CallStep
  <2>2. CASE d # c
    <3>1. pc'[c] = pc[c] /\ open'[c] = open[c] /\ tx'[c] = tx[c]
      BY <1>1, <1>2, <1>3, <1>4, <1>5, <1>6, <1>7, <2>2 DEF CallStep
    <3> QED BY <3>1
  <2> QED BY <2>1, <2>2
<1> QED
  BY <1>8, <1>9, <1>10, <1>11, <1>12 DEF Next

LEMMA RecordedStep ==
  ASSUME TypeOK, Placed, Recorded, KnownMeansLanded, [Next]_vars PROVE Recorded'
<1> DEFINE Fit(s) == pc[s] \in After /\ from[s] \in Notes /\ payment[s] # "absent"
<1>1. \A s \in Calls : Fit(s) => Fit(s)'
  BY Steady
<1>2. Sends \subseteq Calls /\ \A c \in Calls : asked[c] \subseteq Calls
  BY DEF TypeOK, Sends, PaymentAttempt
<1>3. (\A s \in Sends : Fit(s)) /\ \A c \in Calls : \A s \in asked[c] : Fit(s)
  BY DEF Recorded, Chosen
<1>4. CASE Keeps
  BY <1>1, <1>2, <1>3, <1>4 DEF Keeps, Recorded, Chosen
<1>5. ASSUME NEW d \in Calls, TakesOver(d) PROVE Recorded'
  <2>1. Sends' = Sends /\ (asked' = asked \/ asked' = [asked EXCEPT ![d] = Sends])
    BY <1>5 DEF TakesOver
  <2>2. \A c \in Calls : asked'[c] \subseteq asked[c] \cup Sends
    BY <2>1 DEF TypeOK
  <2> QED BY <1>1, <1>2, <1>3, <2>1, <2>2 DEF Recorded, Chosen
<1>6. ASSUME NEW d \in Calls, Adds(d) PROVE Recorded'
  <2>1. pc'[d] \in After /\ from'[d] \in Notes /\ payment'[d] # "absent"
    BY <1>6 DEF Adds, TypeOK, Placed, After
  <2> QED BY <1>1, <1>2, <1>3, <1>6, <2>1 DEF Adds, Recorded, Chosen
<1>7. ASSUME NEW d \in Calls, Drops(d) PROVE Recorded'
  <2>1. Sends' = {} /\ asked' = asked
    BY <1>7 DEF Drops, Sends
  <2> QED BY <1>1, <1>2, <1>3, <2>1 DEF Recorded, Chosen
<1> QED BY <1>4, <1>5, <1>6, <1>7, RecordStep

LEMMA BehindStep ==
  ASSUME NotBoth, TypeOK, BehindIsRecent, [Next]_vars PROVE BehindIsRecent'
<1> USE DEF BehindIsRecent, chainVars
<1>1. ASSUME NEW c \in Calls, CallStep(c) PROVE behind' = behind /\ recent \subseteq recent'
  BY <1>1 DEF CallStep, ClaimPayment, ReadSpends, ReadPayments, CannotPay, MarkSend, Send,
              Receipt, Close, Crash, Reserve
<1>2. ASSUME NEW c \in Calls, Lands(c) PROVE BehindIsRecent'
  BY <1>2 DEF Lands, NotBoth, TypeOK
<1>3. ASSUME NEW c \in Calls, CatchUp(c) \/ TenMinutes(c) PROVE BehindIsRecent'
  BY <1>3 DEF CatchUp, TenMinutes
<1>4. ASSUME NEW c \in Calls, Reverts(c) \/ RefreshPayment(c) PROVE UNCHANGED <<behind, recent>>
  BY <1>4 DEF Reverts, RefreshPayment
<1>5. ASSUME NEW n \in Notes, OtherSpend(n) \/ RefreshNote(n) PROVE UNCHANGED <<behind, recent>>
  BY <1>5 DEF OtherSpend, RefreshNote
<1>6. CASE UNCHANGED vars
  BY <1>6 DEF vars
<1> QED BY <1>1, <1>2, <1>3, <1>4, <1>5, <1>6 DEF Next, ChainStep

(* A node shows a spend only of a note that is spent.                      *)
LEMMA ReadSpendsRight ==
  ASSUME NEW c \in Calls, ReadSpends(c), TypeOK, Recorded
  PROVE  /\ UNCHANGED <<chainVars, from, asked>>
         /\ \A s \in asked[c] \ open'[c] : spentBy[from[s]] # None
<1>1. PICK spent \in [Notes -> BOOLEAN] :
        /\ \A n \in Notes : spent[n] \in ReadsSpent(n)
        /\ open' = [open EXCEPT ![c] = {s \in asked[c] : ~spent[from[s]]}]
  BY DEF ReadSpends
<1>2. \A n \in Notes : spent[n] => spentBy[n] # None
  BY <1>1 DEF ReadsSpent
<1>3. \A s \in asked[c] : from[s] \in Notes
  BY DEF Recorded, Chosen
<1>4. open'[c] = {s \in asked[c] : ~spent[from[s]]}
  BY <1>1 DEF TypeOK
<1> QED BY <1>2, <1>3, <1>4 DEF ReadSpends

LEMMA ReadStep ==
  ASSUME IInv, [Next]_vars PROVE ReadIsSpent'
<1> USE DEF IInv
<1> SUFFICES ASSUME NEW c \in Calls, pc'[c] = "reading", NEW s \in asked'[c] \ open'[c]
             PROVE  spentBy'[from'[s]] # None
  BY DEF ReadIsSpent
<1>1. ASSUME s \in asked[c], spentBy[from[s]] # None PROVE spentBy'[from'[s]] # None
  <2>1. s \in Calls /\ pc[s] \in After /\ from[s] \in Notes
    BY <1>1 DEF Recorded, Chosen, TypeOK
  <2>2. from'[s] = from[s] /\ spentBy'[from[s]] = spentBy[from[s]]
    BY <1>1, <2>1, Steady
  <2> QED BY <1>1, <2>2
<1>2. asked'[c] = asked[c]
  <2>1. ASSUME NEW d \in Calls, TakesOver(d) PROVE asked'[c] = asked[c]
    <3>1. pc'[d] # "reading" /\ (asked' = asked \/ asked' = [asked EXCEPT ![d] = Sends])
      BY <2>1 DEF TakesOver, TypeOK
    <3> QED BY <3>1 DEF TypeOK
  <2> QED BY <2>1, RecordStep DEF Keeps, Adds, Drops
<1>3. CASE ReadSpends(c)
  BY <1>1, <1>2, <1>3, ReadSpendsRight
<1>4. CASE pc[c] = "reading" /\ open'[c] = open[c]
  BY <1>1, <1>2, <1>4 DEF ReadIsSpent
<1> QED BY <1>3, <1>4, Moves

LEMMA OpenStep ==
  ASSUME IInv, [Next]_vars PROVE OpenIsOnRecord'
<1> USE DEF IInv
<1> SUFFICES ASSUME NEW c \in Calls, pc'[c] = "marked" \/ Sendable(c)', spentBy'[from'[c]] = None
             PROVE  c \in Sends'
  BY DEF OpenIsOnRecord
<1>1. CASE MarkSend(c) /\ pc'[c] = "marked"
  <2>1. Adds(c)
    BY <1>1, MarkOfRecord
  <2> QED BY <2>1 DEF Adds
<1>2. CASE pc[c] = "marked" \/ Sendable(c)
  <2>1. pc[c] \in After /\ from[c] \in Notes
    BY <1>2 DEF Placed, Sendable, Early, After, TypeOK
  <2>2. spentBy[from[c]] = None
    BY <2>1, Steady
  <2>3. c \in Sends
    BY <1>2, <2>2 DEF OpenIsOnRecord
  <2>4. ASSUME NEW d \in Calls, Drops(d) PROVE FALSE
    <3>1. PICK s \in Sends : Landed(s)
      BY <2>3, <2>4 DEF Drops
    <3>2. spentBy[from[s]] = s /\ s # None
      BY <3>1, PaymentAssumption DEF Placed, Landed, TypeOK, Sends, PaymentAttempt
    <3>3. Agree(s, c)
      BY <2>3 DEF OneNote
    <3> QED BY <2>2, <3>1, <3>2, <3>3 DEF Agree, Stopped
  <2> QED BY <2>3, <2>4, RecordStep DEF Keeps, TakesOver, Adds
<1>3. Send(c) => pc[c] = "marked"
  BY DEF Send
<1> QED BY <1>1, <1>2, <1>3, Moves

(* Of the sends on the record one lands at most: no two of them, paying    *)
(* from one note, can.                                                     *)
LEMMA OneLands ==
  ASSUME IInv, NEW s \in Sends, Landed(s)
  PROVE  Paid = (Paid \ Sends) \cup {s}
<1> USE DEF IInv
<1>1. Sends \subseteq Calls
  BY DEF TypeOK, Sends, PaymentAttempt
<1>2. ASSUME NEW t \in Sends, Landed(t) PROVE t = s
  <2>1. from[s] = from[t]
    BY <1>2 DEF OneNote, Agree, Stopped
  <2> QED BY <1>1, <1>2, <2>1 DEF Placed, Landed
<1> QED BY <1>1, <1>2 DEF Paid

LEMMA HeardStep ==
  ASSUME IInv, [Next]_vars PROVE HeardIsCounted'
<1> USE DEF IInv
<1>1. once' = once
  BY Steady
<1>2. IsFiniteSet(Paid \ Sends) /\ Cardinality(Paid \ Sends) \in Nat
  <2>1. Paid \ Sends \in SUBSET Calls
    BY DEF Paid
  <2> QED BY <2>1, FS_Subset, FS_CardinalityType, PaymentAssumption
<1>3. ASSUME Sends \subseteq Sends', heard' = heard PROVE HeardIsCounted'
  <2>1. ASSUME NEW c \in Calls, Landed(c)', ~Landed(c) PROVE c \in Sends
    BY <2>1, Steady DEF OpenIsOnRecord
  <2>2. (Paid \ Sends)' \in SUBSET (Paid \ Sends)
    BY <1>3, <2>1 DEF Paid
  <2>3. Cardinality((Paid \ Sends)') <= Cardinality(Paid \ Sends)
    BY <1>2, <2>2, FS_Subset
  <2>4. Cardinality((Paid \ Sends)') \in Nat
    BY <1>2, <2>2, FS_Subset, FS_CardinalityType
  <2> QED BY <1>1, <1>2, <1>3, <2>3, <2>4 DEF HeardIsCounted, TypeOK
<1>4. ASSUME NEW d \in Calls, Drops(d) PROVE HeardIsCounted'
  <2>1. Sends' = {} /\ Paid' = Paid
    BY <1>4 DEF Drops, Sends, Paid, Landed, chainVars
  <2>2. CASE Sends = {} /\ heard' = heard
    BY <1>3, <2>1, <2>2
  <2>3. CASE ~once /\ heard' = heard + 1 /\ \E s \in Sends : Landed(s)
    <3>1. PICK s \in Sends : Landed(s)
      BY <2>3
    <3>2. (Paid \ Sends)' = (Paid \ Sends) \cup {s}
      BY <2>1, <3>1, OneLands
    <3>3. Cardinality((Paid \ Sends)') = Cardinality(Paid \ Sends) + 1
      BY <1>2, <3>2, FS_AddElement
    <3> QED BY <1>1, <1>2, <2>3, <3>3 DEF HeardIsCounted, TypeOK
  <2> QED BY <1>4, <2>2, <2>3 DEF Drops
<1> QED BY <1>3, <1>4, RecordStep DEF Keeps, TakesOver, Adds

-----------------------------------------------------------------------------
(* A call that has read the sends of the record pays from a note that      *)
(* agrees with each: from any when all are stopped, which none that landed *)
(* unseen would be, for it would be recent; else from the one note of      *)
(* those it has not read as stopped.                                       *)
LEMMA ReadPaymentsAgrees ==
  ASSUME IInv, [Next]_vars, NEW c \in Calls, ReadPayments(c), pc'[c] = "paying", asked[c] = Sends
  PROVE  \A s \in Sends : Agree(s, c)'
<1> USE DEF IInv
<1>1. SUFFICES ASSUME NEW s \in Sends PROVE Agree(s, c)'
  OBVIOUS
<1>2. pc[c] = "reading" /\ UNCHANGED chainVars
  BY DEF ReadPayments
<1>3. s \in Calls /\ pc[s] \in After /\ from[s] \in Notes /\ s # c
  BY <1>2 DEF Recorded, Chosen, TypeOK, After
<1>4. from'[s] = from[s]
  BY <1>3, Steady
<1>5. Landed(s) => s \in behind
  BY DEF ReadPayments, TypeOK, Goes
<1>6. s \notin open[c] => spentBy[from[s]] # None
  BY <1>2 DEF ReadIsSpent
<1>7. CASE open[c] = {} /\ NoneIsRecent(asked[c])
  <2>1. s \notin recent
    BY <1>7 DEF NoneIsRecent
  <2>2. ~Landed(s)
    BY <1>5, <2>1 DEF BehindIsRecent
  <2> QED BY <1>2, <1>3, <1>4, <1>6, <1>7, <2>2 DEF Agree, Stopped, Landed, chainVars
<1>8. CASE /\ Cardinality({from[t] : t \in open[c]}) = 1
           /\ \E n \in TheirNote(open[c]) : from' = [from EXCEPT ![c] = n]
  <2>1. open[c] \subseteq Sends
    BY <1>2 DEF Placed
  <2>2. {from[t] : t \in open[c]} \in SUBSET Notes
    BY <2>1 DEF Recorded, Chosen
  <2>3. IsFiniteSet({from[t] : t \in open[c]})
    BY <2>2, FS_Subset, PaymentAssumption
  <2>4. PICK n : {from[t] : t \in open[c]} = {n}
    BY <1>8, <2>3, FS_Singleton
  <2>5. from'[c] = n /\ n \in Notes
    BY <1>8, <2>2, <2>4 DEF TheirNote, TypeOK
  <2>6. PICK t \in open[c] : from[t] = n
    BY <2>4
  <2>7. CASE s \in open[c]
    BY <1>4, <2>4, <2>5, <2>7 DEF Agree
  <2>8. CASE s \notin open[c]
    <3>1. from[s] = n \/ Stopped(s) \/ Stopped(t)
      BY <2>1, <2>6 DEF OneNote, Agree
    <3>2. CASE from[s] = n
      BY <1>4, <2>5, <3>2 DEF Agree
    <3>3. CASE Stopped(s)
      BY <1>3, <3>3, StoppedStays DEF Agree
    <3>4. CASE Stopped(t)
      <4>1. spentBy[n] # None /\ ~Landed(c)
        BY <1>2, <2>6, <3>4 DEF Stopped, Placed, Landed, Early
      <4> QED BY <1>2, <2>5, <4>1 DEF Agree, Stopped, Landed, chainVars
    <3> QED BY <3>1, <3>2, <3>3, <3>4
  <2> QED BY <2>7, <2>8
<1> QED BY <1>7, <1>8 DEF ReadPayments, Goes, TypeOK

LEMMA HolderStep ==
  ASSUME IInv, [Next]_vars PROVE HolderAgrees'
<1> USE DEF IInv
<1> SUFFICES ASSUME NEW c \in Calls, record' # None, record'.by = c
             PROVE  /\ pc'[c] # "off"
                    /\ pc'[c] \in {"asking", "reading"} => asked'[c] = Sends'
                    /\ pc'[c] \in {"paying", "reserved"} => \A s \in Sends' : Agree(s, c)'
  BY DEF HolderAgrees
<1>1. CASE Keeps
  <2>1. record # None /\ record.by = c /\ Sends' = Sends /\ asked' = asked
    BY <1>1 DEF Keeps
  <2>2. pc'[c] # "off"
    BY <2>1, Moves DEF HolderAgrees
  <2>3. pc'[c] \in {"asking", "reading"} => asked'[c] = Sends'
    <3>1. ReadSpends(c) => pc[c] = "asking"
      BY DEF ReadSpends
    <3> QED BY <2>1, <3>1, Moves DEF HolderAgrees
  <2>4. ASSUME pc'[c] \in {"paying", "reserved"}, NEW s \in Sends PROVE Agree(s, c)'
    <3>1. s \in Calls /\ pc[s] \in After /\ from[s] \in Notes
      BY DEF Recorded, Chosen, TypeOK, Sends, PaymentAttempt
    <3>2. CASE ReadPayments(c) /\ pc'[c] = "paying"
      <4>1. pc[c] = "reading"
        BY <3>2 DEF ReadPayments
      <4>2. asked[c] = Sends
        BY <2>1, <4>1 DEF HolderAgrees
      <4> QED BY <3>2, <4>2, ReadPaymentsAgrees
    <3>3. CASE pc[c] \in {"paying", "reserved"} /\ pc'[c] = pc[c]
      <4>1. Agree(s, c)
        BY <2>1, <3>3 DEF HolderAgrees
      <4> QED BY <3>1, <3>3, <4>1, AgreeStays
    <3>4. ASSUME NEW n \in Notes, Reserve(c, n) PROVE Agree(s, c)'
      <4>1. /\ pc[c] = "paying" /\ from[c] \in {n, None} /\ UNCHANGED chainVars
            /\ from' = [from EXCEPT ![c] = n]
        BY <3>4 DEF Reserve
      <4>2. Agree(s, c) /\ s # c
        BY <2>1, <3>1, <4>1 DEF HolderAgrees, After
      <4>3. from'[s] = from[s] /\ from'[c] = n
        BY <3>1, <4>1, <4>2 DEF TypeOK
      <4>4. CASE from[c] = n
        BY <4>1, <4>2, <4>3, <4>4 DEF Agree, Stopped, Landed, chainVars
      <4>5. CASE from[c] = None
        <5>1. None \notin Notes
          BY PaymentAssumption
        <5>2. Stopped(s)
          BY <3>1, <4>2, <4>5, <5>1 DEF Agree, Stopped
        <5> QED BY <3>1, <5>2, StoppedStays DEF Agree
      <4> QED BY <4>1, <4>4, <4>5
    <3> QED BY <2>1, <2>4, <3>2, <3>3, <3>4, Moves DEF HolderAgrees
  <2> QED BY <2>1, <2>2, <2>3, <2>4
<1>2. ASSUME NEW d \in Calls, TakesOver(d)
      PROVE  /\ pc'[c] # "off"
             /\ pc'[c] \in {"asking", "reading"} => asked'[c] = Sends'
             /\ pc'[c] \in {"paying", "reserved"} => Sends' = {}
  <2>1. c = d /\ Sends' = Sends
    BY <1>2 DEF TakesOver
  <2>2. \/ pc'[c] = "found"
        \/ pc'[c] = "asking" /\ asked'[c] = Sends
        \/ pc'[c] = "paying" /\ Sends = {}
    BY <1>2, <2>1 DEF TakesOver, TypeOK
  <2> QED BY <2>1, <2>2
<1>3. ASSUME NEW d \in Calls, Adds(d) PROVE pc'[c] = "marked"
  BY <1>3 DEF Adds, TypeOK
<1>4. ASSUME NEW d \in Calls, Drops(d) PROVE FALSE
  BY <1>4 DEF Drops
<1> QED BY <1>1, <1>2, <1>3, <1>4, RecordStep

LEMMA OneNoteStep ==
  ASSUME IInv, [Next]_vars PROVE OneNote'
<1> USE DEF IInv
<1>1. \A s \in Sends : s \in Calls /\ pc[s] \in After
  BY DEF Recorded, Chosen, TypeOK, Sends, PaymentAttempt
<1>2. ASSUME NEW s \in Sends, NEW t \in Sends PROVE Agree(s, t)'
  BY <1>1, AgreeStays DEF OneNote
<1>3. ASSUME NEW c \in Calls, Adds(c) PROVE OneNote'
  <2>1. \A s \in Sends : Agree(s, c)
    BY <1>3 DEF Adds, HolderAgrees
  <2>2. \A s \in Sends : Agree(s, c)' /\ Agree(c, s)'
    BY <1>3, <2>1 DEF Adds, Agree, Stopped, Landed
  <2>3. Agree(c, c)'
    BY DEF Agree
  <2> QED BY <1>2, <1>3, <2>2, <2>3 DEF Adds, OneNote
<1>4. ASSUME NEW c \in Calls, Drops(c) PROVE OneNote'
  BY <1>4 DEF Drops, Sends, OneNote
<1> QED BY <1>2, <1>3, <1>4, RecordStep DEF Keeps, TakesOver, OneNote

LEMMA IInvStep == NotBoth /\ IInv /\ [Next]_vars => IInv'
<1> SUFFICES ASSUME NotBoth, IInv, [Next]_vars PROVE IInv'
  OBVIOUS
<1>1. TypeOK' /\ Placed' /\ Recorded' /\ KnownMeansLanded' /\ BehindIsRecent'
  BY TypeStep, PlacedStep, RecordedStep, KnownStep, BehindStep DEF IInv
<1>2. OpenIsOnRecord' /\ OneNote' /\ ReadIsSpent' /\ HolderAgrees' /\ HeardIsCounted'
  BY OpenStep, OneNoteStep, ReadStep, HolderStep, HeardStep
<1> QED BY <1>1, <1>2 DEF IInv

(* The invariant holds of every reachable state, where no network is both  *)
(* behind and late.                                                        *)
THEOREM InvHolds == ASSUME NotBoth PROVE Spec => []IInv
<1> QED BY InitInv, IInvStep, PTL DEF Spec

(* The purchase's state has its type.                                      *)
THEOREM TypeCorrect == ASSUME NotBoth PROVE Spec => []TypeOK
<1>1. IInv => TypeOK
  BY DEF IInv
<1> QED BY <1>1, InvHolds, PTL

(* One payment lands for each answer that arrived and one more, and only   *)
(* one of a challenge, however often the purchase is asked for, by however *)
(* many calls at once, over crashes and lost writes.                       *)
THEOREM PaysOnce == ASSUME NotBoth PROVE Spec => []PaidOnce
<1>1. IInv => PaidOnce
  <2> SUFFICES ASSUME IInv PROVE Cardinality(Paid) <= IF once THEN 1 ELSE heard + 1
    BY DEF PaidOnce, Paid
  <2>1. IsFiniteSet(Paid \ Sends) /\ Cardinality(Paid \ Sends) \in Nat
    <3>1. Paid \ Sends \in SUBSET Calls
      BY DEF Paid
    <3> QED BY <3>1, FS_Subset, FS_CardinalityType, PaymentAssumption
  <2>2. Cardinality(Paid) \in {Cardinality(Paid \ Sends), Cardinality(Paid \ Sends) + 1}
    <3>1. CASE \E s \in Sends : Landed(s)
      <4> PICK s \in Sends : Landed(s)
        BY <3>1
      <4>1. Paid = (Paid \ Sends) \cup {s}
        BY OneLands
      <4> QED BY <2>1, <4>1, FS_AddElement
    <3>2. CASE ~ \E s \in Sends : Landed(s)
      <4>1. Paid = Paid \ Sends
        BY <3>2 DEF Paid
      <4> QED BY <4>1
    <3> QED BY <3>1, <3>2
  <2> QED BY <2>1, <2>2 DEF IInv, HeardIsCounted, TypeOK
<1> QED BY <1>1, InvHolds, PTL

(* A send that can still land, one refused or reverted too, is on the      *)
(* purchase's record with its payment note, wherever a call stopped.       *)
THEOREM SendsStayOnRecord == ASSUME NotBoth PROVE Spec => []SendsAreOnRecord
<1>1. IInv => SendsAreOnRecord
  <2> SUFFICES ASSUME IInv, NEW c \in Calls, Sendable(c), spentBy[from[c]] = None
               PROVE  record # None /\ c \in SendsOf(record)
    BY DEF SendsAreOnRecord
  <2>1. c \in Sends
    BY DEF IInv, OpenIsOnRecord
  <2>2. record # None
    BY <2>1 DEF Sends
  <2> QED BY <2>1, <2>2, SendsAreKept DEF IInv
<1> QED BY <1>1, InvHolds, PTL

(* What the store takes as paid has landed, and what it writes off is      *)
(* spent.                                                                  *)
THEOREM KnownIsLanded == ASSUME NotBoth PROVE Spec => []KnownMeansLanded
<1>1. IInv => KnownMeansLanded
  BY DEF IInv
<1> QED BY <1>1, InvHolds, PTL
=============================================================================
