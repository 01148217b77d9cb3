--------------------------- MODULE SpendLogProofs ---------------------------
(***************************************************************************)
(* What the lock file and the spend log keep, for any calls, amounts and   *)
(* limits.  The types hold always; turns in the lock, the entries that     *)
(* count and the daily cap hold as long as no lock file is cleared that is *)
(* in use.  At most two server processes never clear one; of three, one    *)
(* can (run spend_log_stale).  Cap and entries are about money that is to  *)
(* be paid or out: a send that was refused or reverted and lands late is   *)
(* not counted by the code, and comes on top.                              *)
(***************************************************************************)
EXTENDS SpendLog, FiniteSetTheorems, WellFoundedInduction, TLAPS

(* The step withFileLock must not take: its rmSync removes the lock file   *)
(* of a call that is inside by now.                                        *)
ClearsNoneInUse == \A c \in Calls : ClearOld(c) => Inside = {}

(* At most two processes: of three calls, two share theirs.                *)
AtMostTwoServers ==
  \A c, d, e \in Calls :
    \/ Server[c] = Server[d]
    \/ Server[d] = Server[e]
    \/ Server[c] = Server[e]

-----------------------------------------------------------------------------
(* The inductive invariant.                                                *)

Dead(s) == \A c \in Calls : Server[c] = s => at[c] = "over"

(* A call inside has its file; a file without its maker inside is a dead   *)
(* process's, and only such a file gets old and is cleared.                *)
LockFits ==
  /\ \A c \in Inside : lockFile = c
  /\ lockFile \in Calls \ Inside => Dead(Server[lockFile])
  /\ old => lockFile \in Calls \ Inside
  /\ \A c \in Calls : at[c] = "clear" => \E d \in Calls : Dead(Server[d])

(* Calls whose money may move: the moving ones, and those that leave the   *)
(* lock with a reservation.                                                *)
ToPay(c) == at[c] = "leave" /\ Reserving(c) /\ seen[c][c].status = "pending"
MayMove == {c \in Calls : at[c] = "pay" \/ tx[c] = "out" \/ ToPay(c)}

Young(c) == at[c] \in {"idle", "wait", "clear", "read", "write", "leave"} /\ Reserving(c)

(* How far a call is, against its transaction, the log and the clock.      *)
CallFits(c) ==
  /\ stamp[c] <= now
  /\ at[c] \in {"idle", "pay", "over"} => Reserving(c)
  /\ Young(c) => tx[c] = "none"
  /\ Young(c) /\ at[c] \in {"wait", "clear", "read", "write"} => now <= stamp[c] + 1
  /\ ~Reserving(c) /\ tx[c] = "out" => result[c] \in COUNTED_STATUSES
  /\ at[c] = "write" => seen[c] = log

(* What may move has an entry that counts, for two days.                   *)
EntryFits(c) ==
  c \in MayMove /\ stamp[c] > now - 2 * DAY =>
    log[c].status \in COUNTED_STATUSES /\ log[c].at = stamp[c]

Holding(t) == {c \in MayMove \ Exits : stamp[c] \in (t - DAY + 1)..t}
CapFits == \A t \in 0..MaxTime : Spend(Holding(t)) <= maxPerDay

IInv ==
  /\ TypeOK
  /\ LockFits
  /\ \A c \in Calls : CallFits(c) /\ EntryFits(c)
  /\ CapFits

-----------------------------------------------------------------------------
(* What a set of calls spends: the fold that defines Spend exists, and its *)
(* value does not depend on the order the calls are taken in.              *)

First(S) == CHOOSE x \in S : TRUE
FoldStep(g, S) == IF S = {} THEN 0 ELSE Amount[First(S)] + g[S \ {First(S)}]
IsFold(g, S) == g = [T \in SUBSET S |-> FoldStep(g, T)]
TheFold(S) == CHOOSE g : IsFold(g, S)

LEMMA SpendIsTheFold ==
  ASSUME NEW S
  PROVE  Spend(S) = TheFold(S)[S]
  BY Zenon DEF Spend, MapThenSumSet, MapThenFoldSet, TheFold, IsFold, FoldStep, First

(* Of any sets of calls, one has none of the others strictly inside it.    *)
LEMMA SmallestSet ==
  ASSUME NEW Sets \in SUBSET SUBSET Calls, Sets # {}
  PROVE  \E S \in Sets : \A T \in Sets : T \subseteq S => T = S
<1>1. IsWellFoundedOn(StrictSubsetOrdering(Calls), SUBSET Calls)
  <2>1. FiniteSubsetsOf(Calls) = SUBSET Calls
    BY SpendAssumption, FS_FiniteSubsetsOfFinite
  <2>2. IsWellFoundedOn(StrictSubsetOrdering(Calls), FiniteSubsetsOf(Calls))
    BY FS_StrictSubsetOrderingWellFounded
  <2>3. QED
    BY <2>1, <2>2, Zenon
<1>2. PICK S \in Sets : \A T \in Sets : <<T, S>> \notin StrictSubsetOrdering(Calls)
  BY <1>1, WFMin
<1>3. ASSUME NEW T \in Sets, T \subseteq S, T # S
      PROVE  FALSE
  <2>1. <<T, S>> \in (SUBSET Calls) \X (SUBSET Calls)
    OBVIOUS
  <2>2. <<T, S>> \in StrictSubsetOrdering(Calls)
    BY <1>3, <2>1 DEF StrictSubsetOrdering
  <2>3. QED
    BY <1>2, <2>2
<1>4. QED
  BY <1>3

LEMMA FirstIsIn ==
  ASSUME NEW S, S # {}
  PROVE  First(S) \in S
  BY DEF First

(* Two folds agree wherever both are defined.                              *)
LEMMA FoldsAgree ==
  ASSUME NEW A \in SUBSET Calls, NEW B \in SUBSET Calls,
         NEW g, NEW h, IsFold(g, A), IsFold(h, B),
         NEW S \in SUBSET (A \cap B)
  PROVE  g[S] = h[S]
<1> DEFINE Bad == {T \in SUBSET (A \cap B) : g[T] # h[T]}
<1>1. SUFFICES ASSUME Bad # {}
              PROVE  FALSE
  OBVIOUS
<1>2. PICK T \in Bad : \A U \in Bad : U \subseteq T => U = T
  <2>1. Bad \in SUBSET SUBSET Calls
    OBVIOUS
  <2> HIDE DEF Bad
  <2>2. QED
    BY <1>1, <2>1, SmallestSet
<1>3. g[T] = FoldStep(g, T) /\ h[T] = FoldStep(h, T)
  <2>1. T \in SUBSET A /\ T \in SUBSET B
    OBVIOUS
  <2>2. QED
    BY <2>1 DEF IsFold
<1>4. CASE T = {}
  BY <1>3, <1>4 DEF FoldStep
<1>5. CASE T # {}
  <2> DEFINE U == T \ {First(T)}
  <2>1. First(T) \in T
    BY <1>5, FirstIsIn
  <2>2. U \in SUBSET (A \cap B) /\ U \subseteq T /\ U # T
    BY <2>1
  <2>3. g[U] = h[U]
    BY <1>2, <2>2
  <2>4. QED
    BY <1>3, <1>5, <2>3 DEF FoldStep
<1>6. QED
  BY <1>4, <1>5

LEMMA FoldExists ==
  ASSUME NEW S \in SUBSET Calls
  PROVE  IsFold(TheFold(S), S)
<1> DEFINE Bad == {T \in SUBSET Calls : ~ \E g : IsFold(g, T)}
<1>1. SUFFICES Bad = {}
  BY DEF TheFold
<1>2. SUFFICES ASSUME Bad # {}
              PROVE  FALSE
  OBVIOUS
<1>3. PICK T \in Bad : \A U \in Bad : U \subseteq T => U = T
  <2>1. Bad \in SUBSET SUBSET Calls
    OBVIOUS
  <2> HIDE DEF Bad
  <2>2. QED
    BY <1>2, <2>1, SmallestSet
<1>4. ASSUME NEW U \in SUBSET T, U # T
      PROVE  IsFold(TheFold(U), U)
  BY <1>3, <1>4 DEF TheFold
<1> DEFINE Value(U) == IF U = {} THEN 0
                       ELSE Amount[First(U)] + TheFold(U \ {First(U)})[U \ {First(U)}]
           g == [U \in SUBSET T |-> Value(U)]
<1>5. ASSUME NEW U \in SUBSET T
      PROVE  Value(U) = FoldStep(g, U)
  <2>1. CASE U = {}
    BY <2>1 DEF FoldStep
  <2>2. CASE U # {}
    <3> DEFINE V == U \ {First(U)}
    <3>1. First(U) \in U
      BY <2>2, FirstIsIn
    <3>2. V \in SUBSET T /\ V # T
      BY <3>1
    <3>3. IsFold(TheFold(V), V)
      BY <3>2, <1>4
    <3>4. TheFold(V)[V] = FoldStep(TheFold(V), V)
      BY <3>3 DEF IsFold
    <3>5. FoldStep(TheFold(V), V) = Value(V)
      <4>1. CASE V = {}
        BY <4>1 DEF FoldStep
      <4>2. CASE V # {}
        <5> DEFINE W == V \ {First(V)}
        <5>1. First(V) \in V
          BY <4>2, FirstIsIn
        <5>2. W \in SUBSET T /\ W # T /\ W \in SUBSET (V \cap W)
          BY <3>2, <5>1
        <5>3. IsFold(TheFold(W), W)
          BY <5>2, <1>4
        <5>4. TheFold(V)[W] = TheFold(W)[W]
          <6>1. V \in SUBSET Calls /\ W \in SUBSET Calls
            BY <3>2
          <6> HIDE DEF V, W
          <6>2. QED
            BY <3>3, <5>2, <5>3, <6>1, FoldsAgree
        <5>5. QED
          BY <4>2, <5>4 DEF FoldStep
      <4>3. QED
        BY <4>1, <4>2
    <3>6. g[V] = TheFold(V)[V]
      BY <3>2, <3>4, <3>5
    <3>7. QED
      BY <2>2, <3>6 DEF FoldStep
  <2>3. QED
    BY <2>1, <2>2
<1>6. IsFold(g, T)
  <2>1. g = [U \in SUBSET T |-> FoldStep(g, U)]
    <3> HIDE DEF Value
    <3>1. QED
      BY <1>5
  <2>2. QED
    BY <2>1 DEF IsFold
<1>7. QED
  BY <1>3, <1>6

LEMMA SpendUnfolds ==
  /\ Spend({}) = 0
  /\ \A S \in SUBSET Calls :
       S # {} => Spend(S) = Amount[First(S)] + Spend(S \ {First(S)})
<1>1. ASSUME NEW S \in SUBSET Calls
      PROVE  Spend(S) = FoldStep(TheFold(S), S)
  BY FoldExists, SpendIsTheFold DEF IsFold
<1>2. Spend({}) = 0
  BY <1>1 DEF FoldStep
<1>3. ASSUME NEW S \in SUBSET Calls, S # {}
      PROVE  Spend(S) = Amount[First(S)] + Spend(S \ {First(S)})
  <2> DEFINE T == S \ {First(S)}
  <2>1. T \in SUBSET Calls /\ T \in SUBSET (S \cap T)
    OBVIOUS
  <2>2. IsFold(TheFold(S), S) /\ IsFold(TheFold(T), T)
    BY <2>1, FoldExists
  <2>3. TheFold(S)[T] = TheFold(T)[T]
    <3> HIDE DEF T
    <3>1. QED
      BY <2>1, <2>2, FoldsAgree
  <2>4. TheFold(S)[T] = Spend(T)
    BY <2>3, SpendIsTheFold
  <2>5. QED
    BY <1>1, <1>3, <2>4 DEF FoldStep
<1>4. QED
  BY <1>2, <1>3


LEMMA SpendIsNat ==
  ASSUME NEW S \in SUBSET Calls
  PROVE  Spend(S) \in Nat
<1> DEFINE Bad == {T \in SUBSET Calls : Spend(T) \notin Nat}
<1>1. SUFFICES ASSUME Bad # {}
              PROVE  FALSE
  OBVIOUS
<1>2. PICK T \in Bad : \A U \in Bad : U \subseteq T => U = T
  <2>1. Bad \in SUBSET SUBSET Calls
    OBVIOUS
  <2> HIDE DEF Bad
  <2>2. QED
    BY <1>1, <2>1, SmallestSet
<1>3. T # {}
  BY SpendUnfolds
<1>4. First(T) \in T
  BY <1>3, FirstIsIn
<1>5. Spend(T \ {First(T)}) \in Nat
  BY <1>2, <1>4
<1>6. Amount[First(T)] \in Nat
  BY <1>4, SpendAssumption
<1>7. QED
  BY <1>3, <1>5, <1>6, SpendUnfolds

(* Any call may be taken out first.                                        *)
LEMMA SpendTakesOut ==
  ASSUME NEW S \in SUBSET Calls, NEW c \in S
  PROVE  Spend(S) = Amount[c] + Spend(S \ {c})
<1> DEFINE Takes(T, d) == Spend(T) = Amount[d] + Spend(T \ {d})
           Bad == {T \in SUBSET Calls : \E d \in T : ~ Takes(T, d)}
<1>1. SUFFICES ASSUME Bad # {}
              PROVE  FALSE
  OBVIOUS
<1>2. PICK T \in Bad : \A U \in Bad : U \subseteq T => U = T
  <2>1. Bad \in SUBSET SUBSET Calls
    OBVIOUS
  <2> HIDE DEF Bad
  <2>2. QED
    BY <1>1, <2>1, SmallestSet
<1>3. PICK d \in T : ~ Takes(T, d)
  OBVIOUS
<1> DEFINE f == First(T)
<1>4. f \in T
  BY FirstIsIn
<1>5. Takes(T, f)
  BY SpendUnfolds
<1>6. f # d
  BY <1>3, <1>5
<1>7. ASSUME NEW U \in SUBSET T, U # T, NEW e \in U
      PROVE  Takes(U, e)
  BY <1>2, <1>7
<1>8. Takes(T \ {f}, d)
  <2> HIDE DEF Takes, f
  <2>1. QED
    BY <1>4, <1>6, <1>7
<1>9. Takes(T \ {d}, f)
  <2> HIDE DEF Takes, f
  <2>1. QED
    BY <1>4, <1>6, <1>7
<1>10. (T \ {f}) \ {d} = (T \ {d}) \ {f}
  OBVIOUS
<1>11. Amount[f] \in Nat /\ Amount[d] \in Nat /\ Spend((T \ {d}) \ {f}) \in Nat
  BY <1>4, SpendAssumption, SpendIsNat
<1>12. QED
  <2>1. /\ Spend(T) = Amount[f] + Spend(T \ {f})
        /\ Spend(T \ {f}) = Amount[d] + Spend((T \ {d}) \ {f})
        /\ Spend(T \ {d}) = Amount[f] + Spend((T \ {d}) \ {f})
    BY <1>5, <1>8, <1>9, <1>10
  <2> HIDE DEF f
  <2>2. Spend(T) = Amount[d] + Spend(T \ {d})
    BY <1>11, <2>1
  <2>3. QED
    BY <1>3, <2>2

LEMMA SpendGrows ==
  ASSUME NEW S \in SUBSET Calls, NEW R \in SUBSET S
  PROVE  Spend(R) <= Spend(S)
<1> DEFINE Bad == {T \in SUBSET Calls : R \subseteq T /\ ~ Spend(R) <= Spend(T)}
<1>1. SUFFICES ASSUME Bad # {}
              PROVE  FALSE
  OBVIOUS
<1>2. PICK T \in Bad : \A U \in Bad : U \subseteq T => U = T
  <2>1. Bad \in SUBSET SUBSET Calls
    OBVIOUS
  <2> HIDE DEF Bad
  <2>2. QED
    BY <1>1, <2>1, SmallestSet
<1>3. Spend(R) \in Nat
  BY SpendIsNat
<1>4. PICK c \in T : c \notin R
  BY <1>3
<1>5. Spend(R) <= Spend(T \ {c})
  BY <1>2, <1>4
<1>6. Spend(T) = Amount[c] + Spend(T \ {c})
  BY SpendTakesOut
<1>7. Amount[c] \in Nat /\ Spend(T \ {c}) \in Nat
  BY SpendAssumption, SpendIsNat
<1>8. QED
  BY <1>3, <1>5, <1>6, <1>7

LEMMA SpendAdds ==
  ASSUME NEW S \in SUBSET Calls, NEW c \in Calls
  PROVE  Spend(S \cup {c}) <= Spend(S) + Amount[c]
<1> DEFINE T == S \cup {c}
<1>1. Spend(T) = Amount[c] + Spend(T \ {c})
  BY SpendTakesOut
<1>2. Spend(T \ {c}) <= Spend(S)
  BY SpendGrows
<1>3. Amount[c] \in Nat /\ Spend(T \ {c}) \in Nat /\ Spend(S) \in Nat
  BY SpendAssumption, SpendIsNat
<1>4. QED
  BY <1>1, <1>2, <1>3

-----------------------------------------------------------------------------
(* Types.                                                                  *)

Places == {"idle", "wait", "clear", "read", "write", "leave", "pay", "over"}
Txs == {"none", "out", "refused", "reverted", "late"}
TakesTurns == \A c, d \in InLockCode : Server[c] = Server[d] => c = d

(* What a call that holds the lock writes.                                 *)
New(c) == IF Reserving(c) THEN Reserved(c) ELSE Settled(c)
WriteTime(c) == IF Reserving(c) THEN stamp[c] ELSE now

LEMMA ReservedFits ==
  ASSUME TypeOK, NEW c \in Calls
  PROVE  /\ Reserved(c) \in Logs
         /\ Reserved(c)[c].status = (IF Allowed(c, seen[c]) THEN "pending" ELSE "refused")
         /\ Reserved(c)[c].at = stamp[c]
         /\ \A d \in Calls \ {c} : Reserved(c)[d] = seen[c][d]
<1> DEFINE status == IF Allowed(c, seen[c]) THEN "pending" ELSE "refused"
           entry == [status |-> status, at |-> stamp[c]]
<1>1. status \in SpendStatus /\ stamp[c] \in 0..MaxTime /\ seen[c] \in Logs
  BY DEF TypeOK, SpendStatus, COUNTED_STATUSES
<1>2. entry \in SpendEntry /\ entry.status = status /\ entry.at = stamp[c]
  <2> HIDE DEF status
  <2>1. QED
    BY <1>1 DEF SpendEntry
<1>3. Reserved(c) = [seen[c] EXCEPT ![c] = entry]
  BY DEF Reserved
<1> HIDE DEF entry
<1>4. QED
  BY <1>1, <1>2, <1>3 DEF Logs

LEMMA SettledFits ==
  ASSUME TypeOK, NEW c \in Calls
  PROVE  /\ Settled(c) \in Logs
         /\ seen[c][c] = NoEntry => Settled(c)[c] = NoEntry
         /\ seen[c][c] # NoEntry => /\ Settled(c)[c].status = result[c]
                                    /\ Settled(c)[c].at = seen[c][c].at
         /\ \A d \in Calls \ {c} : Settled(c)[d] = seen[c][d]
<1>1. seen[c] \in [Calls -> SpendEntry \cup {NoEntry}] /\ result[c] \in SpendStatus
  BY DEF TypeOK, Logs
<1>2. CASE seen[c][c] = NoEntry
  BY <1>1, <1>2 DEF Settled, Logs
<1>3. CASE seen[c][c] # NoEntry
  <2>1. PICK entry \in SpendEntry : entry = seen[c][c]
    BY <1>1, <1>3
  <2> DEFINE settled == [entry EXCEPT !.status = result[c]]
  <2>2. settled \in SpendEntry /\ settled.status = result[c] /\ settled.at = entry.at
    BY <1>1 DEF SpendEntry
  <2>3. Settled(c) = [seen[c] EXCEPT ![c] = settled]
    BY <1>1, <1>3, <2>1 DEF Settled
  <2> HIDE DEF settled
  <2>4. QED
    BY <1>1, <1>3, <2>1, <2>2, <2>3 DEF Logs
<1>4. QED
  BY <1>2, <1>3

LEMMA NewIsALog ==
  ASSUME TypeOK, NEW c \in Calls
  PROVE  New(c) \in Logs
  BY ReservedFits, SettledFits DEF New

(* A call's writing of the log, with the set of calls whose entries stay.  *)
Writes(c, K) ==
  /\ at[c] = "write"
  /\ K \in Kept(New(c), WriteTime(c))
  /\ log' = [d \in Calls |-> IF d \in K THEN New(c)[d] ELSE NoEntry]
  /\ seen' = [seen EXCEPT ![c] = New(c)]
  /\ at' = [at EXCEPT ![c] = "leave"]
  /\ UNCHANGED <<lockVars, stamp, result, tx, now>>

LEMMA WriteLogWrites ==
  ASSUME NEW c \in Calls, WriteLog(c)
  PROVE  \E K \in Kept(New(c), WriteTime(c)) : Writes(c, K)
  BY Zenon DEF WriteLog, Writes, New, WriteTime, Goes

LEMMA EmptyLogIsALog == EmptyLog \in Logs
  BY DEF EmptyLog, Logs

LEMMA TypeInit ==
  ASSUME Init
  PROVE  TypeOK
<1>1. InLockCode = {}
  BY DEF Init, InLockCode, Inside
<1>2. "pending" \in SpendStatus \ {"refused"}
  BY DEF SpendStatus, COUNTED_STATUSES
<1>3. 0 \in 0..MaxTime
  BY SpendAssumption
<1>4. /\ at \in [Calls -> Places]
      /\ stamp \in [Calls -> 0..MaxTime]
      /\ result \in [Calls -> SpendStatus \ {"refused"}]
      /\ tx \in [Calls -> Txs]
  BY <1>2, <1>3 DEF Init, Places, Txs
<1>5. log \in Logs /\ seen \in [Calls -> Logs] /\ now \in 0..MaxTime
  BY <1>3, EmptyLogIsALog DEF Init
<1>6. QED
  BY <1>1, <1>4, <1>5 DEF Init, TypeOK, Places, Txs

(* One call goes to a place; it enters the lock code when its process's    *)
(* other calls are out of it.                                              *)
LEMMA GoingKeepsTurns ==
  ASSUME TypeOK, NEW c \in Calls, NEW place \in Places, at' = [at EXCEPT ![c] = place],
         c \in InLockCode \/ place \in {"idle", "pay", "over"} \/ Runs(c)
  PROVE  /\ at' \in [Calls -> Places]
         /\ TakesTurns'
<1>1. at \in [Calls -> Places] /\ TakesTurns
  BY DEF TypeOK, Places, TakesTurns
<1>2. at' \in [Calls -> Places]
  BY <1>1
<1>3. \A d \in Calls : at'[d] = IF d = c THEN place ELSE at[d]
  BY <1>1
<1>4. \A d \in Calls \ {c} : d \in InLockCode' => d \in InLockCode
  BY <1>3 DEF InLockCode, Inside
<1>5. CASE c \in InLockCode \/ place \in {"idle", "pay", "over"}
  <2>1. c \in InLockCode' => c \in InLockCode
    BY <1>3, <1>5 DEF InLockCode, Inside
  <2>2. InLockCode' \subseteq InLockCode
    BY <1>4, <2>1 DEF InLockCode, Inside
  <2>3. QED
    BY <1>1, <1>2, <2>2 DEF TakesTurns
<1>6. CASE Runs(c)
  <2>1. InLockCode' \subseteq InLockCode \cup {c}
    BY <1>4 DEF InLockCode, Inside
  <2>2. QED
    BY <1>1, <1>2, <1>6, <2>1 DEF TakesTurns, Runs
<1>7. QED
  BY <1>5, <1>6


(* The types, without turns.                                               *)
Shapes ==
  /\ lockFile \in Calls \cup {NoCall}
  /\ old \in BOOLEAN
  /\ at \in [Calls -> Places]
  /\ stamp \in [Calls -> 0..MaxTime]
  /\ result \in [Calls -> SpendStatus \ {"refused"}]
  /\ log \in Logs
  /\ seen \in [Calls -> Logs]
  /\ tx \in [Calls -> Txs]
  /\ now \in 0..MaxTime

LEMMA TypeIs == TypeOK <=> Shapes /\ TakesTurns
  BY Zenon DEF TypeOK, Shapes, TakesTurns, Places, Txs

LEMMA TypeIsNext == Shapes' /\ TakesTurns' => TypeOK'
  BY Zenon DEF TypeOK, Shapes, TakesTurns, Places, Txs

LEMMA ShapeValues ==
  /\ "pending" \in SpendStatus \ {"refused"}
  /\ EmptyLog \in Logs
  BY EmptyLogIsALog DEF SpendStatus, COUNTED_STATUSES

(* The steps of the lock keep the types.                                   *)
LEMMA LockTypes ==
  ASSUME TypeOK, NEW c \in Calls, LockStep(c)
  PROVE  TypeOK'
<1>1. Shapes
  BY TypeIs
<1>2. c \in InLockCode
  BY DEF LockStep, OpenLock, FindOld, ClearOld, GiveUp, Leave, InLockCode, Inside
<1>3. ASSUME NEW place \in Places, Goes(c, place)
      PROVE  at' \in [Calls -> Places] /\ TakesTurns'
  BY <1>2, <1>3, GoingKeepsTurns DEF Goes
<1>4. \E place \in Places : Goes(c, place)
  BY DEF LockStep, OpenLock, FindOld, ClearOld, GiveUp, Leave, Ends, Places
<1>5. at' \in [Calls -> Places] /\ TakesTurns'
  BY <1>3, <1>4
<1>6. lockFile' \in Calls \cup {NoCall} /\ old' \in BOOLEAN
  BY <1>1 DEF LockStep, OpenLock, FindOld, ClearOld, GiveUp, Leave, RemoveLock, lockVars, Shapes
<1>7. result' \in [Calls -> SpendStatus \ {"refused"}]
  <2>1. UNCHANGED result \/ result' = [result EXCEPT ![c] = "pending"]
    BY DEF LockStep, OpenLock, FindOld, ClearOld, GiveUp, Leave, Ends
  <2>2. QED
    BY <1>1, <2>1, ShapeValues DEF Shapes
<1>8. seen' \in [Calls -> Logs]
  <2>1. UNCHANGED seen \/ seen' = [seen EXCEPT ![c] = EmptyLog]
    BY DEF LockStep, OpenLock, FindOld, ClearOld, GiveUp, Leave
  <2>2. QED
    BY <1>1, <2>1, ShapeValues DEF Shapes
<1>9. UNCHANGED <<stamp, log, tx, now>>
  BY DEF LockStep, OpenLock, FindOld, ClearOld, GiveUp, Leave
<1>10. Shapes'
  BY <1>1, <1>5, <1>6, <1>7, <1>8, <1>9 DEF Shapes
<1>11. QED
  BY <1>5, <1>10, TypeIsNext

(* The steps of a call in the file and in its payment keep the types.      *)
LEMMA CallTypes ==
  ASSUME TypeOK, NEW c \in Calls,
         Begin(c) \/ ReadLog(c) \/ WriteLog(c) \/ Broadcast(c) \/ Settle(c)
         \/ Revert(c) \/ LandsLate(c)
  PROVE  TypeOK'
<1>1. Shapes /\ TakesTurns
  BY TypeIs
<1>2. ASSUME NEW place \in Places, Goes(c, place), c \in InLockCode \/ Runs(c)
      PROVE  at' \in [Calls -> Places] /\ TakesTurns'
  BY <1>2, GoingKeepsTurns DEF Goes
<1>3. CASE Begin(c)
  <2>1. at' \in [Calls -> Places] /\ TakesTurns'
    BY <1>2, <1>3 DEF Begin, Places
  <2>2. stamp' \in [Calls -> 0..MaxTime]
    BY <1>1, <1>3 DEF Begin, Shapes
  <2>3. Shapes'
    BY <1>1, <1>3, <2>1, <2>2 DEF Begin, Shapes, lockVars
  <2>4. QED
    BY <2>1, <2>3, TypeIsNext
<1>4. CASE ReadLog(c)
  <2>1. at' \in [Calls -> Places] /\ TakesTurns'
    BY <1>2, <1>4 DEF ReadLog, Places, InLockCode, Inside
  <2>2. seen' \in [Calls -> Logs]
    BY <1>1, <1>4 DEF ReadLog, Shapes
  <2>3. Shapes'
    BY <1>1, <1>4, <2>1, <2>2 DEF ReadLog, Shapes, lockVars
  <2>4. QED
    BY <2>1, <2>3, TypeIsNext
<1>5. CASE WriteLog(c)
  <2>1. PICK K \in Kept(New(c), WriteTime(c)) : Writes(c, K)
    BY <1>5, WriteLogWrites
  <2>2. at' \in [Calls -> Places] /\ TakesTurns'
    BY <1>2, <2>1 DEF Writes, Goes, Places, InLockCode, Inside
  <2>3. New(c) \in Logs
    BY NewIsALog
  <2>4. seen' \in [Calls -> Logs]
    BY <1>1, <2>1, <2>3 DEF Writes, Shapes
  <2>5. log' \in Logs
    BY <2>1, <2>3 DEF Writes, Logs
  <2>6. Shapes'
    BY <1>1, <2>1, <2>2, <2>4, <2>5 DEF Writes, Shapes, lockVars
  <2>7. QED
    BY <2>2, <2>6, TypeIsNext
<1>6. CASE Broadcast(c) \/ Revert(c) \/ LandsLate(c)
  <2>1. tx' \in [Calls -> Txs]
    BY <1>1, <1>6 DEF Broadcast, Revert, LandsLate, Shapes, Txs
  <2>2. UNCHANGED <<lockVars, at, stamp, result, log, seen, now>>
    BY <1>6 DEF Broadcast, Revert, LandsLate
  <2>3. Shapes'
    BY <1>1, <2>1, <2>2 DEF Shapes, lockVars
  <2>4. TakesTurns'
    BY <1>1, <2>2 DEF TakesTurns, InLockCode, Inside
  <2>5. QED
    BY <2>3, <2>4, TypeIsNext
<1>7. CASE Settle(c)
  <2>1. at' \in [Calls -> Places] /\ TakesTurns'
    BY <1>2, <1>7 DEF Settle, Places
  <2>2. result' \in [Calls -> SpendStatus \ {"refused"}]
    BY <1>1, <1>7 DEF Settle, Shapes, SpendStatus, COUNTED_STATUSES
  <2>3. Shapes'
    BY <1>1, <1>7, <2>1, <2>2 DEF Settle, Shapes, lockVars
  <2>4. QED
    BY <2>1, <2>3, TypeIsNext
<1>8. QED
  BY <1>3, <1>4, <1>5, <1>6, <1>7

LEMMA OtherTypes ==
  ASSUME TypeOK, (\E p \in Servers : Die(p)) \/ Ages \/ Tick \/ UNCHANGED vars
  PROVE  TypeOK'
<1>1. Shapes /\ TakesTurns
  BY TypeIs
<1>2. ASSUME NEW p \in Servers, Die(p)
      PROVE  TypeOK'
  <2>1. at' \in [Calls -> Places] /\ \A c \in Calls : at'[c] \in {at[c], "over"}
    BY <1>1, <1>2 DEF Die, Shapes, Places
  <2>2. result' \in [Calls -> SpendStatus \ {"refused"}]
    BY <1>1, <1>2, ShapeValues DEF Die, Shapes
  <2>3. seen' \in [Calls -> Logs]
    BY <1>1, <1>2, ShapeValues DEF Die, Shapes
  <2>4. Shapes'
    BY <1>1, <1>2, <2>1, <2>2, <2>3 DEF Die, Shapes, lockVars
  <2>5. InLockCode' \subseteq InLockCode
    BY <2>1 DEF InLockCode, Inside
  <2>6. TakesTurns'
    BY <1>1, <2>5 DEF TakesTurns
  <2>7. QED
    BY <2>4, <2>6, TypeIsNext
<1>3. CASE Ages \/ Tick \/ UNCHANGED vars
  <2>1. /\ UNCHANGED <<lockFile, at, stamp, result, log, seen, tx>>
        /\ old' \in BOOLEAN
        /\ now' \in 0..MaxTime
    <3>1. CASE Ages
      BY <1>1, <3>1 DEF Ages, Shapes
    <3>2. CASE Tick
      BY <1>1, <3>2, SpendAssumption DEF Tick, lockVars, Shapes
    <3>3. CASE UNCHANGED vars
      BY <1>1, <3>3 DEF vars, lockVars, Shapes
    <3>4. QED
      BY <1>3, <3>1, <3>2, <3>3
  <2>2. Shapes'
    BY <1>1, <2>1 DEF Shapes
  <2>3. TakesTurns'
    BY <1>1, <2>1 DEF TakesTurns, InLockCode, Inside
  <2>4. QED
    BY <2>2, <2>3, TypeIsNext
<1>4. QED
  BY <1>2, <1>3

LEMMA TypeNext ==
  ASSUME TypeOK, [Next]_vars
  PROVE  TypeOK'
  BY LockTypes, CallTypes, OtherTypes DEF Next

(* Types, for any number of server processes that use the log.             *)
THEOREM TypeCorrect == Spec => []TypeOK
  BY TypeInit, TypeNext, PTL DEF Spec

-----------------------------------------------------------------------------
(* The lock.                                                               *)

(* A call that is over stays over: so does a dead process.                 *)
LEMMA OverStays ==
  ASSUME TypeOK, [Next]_vars, NEW d \in Calls, at[d] = "over"
  PROVE  at'[d] = "over"
<1>1. at \in [Calls -> Places]
  BY DEF TypeOK, Places
<1>2. ASSUME NEW c \in Calls, NEW place \in Places, Goes(c, place), at[c] # "over"
      PROVE  at'[d] = "over"
  BY <1>1, <1>2 DEF Goes
<1>3. ASSUME NEW c \in Calls, Begin(c) \/ LockStep(c) \/ ReadLog(c) \/ WriteLog(c) \/ Settle(c)
      PROVE  at'[d] = "over"
  <2>1. at[c] # "over"
    BY <1>3 DEF Begin, LockStep, OpenLock, FindOld, ClearOld, GiveUp, Leave, ReadLog,
                WriteLog, Settle
  <2>2. \E place \in Places : Goes(c, place)
    BY <1>3 DEF Begin, LockStep, OpenLock, FindOld, ClearOld, GiveUp, Leave, ReadLog,
                WriteLog, Settle, Ends, Places
  <2>3. QED
    BY <1>2, <2>1, <2>2
<1>4. ASSUME NEW c \in Calls, Broadcast(c) \/ Revert(c) \/ LandsLate(c)
      PROVE  at'[d] = "over"
  BY <1>4 DEF Broadcast, Revert, LandsLate
<1>5. ASSUME NEW p \in Servers, Die(p)
      PROVE  at'[d] = "over"
  BY <1>5 DEF Die
<1>6. CASE Ages \/ Tick \/ UNCHANGED vars
  BY <1>6 DEF Ages, Tick, vars
<1>7. QED
  BY <1>3, <1>4, <1>5, <1>6 DEF Next

LEMMA DeadStays ==
  ASSUME TypeOK, [Next]_vars, NEW s, Dead(s)
  PROVE  Dead(s)'
  BY OverStays DEF Dead

(* A step that leaves the lock file, and who is inside, as they are.       *)
LEMMA OutsideTheLock ==
  ASSUME TypeOK, LockFits, [Next]_vars, UNCHANGED lockVars, Inside' = Inside,
         \A d \in Calls : at'[d] = "clear" => at[d] = "clear"
  PROVE  LockFits'
<1>1. \A c \in Inside' : lockFile' = c
  BY DEF LockFits, lockVars
<1>2. (lockFile \in Calls \ Inside => Dead(Server[lockFile]))'
  <2>1. ASSUME lockFile' \in Calls \ Inside'
        PROVE  Dead(Server[lockFile])
    BY <2>1 DEF LockFits, lockVars
  <2>2. UNCHANGED lockFile
    BY DEF lockVars
  <2>3. ASSUME Dead(Server[lockFile])
        PROVE  Dead(Server[lockFile])'
    BY <2>2, <2>3, OverStays DEF Dead
  <2>4. QED
    BY <2>1, <2>3
<1>3. old' => lockFile' \in Calls \ Inside'
  BY DEF LockFits, lockVars
<1>4. ASSUME NEW c \in Calls, at'[c] = "clear"
      PROVE  \E d \in Calls : Dead(Server[d])'
  <2>1. PICK d \in Calls : Dead(Server[d])
    BY <1>4 DEF LockFits
  <2>2. QED
    BY <2>1, DeadStays
<1>5. QED
  BY <1>1, <1>2, <1>3, <1>4 DEF LockFits

LEMMA CallKeepsLock ==
  ASSUME TypeOK, LockFits, [Next]_vars, NEW c \in Calls,
         \/ Begin(c) \/ GiveUp(c) \/ ReadLog(c) \/ WriteLog(c) \/ Settle(c)
         \/ Broadcast(c) \/ Revert(c) \/ LandsLate(c)
  PROVE  LockFits'
<1>1. at \in [Calls -> Places]
  BY DEF TypeOK, Places
<1>2. UNCHANGED lockVars
  BY DEF Begin, GiveUp, ReadLog, WriteLog, Settle, Broadcast, Revert, LandsLate
<1>3. /\ Inside' = Inside
      /\ \A d \in Calls : at'[d] = "clear" => at[d] = "clear"
  BY <1>1 DEF Begin, GiveUp, ReadLog, WriteLog, Settle, Broadcast, Revert, LandsLate, Goes, Ends, Inside
<1>4. QED
  BY <1>2, <1>3, OutsideTheLock

LEMMA OpenKeepsLock ==
  ASSUME TypeOK, LockFits, [Next]_vars, NEW c \in Calls, OpenLock(c)
  PROVE  LockFits'
<1>1. at \in [Calls -> Places] /\ lockFile = NoCall /\ NoCall \notin Calls
  BY SpendAssumption DEF TypeOK, Places, OpenLock, Free
<1>2. Inside = {}
  BY <1>1 DEF LockFits, Inside
<1>3. Inside' = {c}
  BY <1>1, <1>2 DEF OpenLock, Goes, Inside
<1>4. lockFile' = c /\ old' = FALSE
  BY DEF OpenLock
<1>5. ASSUME NEW d \in Calls, at'[d] = "clear"
      PROVE  \E e \in Calls : Dead(Server[e])'
  <2>1. at[d] = "clear"
    BY <1>1, <1>5 DEF OpenLock, Goes
  <2>2. QED
    BY <2>1, DeadStays DEF LockFits
<1>6. QED
  BY <1>3, <1>4, <1>5 DEF LockFits

LEMMA FindKeepsLock ==
  ASSUME TypeOK, LockFits, [Next]_vars, NEW c \in Calls, FindOld(c)
  PROVE  LockFits'
<1>1. at \in [Calls -> Places]
  BY DEF TypeOK, Places
<1>2. Inside' = Inside /\ UNCHANGED lockVars
  BY <1>1 DEF FindOld, Goes, Inside
<1>3. lockFile \in Calls \ Inside /\ Dead(Server[lockFile])
  BY DEF FindOld, LockFits
<1>4. Dead(Server[lockFile])'
  BY <1>2, <1>3, OverStays DEF Dead, lockVars
<1>5. QED
  BY <1>2, <1>3, <1>4 DEF LockFits, lockVars

(* Of two processes one is dead and one clears, so no call is inside.      *)
LEMMA TwoServersClearNoneInUse ==
  ASSUME AtMostTwoServers, TypeOK, LockFits
  PROVE  ClearsNoneInUse
<1>1. SUFFICES ASSUME NEW c \in Calls, at[c] = "clear", NEW e \in Inside
              PROVE  FALSE
  BY DEF ClearsNoneInUse, ClearOld
<1>2. PICK d \in Calls : Dead(Server[d])
  BY <1>1 DEF LockFits
<1>3. e \in InLockCode /\ c \in InLockCode /\ e # c
  BY <1>1 DEF InLockCode, Inside
<1>4. Server[e] # Server[c]
  BY <1>3 DEF TypeOK
<1>5. Server[c] # Server[d] /\ Server[e] # Server[d]
  BY <1>1, <1>2 DEF Dead, Inside
<1>6. QED
  BY <1>4, <1>5 DEF AtMostTwoServers, Inside

LEMMA ClearKeepsLock ==
  ASSUME TypeOK, LockFits, [Next]_vars, NEW c \in Calls, ClearOld(c), ClearsNoneInUse
  PROVE  LockFits'
<1>1. at \in [Calls -> Places] /\ at[c] = "clear"
  BY DEF TypeOK, Places, ClearOld
<1>2. PICK d \in Calls : Dead(Server[d])
  BY <1>1 DEF LockFits
<1>3. Inside = {}
  BY DEF ClearsNoneInUse
<1>4. Inside' = {}
  BY <1>1, <1>3 DEF ClearOld, Goes, Ends, Inside
<1>5. lockFile' = NoCall /\ old' = FALSE /\ NoCall \notin Calls
  BY SpendAssumption DEF ClearOld, RemoveLock
<1>6. Dead(Server[d])'
  BY <1>2, DeadStays
<1>7. QED
  BY <1>4, <1>5, <1>6 DEF LockFits

LEMMA LeaveKeepsLock ==
  ASSUME TypeOK, LockFits, [Next]_vars, NEW c \in Calls, Leave(c)
  PROVE  LockFits'
<1>1. at \in [Calls -> Places] /\ at[c] = "leave"
  BY DEF TypeOK, Places, Leave
<1>2. Inside = {c}
  BY <1>1 DEF LockFits, Inside
<1>3. Inside' = {} /\ \A d \in Calls : at'[d] = "clear" => at[d] = "clear"
  BY <1>1, <1>2 DEF Leave, Goes, Ends, Inside
<1>4. lockFile' = NoCall /\ old' = FALSE /\ NoCall \notin Calls
  BY SpendAssumption DEF Leave, RemoveLock
<1>5. ASSUME NEW d \in Calls, at'[d] = "clear"
      PROVE  \E e \in Calls : Dead(Server[e])'
  BY <1>3, <1>5, DeadStays DEF LockFits
<1>6. QED
  BY <1>3, <1>4, <1>5 DEF LockFits

LEMMA DieKeepsLock ==
  ASSUME TypeOK, LockFits, [Next]_vars, NEW p \in Servers, Die(p)
  PROVE  LockFits'
<1>1. at \in [Calls -> Places] /\ UNCHANGED lockVars
  BY DEF TypeOK, Places, Die
<1>2. \A d \in Calls : at'[d] = IF Server[d] = p THEN "over" ELSE at[d]
  BY DEF Die
<1>3. Inside' = {c \in Inside : Server[c] # p}
  BY <1>2 DEF Inside
<1>4. ASSUME lockFile \in Calls \ Inside'
      PROVE  Dead(Server[lockFile])'
  <2>1. CASE Server[lockFile] = p
    BY <1>1, <1>2, <2>1 DEF Dead, lockVars
  <2>2. CASE Server[lockFile] # p
    <3>1. Dead(Server[lockFile])
      BY <1>3, <1>4, <2>2 DEF LockFits
    <3>2. QED
      BY <1>1, <3>1, OverStays DEF Dead, lockVars
  <2>3. QED
    BY <2>1, <2>2
<1>5. ASSUME NEW d \in Calls, at'[d] = "clear"
      PROVE  \E e \in Calls : Dead(Server[e])'
  BY <1>2, <1>5, DeadStays DEF LockFits
<1>6. QED
  BY <1>1, <1>3, <1>4, <1>5 DEF LockFits, lockVars

LEMMA TimeKeepsLock ==
  ASSUME TypeOK, LockFits, [Next]_vars, Ages \/ Tick \/ UNCHANGED vars
  PROVE  LockFits'
<1>1. CASE Ages
  <2>1. UNCHANGED <<lockFile, at>> /\ Inside' = Inside
    BY <1>1 DEF Ages, Inside
  <2>2. lockFile \in Calls \ Inside
    BY <1>1 DEF Ages, Free, TypeOK
  <2>3. QED
    BY <2>1, <2>2 DEF LockFits, Dead
<1>2. CASE Tick \/ UNCHANGED vars
  <2>1. UNCHANGED lockVars /\ UNCHANGED at /\ Inside' = Inside
    BY <1>2 DEF Tick, vars, Inside
  <2>2. QED
    BY <2>1, OutsideTheLock
<1>3. QED
  BY <1>1, <1>2

LEMMA LockNext ==
  ASSUME TypeOK, LockFits, [Next]_vars, [ClearsNoneInUse]_vars
  PROVE  LockFits'
<1>1. ASSUME NEW c \in Calls, LockStep(c)
      PROVE  LockFits'
  <2>1. CASE ClearsNoneInUse
    BY <1>1, <2>1, CallKeepsLock, OpenKeepsLock, FindKeepsLock, ClearKeepsLock, LeaveKeepsLock
       DEF LockStep
  <2>2. CASE UNCHANGED vars
    BY <2>2, TimeKeepsLock
  <2>3. QED
    BY <2>1, <2>2
<1>2. ASSUME NEW c \in Calls, Begin(c) \/ ReadLog(c) \/ WriteLog(c)
      PROVE  LockFits'
  BY <1>2, CallKeepsLock
<1>3. ASSUME NEW c \in Calls, Broadcast(c) \/ Settle(c) \/ Revert(c) \/ LandsLate(c)
      PROVE  LockFits'
  BY <1>3, CallKeepsLock
<1>4. QED
  BY <1>1, <1>2, <1>3, DieKeepsLock, TimeKeepsLock DEF Next

-----------------------------------------------------------------------------
(* Calls.                                                                  *)

(* What a call's fit depends on.                                           *)
SameCall(d) ==
  /\ at'[d] = at[d] /\ stamp'[d] = stamp[d] /\ result'[d] = result[d]
  /\ seen'[d] = seen[d] /\ tx'[d] = tx[d]

LEMMA SameCallFits ==
  ASSUME NEW d \in Calls, CallFits(d), SameCall(d), now' = now,
         at[d] = "write" => log' = log
  PROVE  CallFits(d)'
  BY DEF CallFits, SameCall, Young, Reserving

LEMMA LockStepFits ==
  ASSUME TypeOK, NEW c \in Calls, CallFits(c), LockStep(c)
  PROVE  /\ CallFits(c)'
         /\ \A d \in Calls \ {c} : SameCall(d)
         /\ UNCHANGED <<log, now>>
<1>1. Shapes
  BY TypeIs
<1>2. UNCHANGED <<log, now, stamp, tx>>
  BY DEF LockStep, OpenLock, FindOld, ClearOld, GiveUp, Leave
<1>3. \A d \in Calls \ {c} : SameCall(d)
  BY <1>1 DEF LockStep, OpenLock, FindOld, ClearOld, GiveUp, Leave, Goes, Ends, SameCall, Shapes
<1>4. ASSUME OpenLock(c) \/ FindOld(c)
      PROVE  CallFits(c)'
  <2>1. at[c] = "wait" /\ at'[c] \in {"read", "clear"} /\ UNCHANGED result
    BY <1>1, <1>4 DEF OpenLock, FindOld, Goes, Shapes
  <2>2. QED
    BY <1>2, <2>1 DEF CallFits, Young, Reserving
<1>5. ASSUME ClearOld(c)
      PROVE  CallFits(c)'
  <2>1. CASE Goes(c, "wait") /\ UNCHANGED result
    BY <1>1, <1>2, <1>5, <2>1 DEF ClearOld, Goes, CallFits, Young, Reserving, Shapes
  <2>2. CASE Ends(c)
    BY <1>1, <1>2, <1>5, <2>2 DEF Ends, Goes, CallFits, Young, Reserving, Shapes
  <2>3. QED
    BY <1>5, <2>1, <2>2 DEF ClearOld
<1>6. ASSUME GiveUp(c)
      PROVE  CallFits(c)'
  BY <1>1, <1>2, <1>6 DEF GiveUp, Ends, Goes, CallFits, Young, Reserving, Shapes
<1>7. ASSUME Leave(c)
      PROVE  CallFits(c)'
  <2>1. CASE Reserving(c) /\ Goes(c, "pay") /\ UNCHANGED result
    BY <1>1, <1>2, <1>7, <2>1 DEF Goes, CallFits, Young, Reserving, Shapes
  <2>2. CASE Ends(c)
    BY <1>1, <1>2, <1>7, <2>2 DEF Ends, Goes, CallFits, Young, Reserving, Shapes
  <2>3. QED
    BY <1>7, <2>1, <2>2 DEF Leave
<1>8. QED
  BY <1>2, <1>3, <1>4, <1>5, <1>6, <1>7 DEF LockStep

LEMMA CallStepFits ==
  ASSUME TypeOK, NEW c \in Calls, CallFits(c),
         Begin(c) \/ ReadLog(c) \/ Broadcast(c) \/ Settle(c)
         \/ Revert(c) \/ LandsLate(c)
  PROVE  /\ CallFits(c)'
         /\ \A d \in Calls \ {c} : SameCall(d)
         /\ UNCHANGED <<log, now>>
<1>1. Shapes
  BY TypeIs
<1>2. UNCHANGED <<log, now>>
  BY DEF Begin, ReadLog, Broadcast, Settle, Revert, LandsLate
<1>3. \A d \in Calls \ {c} : SameCall(d)
  BY <1>1 DEF Begin, ReadLog, Broadcast, Settle, Revert, LandsLate, Goes, SameCall, Shapes
<1>4. ASSUME Begin(c)
      PROVE  CallFits(c)'
  <2>1. /\ at[c] = "idle" /\ at'[c] = "wait" /\ stamp'[c] = now
        /\ UNCHANGED <<result, tx, now>>
    BY <1>1, <1>4 DEF Begin, Goes, Shapes
  <2>2. now \in Int
    BY <1>1 DEF Shapes
  <2>3. QED
    BY <2>1, <2>2 DEF CallFits, Young, Reserving
<1>5. ASSUME ReadLog(c)
      PROVE  CallFits(c)'
  <2>1. /\ at[c] = "read" /\ at'[c] = "write" /\ seen'[c] = log
        /\ UNCHANGED <<stamp, result, log, tx, now>>
    BY <1>1, <1>5 DEF ReadLog, Goes, Shapes
  <2>2. QED
    BY <2>1 DEF CallFits, Young, Reserving
<1>6. ASSUME Broadcast(c)
      PROVE  CallFits(c)'
  BY <1>1, <1>6 DEF Broadcast, CallFits, Young, Reserving, Shapes
<1>7. ASSUME Settle(c)
      PROVE  CallFits(c)'
  <2>1. PICK outcome \in {"failed", "sent", "reverted", "unconfirmed"} :
          MaySettleAs(c, outcome) /\ result' = [result EXCEPT ![c] = outcome]
    BY <1>7 DEF Settle
  <2>2. /\ result'[c] = outcome /\ at'[c] = "wait"
        /\ UNCHANGED <<stamp, log, seen, tx, now>>
    BY <1>1, <1>7, <2>1 DEF Settle, Goes, Shapes
  <2>3. tx[c] = "out" => outcome \in COUNTED_STATUSES
    BY <2>1 DEF MaySettleAs, COUNTED_STATUSES
  <2>4. QED
    BY <2>1, <2>2, <2>3 DEF CallFits, Young, Reserving
<1>8. ASSUME Revert(c) \/ LandsLate(c)
      PROVE  CallFits(c)'
  <2>1. /\ tx[c] # "none" /\ tx'[c] \in {"reverted", "late"}
        /\ UNCHANGED <<at, stamp, result, log, seen, now>>
    BY <1>1, <1>8 DEF Revert, LandsLate, Shapes
  <2>2. QED
    BY <2>1 DEF CallFits, Young, Reserving
<1>9. QED
  BY <1>2, <1>3, <1>4, <1>5, <1>6, <1>7, <1>8

(* A call that writes is the only one inside, and no call reads meanwhile. *)
LEMMA WriteFits ==
  ASSUME TypeOK, LockFits, \A d \in Calls : CallFits(d), NEW c \in Calls, WriteLog(c)
  PROVE  \A d \in Calls : CallFits(d)'
<1>1. Shapes
  BY TypeIs
<1>2. /\ at[c] = "write" /\ at'[c] = "leave"
      /\ UNCHANGED <<stamp, result, tx, now>>
      /\ \A d \in Calls \ {c} : SameCall(d)
  BY <1>1 DEF WriteLog, Goes, SameCall, Shapes
<1>3. ASSUME NEW d \in Calls \ {c}
      PROVE  at[d] # "write"
  BY <1>2 DEF LockFits, Inside
<1>4. CallFits(c)'
  BY <1>2 DEF CallFits, Young, Reserving
<1>5. QED
  BY <1>2, <1>3, <1>4, SameCallFits

LEMMA OthersFit ==
  ASSUME TypeOK, \A d \in Calls : CallFits(d),
         (\E p \in Servers : Die(p)) \/ Ages \/ Tick \/ UNCHANGED vars
  PROVE  \A d \in Calls : CallFits(d)'
<1>1. Shapes
  BY TypeIs
<1>2. ASSUME NEW p \in Servers, Die(p), NEW d \in Calls
      PROVE  CallFits(d)'
  <2>1. UNCHANGED <<stamp, log, tx, now>>
    BY <1>2 DEF Die
  <2>2. CASE Server[d] = p /\ at[d] # "over"
    <3>1. at'[d] = "over" /\ result'[d] = "pending"
      BY <1>2, <2>2 DEF Die
    <3>2. QED
      BY <2>1, <3>1 DEF CallFits, Young, Reserving
  <2>3. CASE ~(Server[d] = p /\ at[d] # "over")
    <3>1. SameCall(d)
      BY <1>2, <2>1, <2>3 DEF Die, SameCall
    <3>2. QED
      BY <2>1, <3>1, SameCallFits
  <2>4. QED
    BY <2>2, <2>3
<1>3. ASSUME Tick, NEW d \in Calls
      PROVE  CallFits(d)'
  <2>1. /\ UNCHANGED <<at, stamp, result, log, seen, tx>> /\ now' = now + 1
        /\ Reserving(d) /\ at[d] \in {"wait", "clear", "read", "write"} => stamp[d] = now
    BY <1>3 DEF Tick
  <2>2. stamp[d] \in Int /\ now \in Int
    BY <1>1 DEF Shapes
  <2>3. QED
    BY <2>1, <2>2 DEF CallFits, Young, Reserving
<1>4. ASSUME Ages \/ UNCHANGED vars, NEW d \in Calls
      PROVE  CallFits(d)'
  <2>1. SameCall(d) /\ UNCHANGED <<log, now>>
    BY <1>4 DEF Ages, vars, SameCall
  <2>2. QED
    BY <2>1, SameCallFits
<1>5. QED
  BY <1>2, <1>3, <1>4

LEMMA CallsFitNext ==
  ASSUME TypeOK, LockFits, \A d \in Calls : CallFits(d), [Next]_vars
  PROVE  \A d \in Calls : CallFits(d)'
<1>1. ASSUME NEW c \in Calls,
             \/ LockStep(c) \/ Begin(c) \/ ReadLog(c)
             \/ Broadcast(c) \/ Settle(c)
             \/ Revert(c) \/ LandsLate(c)
      PROVE  \A d \in Calls : CallFits(d)'
  BY <1>1, LockStepFits, CallStepFits, SameCallFits
<1>2. QED
  BY <1>1, WriteFits, OthersFit DEF Next

-----------------------------------------------------------------------------
(* The entries that count.                                                 *)

(* Only a reservation adds to the calls whose money may move.              *)
Shrinks ==
  /\ MayMove' \subseteq MayMove
  /\ \A d \in MayMove' : stamp'[d] = stamp[d]

LEMMA SameCallShrinks ==
  ASSUME NEW d \in Calls, SameCall(d)
  PROVE  d \in MayMove' => d \in MayMove /\ stamp'[d] = stamp[d]
  BY DEF SameCall, MayMove, ToPay, Reserving

LEMMA CallShrinks ==
  ASSUME TypeOK, NEW c \in Calls, CallFits(c),
         \/ LockStep(c) \/ Begin(c) \/ ReadLog(c)
         \/ Broadcast(c) \/ Settle(c)
         \/ Revert(c) \/ LandsLate(c)
  PROVE  Shrinks
<1>1. Shapes
  BY TypeIs
<1>2. \A d \in Calls \ {c} : SameCall(d)
  BY LockStepFits, CallStepFits
<1>3. SUFFICES c \in MayMove' => c \in MayMove /\ stamp'[c] = stamp[c]
  BY <1>2, SameCallShrinks DEF Shrinks, MayMove
<1>4. ASSUME OpenLock(c) \/ FindOld(c) \/ ClearOld(c) \/ GiveUp(c)
      PROVE  c \in MayMove' => c \in MayMove /\ stamp'[c] = stamp[c]
  <2>1. at'[c] \in {"read", "clear", "wait", "over"} /\ UNCHANGED <<stamp, tx>>
    BY <1>1, <1>4 DEF OpenLock, FindOld, ClearOld, GiveUp, Goes, Ends, Shapes
  <2>2. QED
    BY <2>1 DEF MayMove, ToPay
<1>5. ASSUME Leave(c)
      PROVE  c \in MayMove' => c \in MayMove /\ stamp'[c] = stamp[c]
  <2>1. at[c] = "leave" /\ at'[c] \in {"pay", "over"} /\ UNCHANGED <<stamp, tx>>
    BY <1>1, <1>5 DEF Leave, Goes, Ends, Shapes
  <2>2. at'[c] = "pay" => Reserving(c) /\ seen[c][c].status = "pending"
    BY <1>1, <1>5 DEF Leave, Goes, Ends, Shapes
  <2>3. QED
    BY <2>1, <2>2 DEF MayMove, ToPay
<1>6. ASSUME Begin(c)
      PROVE  c \notin MayMove'
  <2>1. at[c] = "idle" /\ at'[c] = "wait" /\ UNCHANGED <<result, tx>>
    BY <1>1, <1>6 DEF Begin, Goes, Shapes
  <2>2. tx[c] = "none"
    BY <2>1 DEF CallFits, Young
  <2>3. QED
    BY <2>1, <2>2 DEF MayMove, ToPay
<1>7. ASSUME ReadLog(c) \/ Settle(c)
      PROVE  c \in MayMove' => c \in MayMove /\ stamp'[c] = stamp[c]
  <2>1. at'[c] \in {"write", "wait"} /\ UNCHANGED <<stamp, tx>>
    BY <1>1, <1>7 DEF ReadLog, Settle, Goes, Shapes
  <2>2. QED
    BY <2>1 DEF MayMove, ToPay
<1>8. ASSUME Broadcast(c)
      PROVE  c \in MayMove /\ stamp'[c] = stamp[c]
  BY <1>8 DEF Broadcast, MayMove
<1>9. ASSUME Revert(c) \/ LandsLate(c)
      PROVE  c \in MayMove' => c \in MayMove /\ stamp'[c] = stamp[c]
  <2>1. tx'[c] # "out" /\ UNCHANGED <<at, stamp, result, seen>>
    BY <1>1, <1>9 DEF Revert, LandsLate, Shapes
  <2>2. QED
    BY <2>1 DEF MayMove, ToPay, Reserving
<1>10. QED
  BY <1>4, <1>5, <1>6, <1>7, <1>8, <1>9 DEF LockStep

LEMMA OthersShrink ==
  ASSUME TypeOK, (\E p \in Servers : Die(p)) \/ Ages \/ Tick \/ UNCHANGED vars
  PROVE  Shrinks
<1>1. Shapes
  BY TypeIs
<1>2. ASSUME NEW p \in Servers, Die(p)
      PROVE  Shrinks
  <2>1. UNCHANGED <<stamp, tx>>
    BY <1>2 DEF Die
  <2>2. \A d \in Calls : SameCall(d) \/ at'[d] = "over"
    BY <1>2, <2>1 DEF Die, SameCall
  <2>3. ASSUME NEW d \in Calls, at'[d] = "over"
        PROVE  d \in MayMove' => d \in MayMove
    BY <2>1, <2>3 DEF MayMove, ToPay
  <2>4. QED
    BY <2>1, <2>2, <2>3, SameCallShrinks DEF Shrinks, MayMove
<1>3. CASE Ages \/ Tick \/ UNCHANGED vars
  <2>1. \A d \in Calls : SameCall(d)
    BY <1>3 DEF Ages, Tick, vars, SameCall
  <2>2. QED
    BY <2>1, SameCallShrinks DEF Shrinks, MayMove
<1>4. QED
  BY <1>2, <1>3

LEMMA TimeGoesOn ==
  ASSUME TypeOK, [Next]_vars
  PROVE  now' \in Nat /\ now \in Nat /\ now <= now'
<1>1. Shapes
  BY TypeIs
<1>2. UNCHANGED now \/ now' = now + 1
  BY DEF Next, Begin, LockStep, OpenLock, FindOld, ClearOld, GiveUp, Leave, ReadLog, WriteLog,
         Broadcast, Settle, Revert, LandsLate, Die, Ages, Tick, vars
<1>3. QED
  BY <1>1, <1>2, SpendAssumption DEF Shapes

LEMMA ShrinkingKeepsEntries ==
  ASSUME TypeOK, [Next]_vars, Shrinks, UNCHANGED log, \A d \in Calls : EntryFits(d)
  PROVE  \A d \in Calls : EntryFits(d)'
<1>1. SUFFICES ASSUME NEW d \in Calls, d \in MayMove', stamp'[d] > now' - 2 * DAY
              PROVE  log'[d].status \in COUNTED_STATUSES /\ log'[d].at = stamp'[d]
  BY DEF EntryFits
<1>2. d \in MayMove /\ stamp'[d] = stamp[d] /\ stamp[d] \in Int
  BY <1>1, TypeIs DEF Shrinks, Shapes
<1>3. stamp[d] > now - 2 * DAY
  BY <1>1, <1>2, TimeGoesOn, SpendAssumption
<1>4. QED
  BY <1>2, <1>3 DEF EntryFits

(* Pruning keeps what still counts, even over KEEP_MAX.                    *)
LEMMA KeptStillCounts ==
  ASSUME NEW entries \in Logs, NEW time \in Int, NEW K \in Kept(entries, time),
         NEW d \in StillCounts(entries, time)
  PROVE  d \in K
<1> DEFINE recent == {c \in Calls : entries[c] # NoEntry /\ entries[c].at > time - KEEP}
           mustKeep == StillCounts(entries, time) \cap recent
<1>1. d \in Calls /\ entries[d].status \in COUNTED_STATUSES /\ entries[d].at > time - 2 * DAY
  BY DEF StillCounts
<1>2. entries[d] # NoEntry
  BY <1>1 DEF NoEntry, COUNTED_STATUSES
<1>3. entries[d].at \in Int
  BY <1>1, <1>2 DEF Logs, SpendEntry
<1>4. d \in mustKeep
  BY <1>1, <1>2, <1>3, SpendAssumption
<1>5. K = recent \/ mustKeep \subseteq K
  BY DEF Kept
<1>6. QED
  BY <1>4, <1>5

LEMMA WriteTimeFits ==
  ASSUME TypeOK, NEW c \in Calls, CallFits(c)
  PROVE  WriteTime(c) \in Nat /\ WriteTime(c) <= now /\ now \in Nat
  BY TypeIs, SpendAssumption DEF Shapes, WriteTime, CallFits

(* Another call's write leaves a call's fields, and its entry if it is     *)
(* kept, as they are.                                                      *)
LEMMA WritersEntry ==
  ASSUME TypeOK, NEW c \in Calls, CallFits(c), NEW K \in Kept(New(c), WriteTime(c)),
         Writes(c, K), NEW d \in Calls,
         New(c)[d].status \in COUNTED_STATUSES, New(c)[d].at > WriteTime(c) - 2 * DAY
  PROVE  log'[d] = New(c)[d]
<1>1. d \in StillCounts(New(c), WriteTime(c))
  BY DEF StillCounts
<1>2. d \in K
  BY <1>1, NewIsALog, WriteTimeFits, KeptStillCounts
<1>3. QED
  BY <1>2 DEF Writes

LEMMA WriteKeepsEntries ==
  ASSUME TypeOK, \A d \in Calls : CallFits(d) /\ EntryFits(d), NEW c \in Calls, WriteLog(c)
  PROVE  \A d \in Calls : EntryFits(d)'
<1>1. PICK K \in Kept(New(c), WriteTime(c)) : Writes(c, K)
  BY WriteLogWrites
<1>2. Shapes
  BY TypeIs
<1>3. SUFFICES ASSUME NEW d \in Calls, d \in MayMove', stamp'[d] > now' - 2 * DAY
              PROVE  log'[d].status \in COUNTED_STATUSES /\ log'[d].at = stamp'[d]
  BY DEF EntryFits
<1>4. /\ UNCHANGED <<stamp, tx, now, result>>
      /\ at[c] = "write" /\ at'[c] = "leave" /\ seen[c] = log /\ seen'[c] = New(c)
      /\ \A e \in Calls \ {c} : SameCall(e)
  BY <1>1, <1>2 DEF Writes, SameCall, CallFits, Shapes
<1>5. stamp[d] \in Nat /\ stamp[d] > now - 2 * DAY /\ stamp[d] > WriteTime(c) - 2 * DAY
  BY <1>2, <1>3, <1>4, WriteTimeFits, SpendAssumption DEF Shapes
<1>6. SUFFICES New(c)[d].status \in COUNTED_STATUSES /\ New(c)[d].at = stamp[d]
  BY <1>1, <1>4, <1>5, WritersEntry
<1>7. CASE d # c
  <2>1. d \in MayMove
    BY <1>3, <1>4, <1>7, SameCallShrinks
  <2>2. New(c)[d] = log[d]
    BY <1>4, <1>7, ReservedFits, SettledFits DEF New
  <2>3. QED
    BY <1>5, <2>1, <2>2 DEF EntryFits
<1>8. CASE d = c /\ Reserving(c)
  <2>1. tx[c] = "none"
    BY <1>4, <1>8 DEF CallFits, Young
  <2>2. New(c)[c].status = "pending"
    BY <1>3, <1>4, <1>8, <2>1 DEF MayMove, ToPay
  <2>3. New(c)[c].at = stamp[c]
    BY <1>8, ReservedFits DEF New
  <2>4. QED
    BY <1>8, <2>2, <2>3 DEF COUNTED_STATUSES
<1>9. CASE d = c /\ ~Reserving(c)
  <2>1. tx[c] = "out"
    BY <1>3, <1>4, <1>9 DEF MayMove, ToPay, Reserving
  <2>2. log[c].status \in COUNTED_STATUSES /\ log[c].at = stamp[c]
    BY <1>5, <1>9, <2>1 DEF EntryFits, MayMove
  <2>3. log[c] # NoEntry
    BY <2>2 DEF NoEntry, COUNTED_STATUSES
  <2>4. New(c)[c].status = result[c] /\ New(c)[c].at = log[c].at
    BY <1>4, <1>9, <2>3, SettledFits DEF New
  <2>5. result[c] \in COUNTED_STATUSES
    BY <1>9, <2>1 DEF CallFits
  <2>6. QED
    BY <1>9, <2>2, <2>4, <2>5
<1>10. QED
  BY <1>7, <1>8, <1>9

-----------------------------------------------------------------------------
(* The daily cap.                                                          *)

(* What a smaller set of capped calls in a day spends.                     *)
LEMMA HoldingLess ==
  ASSUME TypeOK, NEW t \in 0..MaxTime, CapFits, Holding(t)' \subseteq Holding(t)
  PROVE  Spend(Holding(t)') <= maxPerDay
<1>1. Holding(t) \in SUBSET Calls
  BY DEF Holding, MayMove
<1>2. Spend(Holding(t)') <= Spend(Holding(t)) /\ Spend(Holding(t)) <= maxPerDay
  BY <1>1, SpendGrows DEF CapFits
<1>3. Spend(Holding(t)') \in Nat /\ Spend(Holding(t)) \in Nat
  BY <1>1, SpendIsNat
<1>4. QED
  BY <1>2, <1>3, SpendAssumption

(* A reservation for a call of its own day.                                *)
LEMMA AllowedHolds ==
  ASSUME TypeOK, \A d \in Calls : CallFits(d) /\ EntryFits(d),
         NEW c \in Calls, at[c] = "write", Reserving(c), Allowed(c, log), c \notin Exits,
         NEW t \in 0..MaxTime, stamp[c] \in (t - DAY + 1)..t
  PROVE  Spend(Holding(t) \cup {c}) <= maxPerDay
<1>1. Shapes
  BY TypeIs
<1>2. stamp[c] \in Nat /\ now \in Nat /\ now <= stamp[c] + 1 /\ DAY \in Nat \ {0} /\ t \in Nat
  BY <1>1, SpendAssumption DEF Shapes, CallFits, Young
<1>3. Holding(t) \subseteq Window(log, stamp[c])
  <2>1. SUFFICES ASSUME NEW d \in Holding(t)
                 PROVE  d \in Window(log, stamp[c])
    OBVIOUS
  <2>2. d \in Calls \ Exits /\ d \in MayMove /\ stamp[d] \in (t - DAY + 1)..t
    BY DEF Holding, MayMove
  <2>3. stamp[d] \in Nat
    BY <1>1, <2>2 DEF Shapes
  <2>4. stamp[d] > stamp[c] - DAY
    BY <1>2, <2>2, <2>3
  <2>5. stamp[d] > now - 2 * DAY
    BY <1>2, <2>3, <2>4
  <2>6. log[d].status \in COUNTED_STATUSES /\ log[d].at = stamp[d]
    BY <2>2, <2>5 DEF EntryFits
  <2>7. QED
    BY <2>2, <2>4, <2>6 DEF Window, Counted
<1>4. Window(log, stamp[c]) \in SUBSET Calls /\ Holding(t) \in SUBSET Calls
  BY DEF Window, Counted, Holding, MayMove
<1>5. Spend(Window(log, stamp[c])) + Amount[c] <= maxPerDay
  BY DEF Allowed
<1>6. Spend(Holding(t)) <= Spend(Window(log, stamp[c]))
  BY <1>3, <1>4, SpendGrows
<1>7. Spend(Holding(t) \cup {c}) <= Spend(Holding(t)) + Amount[c]
  BY <1>4, SpendAdds
<1>8. /\ Spend(Holding(t)) \in Nat /\ Spend(Window(log, stamp[c])) \in Nat
      /\ Spend(Holding(t) \cup {c}) \in Nat /\ Amount[c] \in Nat /\ maxPerDay \in Nat
  BY <1>4, SpendIsNat, SpendAssumption
<1>9. QED
  BY <1>5, <1>6, <1>7, <1>8

LEMMA WriteKeepsCap ==
  ASSUME TypeOK, \A d \in Calls : CallFits(d) /\ EntryFits(d), CapFits,
         NEW c \in Calls, WriteLog(c)
  PROVE  CapFits'
<1>1. PICK K \in Kept(New(c), WriteTime(c)) : Writes(c, K)
  BY WriteLogWrites
<1>2. /\ UNCHANGED <<stamp, tx, now, result>>
      /\ at[c] = "write" /\ at'[c] = "leave" /\ seen[c] = log /\ seen'[c] = New(c)
      /\ \A d \in Calls \ {c} : SameCall(d)
  BY <1>1, TypeIs DEF Writes, SameCall, CallFits, Shapes
<1>3. SUFFICES ASSUME NEW t \in 0..MaxTime
              PROVE  Spend(Holding(t)') <= maxPerDay
  BY DEF CapFits
<1>4. \A d \in Calls \ {c} : d \in MayMove' => d \in MayMove
  BY <1>2, SameCallShrinks
<1>5. CASE c \in MayMove' => c \in MayMove
  <2>1. Holding(t)' \subseteq Holding(t)
    BY <1>2, <1>4, <1>5 DEF Holding, MayMove
  <2>2. QED
    BY <2>1, HoldingLess
<1>6. CASE c \in Exits \/ stamp[c] \notin (t - DAY + 1)..t
  <2>1. Holding(t)' \subseteq Holding(t)
    BY <1>2, <1>4, <1>6 DEF Holding, MayMove
  <2>2. QED
    BY <2>1, HoldingLess
<1>7. CASE /\ c \in MayMove' /\ c \notin MayMove
           /\ c \notin Exits /\ stamp[c] \in (t - DAY + 1)..t
  <2>1. Reserving(c) /\ New(c)[c].status = "pending"
    BY <1>2, <1>7 DEF MayMove, ToPay, Reserving
  <2>2. Allowed(c, log)
    BY <1>2, <2>1, ReservedFits DEF New
  <2>3. Spend(Holding(t) \cup {c}) <= maxPerDay
    BY <1>2, <1>7, <2>1, <2>2, AllowedHolds
  <2>4. Holding(t)' \subseteq Holding(t) \cup {c}
    BY <1>2, <1>4 DEF Holding, MayMove
  <2>5. Holding(t) \cup {c} \in SUBSET Calls /\ Holding(t)' \in SUBSET Calls
    BY DEF Holding, MayMove
  <2>6. Spend(Holding(t)') <= Spend(Holding(t) \cup {c})
    BY <2>4, <2>5, SpendGrows
  <2>7. Spend(Holding(t)') \in Nat /\ Spend(Holding(t) \cup {c}) \in Nat /\ maxPerDay \in Nat
    BY <2>5, SpendIsNat, SpendAssumption
  <2>8. QED
    BY <2>3, <2>6, <2>7
<1>8. QED
  BY <1>5, <1>6, <1>7

LEMMA ShrinkingKeepsCap ==
  ASSUME TypeOK, CapFits, Shrinks
  PROVE  CapFits'
<1>1. SUFFICES ASSUME NEW t \in 0..MaxTime
              PROVE  Spend(Holding(t)') <= maxPerDay
  BY DEF CapFits
<1>2. Holding(t)' \subseteq Holding(t)
  BY DEF Holding, Shrinks
<1>3. QED
  BY <1>2, HoldingLess

-----------------------------------------------------------------------------
(* The invariant holds, and what follows from it.                          *)

LEMMA InvInit ==
  ASSUME Init
  PROVE  IInv
<1>1. TypeOK
  BY TypeInit
<1>2. Inside = {} /\ MayMove = {}
  BY DEF Init, Inside, MayMove, ToPay
<1>3. LockFits
  BY <1>2, SpendAssumption DEF Init, LockFits
<1>4. ASSUME NEW c \in Calls
      PROVE  CallFits(c) /\ EntryFits(c)
  BY <1>2 DEF Init, CallFits, EntryFits, Young, Reserving
<1>5. ASSUME NEW t \in 0..MaxTime
      PROVE  Spend(Holding(t)) <= maxPerDay
  <2>1. Holding(t) = {}
    BY <1>2 DEF Holding
  <2>2. QED
    BY <2>1, SpendUnfolds, SpendAssumption
<1>6. QED
  BY <1>1, <1>3, <1>4, <1>5 DEF IInv, CapFits

LEMMA InvNext ==
  ASSUME IInv, [Next]_vars, [ClearsNoneInUse]_vars
  PROVE  IInv'
<1>1. /\ TypeOK /\ LockFits /\ CapFits
      /\ \A d \in Calls : CallFits(d) /\ EntryFits(d)
  BY DEF IInv
<1>2. TypeOK' /\ LockFits' /\ \A d \in Calls : CallFits(d)'
  BY <1>1, TypeNext, LockNext, CallsFitNext
<1>3. ASSUME NEW c \in Calls, WriteLog(c)
      PROVE  CapFits' /\ \A d \in Calls : EntryFits(d)'
  BY <1>1, <1>3, WriteKeepsEntries, WriteKeepsCap
<1>4. ASSUME Shrinks, UNCHANGED log
      PROVE  CapFits' /\ \A d \in Calls : EntryFits(d)'
  BY <1>1, <1>4, ShrinkingKeepsEntries, ShrinkingKeepsCap
<1>5. ASSUME NEW c \in Calls,
             \/ LockStep(c) \/ Begin(c) \/ ReadLog(c)
             \/ Broadcast(c) \/ Settle(c)
             \/ Revert(c) \/ LandsLate(c)
      PROVE  CapFits' /\ \A d \in Calls : EntryFits(d)'
  <2>1. UNCHANGED log
    BY <1>1, <1>5, LockStepFits, CallStepFits
  <2>2. Shrinks
    BY <1>1, <1>5, CallShrinks
  <2>3. QED
    BY <1>4, <2>1, <2>2
<1>6. ASSUME (\E p \in Servers : Die(p)) \/ Ages \/ Tick \/ UNCHANGED vars
      PROVE  CapFits' /\ \A d \in Calls : EntryFits(d)'
  <2>1. UNCHANGED log
    BY <1>6 DEF Die, Ages, Tick, vars
  <2>2. Shrinks
    BY <1>1, <1>6, OthersShrink
  <2>3. QED
    BY <1>4, <2>1, <2>2
<1>7. CapFits' /\ \A d \in Calls : EntryFits(d)'
  BY <1>3, <1>5, <1>6 DEF Next
<1>8. QED
  BY <1>2, <1>7 DEF IInv

(* The lock, the calls, their entries and the cap fit together as long as  *)
(* no lock in use is cleared, for any number of server processes.          *)
THEOREM InvHolds == Spec /\ [][ClearsNoneInUse]_vars => []IInv
<1>1. IInv /\ [Next]_vars /\ [ClearsNoneInUse]_vars => IInv'
  BY InvNext
<1>2. QED
  BY <1>1, InvInit, PTL DEF Spec

(* Two server processes never clear a lock in use: the one whose old file  *)
(* is cleared is dead and the other, which clears, has no call inside      *)
(* (fileLock.ts).                                                          *)
THEOREM TwoServersClearSafely ==
  ASSUME AtMostTwoServers
  PROVE  Spec => [][ClearsNoneInUse]_vars
<1>1. IInv /\ [Next]_vars => IInv' /\ ClearsNoneInUse
  BY InvNext, TwoServersClearNoneInUse DEF IInv
<1>2. QED
  BY <1>1, InvInit, PTL DEF Spec

(* Server processes take turns inside the lock, though its file outlives a *)
(* holder that died, unless one clears the file of another that is inside. *)
THEOREM TurnsAreTaken == Spec /\ [][ClearsNoneInUse]_vars => []CallsTakeTurns
<1>1. ASSUME IInv
      PROVE  CallsTakeTurns
  <2>1. Inside = {} \/ Inside = {lockFile}
    BY <1>1 DEF IInv, LockFits
  <2>2. Cardinality({}) = 0 /\ Cardinality({lockFile}) = 1
    BY FS_EmptySet, FS_Singleton
  <2>3. Cardinality(Inside) \in {0, 1}
    BY <2>1, <2>2, Zenon
  <2>4. QED
    BY <2>3 DEF CallsTakeTurns
<1>2. QED
  BY <1>1, InvHolds, PTL

(* What a call is to pay, or has out with no refusal or revert, has an     *)
(* entry that counts for the day any limit looks back, whatever was pruned *)
(* from the log (spendLog.ts).                                             *)
THEOREM MovingKeepsItsEntry == Spec /\ [][ClearsNoneInUse]_vars => []MovingIsCounted
<1>1. ASSUME IInv
      PROVE  MovingIsCounted
  <2>1. SUFFICES ASSUME NEW c \in Moving, stamp[c] > now - DAY
                 PROVE  log[c].status \in COUNTED_STATUSES
    BY DEF MovingIsCounted
  <2>2. c \in Calls /\ c \in MayMove
    BY DEF Moving, MayMove
  <2>3. stamp[c] \in Nat /\ now \in Nat
    BY <1>1, <2>2, TypeIs, SpendAssumption DEF IInv, Shapes
  <2>4. stamp[c] > now - 2 * DAY
    BY <2>1, <2>3, SpendAssumption
  <2>5. QED
    BY <1>1, <2>2, <2>4 DEF IInv, EntryFits
<1>2. QED
  BY <1>1, InvHolds, PTL

(* "Two calls at once cannot both squeeze under the daily limit"           *)
(* (spendLog.ts:4-6): true of any calls, amounts, limits, processes and    *)
(* crashes, unless a lock in use is cleared, for all but the sends that    *)
(* land after they were refused or reverted.                               *)
THEOREM CapIsKept == Spec /\ [][ClearsNoneInUse]_vars => []DailyCapHolds
<1>1. ASSUME IInv
      PROVE  DailyCapHolds
  <2>1. SUFFICES ASSUME NEW t \in 0..MaxTime
                 PROVE  Spend({c \in Moving \ Exits : stamp[c] \in (t - DAY + 1)..t})
                          <= maxPerDay
    BY DEF DailyCapHolds
  <2> DEFINE moved == {c \in Moving \ Exits : stamp[c] \in (t - DAY + 1)..t}
  <2>2. Holding(t) \in SUBSET Calls /\ moved \in SUBSET Holding(t)
    BY DEF Holding, MayMove, Moving
  <2> HIDE DEF moved
  <2>3. Spend(moved) <= Spend(Holding(t)) /\ Spend(Holding(t)) <= maxPerDay
    BY <1>1, <2>2, SpendGrows DEF IInv, CapFits
  <2>4. Spend(moved) \in Nat /\ Spend(Holding(t)) \in Nat
    BY <2>2, SpendIsNat
  <2>5. Spend(moved) <= maxPerDay
    BY <2>3, <2>4, SpendAssumption
  <2> USE DEF moved
  <2>6. QED
    BY <2>5
<1>2. QED
  BY <1>1, InvHolds, PTL

(* So two server processes keep the turns, and the entries and the cap of  *)
(* all that is to be paid or out, wherever one of them dies.               *)
THEOREM TwoServersKeepAll ==
  ASSUME AtMostTwoServers
  PROVE  Spec => [](CallsTakeTurns /\ MovingIsCounted /\ DailyCapHolds)
  BY TwoServersClearSafely, TurnsAreTaken, MovingKeepsItsEntry, CapIsKept, PTL

=============================================================================
