---------------------------- MODULE VaultProofs ----------------------------
(***************************************************************************)
(* The vault's ledger, proved for any assets, accounts, amounts, tree size *)
(* and fee cap.  The inductive invariant is IInv: each asset's record of   *)
(* its backing is the value of the unspent notes, which only makes sense   *)
(* of finitely many units, and only stays true because a note is spent     *)
(* once and only after it entered the tree.                                *)
(***************************************************************************)
EXTENDS Vault, FiniteSetTheorems, TLAPS

(* What is in the tree, what was ever accepted and what is spent.          *)
TreeIsSeen ==
  /\ \A i \in 1..Len(leaves) : leaves[i] \in commitmentSeen
  /\ \A n \in commitmentSeen : \E i \in 1..Len(leaves) : leaves[i] = n
  /\ spent \subseteq commitmentSeen

FiniteUnits == \A a \in Assets : IsFiniteSet(Units(commitmentSeen, a))

IInv == TypeOK /\ TreeIsSeen /\ FiniteUnits /\ BackingIsExact /\ Solvent

-----------------------------------------------------------------------------
(* The value of one note.                                                  *)
LEMMA UnitsOfOne ==
  ASSUME NEW n \in Note, NEW a \in Assets
  PROVE  /\ IsFiniteSet(Units({n}, a))
         /\ Value({n}, a) = IF n.asset = a THEN n.amount ELSE 0
<1>0. n.amount \in Nat /\ n.amount <= MaxAmount /\ MaxAmount \in Nat
  BY VaultAssumption DEF Note
<1> DEFINE amount == n.amount
<1>3. IsFiniteSet(1..amount) /\ Cardinality(1..amount) = amount
  <2>1. amount \in Nat
    BY <1>0
  <2> HIDE DEF amount
  <2> QED BY <2>1, FS_Interval
<1> HIDE DEF amount
<1>1. CASE n.asset # a
  <2>1. Units({n}, a) = {}
    BY <1>1 DEF Units
  <2> QED BY <1>1, <2>1, FS_EmptySet DEF Value
<1>2. CASE n.asset = a
  <2> DEFINE f == [k \in 1..n.amount |-> <<n, k>>]
  <2>1. \A k \in 1..n.amount : k \in 1..MaxAmount
    BY <1>0
  <2>2. f \in [1..n.amount -> Units({n}, a)]
    BY <1>2, <2>1, <1>0 DEF Units
  <2>3. \A j, k \in 1..n.amount : f[j] = f[k] => j = k
    OBVIOUS
  <2>4. \A p \in Units({n}, a) : \E k \in 1..n.amount : f[k] = p
    <3> SUFFICES ASSUME NEW p \in Units({n}, a)
                 PROVE  \E k \in 1..n.amount : f[k] = p
      OBVIOUS
    <3>1. p = <<n, p[2]>> /\ p[2] \in 1..MaxAmount /\ p[2] <= n.amount
      BY DEF Units
    <3>2. p[2] \in 1..n.amount
      BY <3>1, <1>0
    <3> QED BY <3>1, <3>2
  <2>5. f \in Bijection(1..n.amount, Units({n}, a))
    BY <2>2, <2>3, <2>4 DEF Bijection, Injection, Surjection, IsInjective
  <2>6. IsFiniteSet(1..n.amount) /\ Cardinality(1..n.amount) = n.amount
    BY <1>3 DEF amount
  <2> HIDE DEF f
  <2>7. ExistsBijection(1..n.amount, Units({n}, a))
    BY <2>5 DEF ExistsBijection
  <2> QED BY <1>2, <2>6, <2>7, FS_Bijection DEF Value
<1> QED BY <1>1, <1>2

(* A note that comes in adds its amount to its asset and nothing to others.*)
LEMMA ValueAdds ==
  ASSUME NEW S, S \subseteq Note, NEW n \in Note, n \notin S, NEW a \in Assets,
         IsFiniteSet(Units(S, a))
  PROVE  /\ IsFiniteSet(Units(S \cup {n}, a))
         /\ Value(S \cup {n}, a) =
              Value(S, a) + (IF n.asset = a THEN n.amount ELSE 0)
<1>1. Units(S \cup {n}, a) = Units(S, a) \cup Units({n}, a)
  BY DEF Units
<1>2. Units(S, a) \cap Units({n}, a) = {}
  BY DEF Units
<1>3. Cardinality(Units(S, a) \cap Units({n}, a)) = 0
  BY <1>2, FS_EmptySet
<1>4. Value(S, a) \in Nat /\ Value({n}, a) \in Nat
  BY FS_CardinalityType, UnitsOfOne DEF Value
<1>5. IsFiniteSet(Units({n}, a))
  BY UnitsOfOne
<1>6. /\ IsFiniteSet(Units(S, a) \cup Units({n}, a))
      /\ Cardinality(Units(S, a) \cup Units({n}, a)) =
           Cardinality(Units(S, a)) + Cardinality(Units({n}, a)) - 0
  BY <1>3, <1>5, FS_Union
<1>7. Value(S \cup {n}, a) = Value(S, a) + Value({n}, a) - 0
  BY <1>1, <1>6 DEF Value
<1>8. Value(S \cup {n}, a) = Value(S, a) + Value({n}, a)
  BY <1>4, <1>7
<1> QED BY <1>1, <1>6, <1>8, UnitsOfOne

(* A note that is spent takes its amount away, so the set it leaves was    *)
(* worth at least that.                                                    *)
LEMMA ValueRemoves ==
  ASSUME NEW S, S \subseteq Note, NEW n \in S, NEW a \in Assets,
         IsFiniteSet(Units(S, a))
  PROVE  /\ IsFiniteSet(Units(S \ {n}, a))
         /\ Value(S \ {n}, a) \in Nat
         /\ Value(S, a) = Value(S \ {n}, a)
                            + (IF n.asset = a THEN n.amount ELSE 0)
<1>1. Units(S \ {n}, a) \subseteq Units(S, a)
  BY DEF Units
<1>2. IsFiniteSet(Units(S \ {n}, a))
  BY <1>1, FS_Subset
<1>3. (S \ {n}) \cup {n} = S
  OBVIOUS
<1>4. Value(S \ {n}, a) \in Nat
  BY <1>2, FS_CardinalityType DEF Value
<1> QED BY <1>2, <1>3, <1>4, ValueAdds

-----------------------------------------------------------------------------
(* ShieldPoolCore._withdrawFee never charges more than the amount.         *)
LEMMA FeeWithinAmount ==
  ASSUME NEW amount \in Nat, NEW bps \in 0..MAX_WITHDRAW_FEE_BPS, NEW to
  PROVE  /\ WithdrawFee(amount, bps, to) \in Nat
         /\ WithdrawFee(amount, bps, to) <= amount
<1>0. bps \in Nat /\ BPS \in Nat /\ BPS > 0 /\ bps < BPS
  BY RulesAssumption
<1>1. CASE bps = 0 \/ to = NoAddress
  BY <1>1 DEF WithdrawFee
<1>2. CASE ~(bps = 0 \/ to = NoAddress)
  <2> DEFINE q == amount \div BPS
             m == amount % BPS
             part == (m * bps) \div BPS
  <2>1. q \in Nat /\ m \in Nat /\ amount = q * BPS + m
    BY <1>0
  <2>2. m * bps \in Nat /\ m * bps <= m * BPS
    <3> HIDE DEF m
    <3> QED BY <1>0, <2>1
  <2>3. part \in Nat /\ part <= m
    <3> DEFINE x == m * bps
    <3>1. x \in Nat /\ x <= m * BPS
      BY <2>2
    <3>2. x \div BPS \in Nat /\ BPS * (x \div BPS) <= x
      <4> HIDE DEF x
      <4> QED BY <1>0, <3>1
    <3>3. BPS * (x \div BPS) <= BPS * m
      <4> HIDE DEF x, m
      <4> QED BY <3>1, <3>2, <1>0, <2>1
    <3>4. x \div BPS <= m
      <4> DEFINE y == x \div BPS
      <4>1. y \in Nat /\ BPS * y <= BPS * m
        BY <3>2, <3>3
      <4> HIDE DEF y, m
      <4> QED BY <4>1, <1>0, <2>1
    <3> QED BY <3>2, <3>4
  <2>4. q * bps \in Nat /\ q * bps <= q * BPS
    <3> HIDE DEF q
    <3> QED BY <1>0, <2>1
  <2>5. WithdrawFee(amount, bps, to) = q * bps + part
    BY <1>2 DEF WithdrawFee
  <2> HIDE DEF q, m, part
  <2>6. q * bps + part \in Nat /\ q * bps + part <= q * BPS + m
    BY <2>1, <2>3, <2>4, <1>0
  <2> QED BY <2>1, <2>5, <2>6
<1> QED BY <1>1, <1>2

-----------------------------------------------------------------------------
(* Every setter body keeps the rules well formed; the fee keeps its cap.   *)
LEMMA RulesStep == RulesTypeOK /\ [RulesNext]_ruleVars => RulesTypeOK'
<1> SUFFICES ASSUME RulesTypeOK, [RulesNext]_ruleVars
             PROVE  RulesTypeOK'
  OBVIOUS
<1> USE DEF RulesTypeOK
<1>1. ASSUME NEW v \in Verifiers \cup {NoAddress}, SetVerifier(v)
      PROVE  RulesTypeOK'
  BY <1>1 DEF SetVerifier
<1>2. ASSUME NEW v \in Verifiers, SetShieldVerifier(v)
      PROVE  RulesTypeOK'
  BY <1>2 DEF SetShieldVerifier
<1>3. CASE TurnOnDepositLimits
  BY <1>3 DEF TurnOnDepositLimits
<1>4. ASSUME NEW a \in Assets, NEW l \in DepositLimit, SetDepositLimit(a, l)
      PROVE  RulesTypeOK'
  BY <1>4 DEF SetDepositLimit
<1>5. ASSUME NEW bps \in 0..BPS, NEW to \in Addresses \cup {NoAddress},
             SetWithdrawFee(bps, to)
      PROVE  RulesTypeOK'
  <2>1. bps \in 0..MAX_WITHDRAW_FEE_BPS
    BY <1>5, RulesAssumption DEF SetWithdrawFee, FeeWithinCap
  <2> QED BY <1>5, <2>1 DEF SetWithdrawFee
<1>6. CASE UNCHANGED ruleVars
  BY <1>6 DEF ruleVars
<1> QED BY <1>1, <1>2, <1>3, <1>4, <1>5, <1>6 DEF RulesNext

LEMMA InitType == Init => TypeOK
<1> SUFFICES ASSUME Init PROVE TypeOK
  OBVIOUS
<1>1. depositLimit \in [Assets -> DepositLimit]
  BY RulesAssumption DEF Init, RulesInit, DepositLimit
<1>2. withdrawFeeBps \in 0..MAX_WITHDRAW_FEE_BPS
  BY RulesAssumption DEF Init, RulesInit
<1>4. RulesTypeOK
  BY <1>1, <1>2 DEF Init, RulesInit, RulesTypeOK
<1>3. leaves \in Seq(Note)
  BY DEF Init
<1> QED BY <1>3, <1>4 DEF Init, TypeOK

LEMMA TypeStep == TypeOK /\ [Next]_vars => TypeOK'
<1> SUFFICES ASSUME TypeOK, [Next]_vars
             PROVE  TypeOK'
  OBVIOUS
<1> USE DEF TypeOK
<1>r. ASSUME UNCHANGED ruleVars
      PROVE  RulesTypeOK'
  BY <1>r, RulesStep
<1>1. ASSUME NEW n \in Note, ShieldBound(n)
      PROVE  TypeOK'
  <2>1. n.amount \in Nat /\ n.asset \in Assets
    BY VaultAssumption DEF Note
  <2> QED BY <1>1, <1>r, <2>1 DEF ShieldBound
<1>2. ASSUME NEW n \in commitmentSeen, NEW pay \in Note, NEW change \in Note,
             NEW r \in 0..Len(leaves), Transfer(n, pay, change, r)
      PROVE  TypeOK'
  <2>1. <<pay, change>> \in Seq(Note)
    OBVIOUS
  <2>2. leaves' \in Seq(Note)
    BY <1>2, <2>1 DEF Transfer
  <2> QED BY <1>2, <1>r, <2>2 DEF Transfer
<1>3. ASSUME NEW n \in commitmentSeen, NEW to \in Addresses,
             NEW r \in 0..Len(leaves), Unshield(n, to, r)
      PROVE  TypeOK'
  <2> DEFINE fee == WithdrawFee(n.amount, withdrawFeeBps, feeRecipient)
  <2>1. n.amount \in Nat /\ n.asset \in Assets
    BY VaultAssumption DEF Note
  <2>2. fee \in Nat /\ fee <= n.amount
    BY <2>1, FeeWithinAmount DEF RulesTypeOK
  <2> HIDE DEF fee
  <2>3. deposited' \in [Assets -> Nat]
    BY <1>3, <2>1 DEF Unshield, CanUnshield
  <2>4. feesOwed' = [feesOwed EXCEPT ![n.asset] = @ + fee]
    BY <1>3 DEF Unshield, fee
  <2>5. feesOwed' \in [Assets -> Nat]
    BY <2>1, <2>2, <2>4
  <2>6. /\ balance[n.asset] >= n.amount - fee
        /\ balance' = [balance EXCEPT ![n.asset] =
                         IF to = VAULT THEN @ ELSE @ - (n.amount - fee)]
    BY <1>3 DEF Unshield, fee, Pushed
  <2>7. balance' \in [Assets -> Nat]
    BY <2>1, <2>2, <2>6
  <2> QED BY <1>3, <1>r, <2>3, <2>5, <2>7 DEF Unshield
<1>4. ASSUME NEW a \in Assets, CollectFees(a)
      PROVE  TypeOK'
  BY <1>4, <1>r DEF CollectFees, Pushed
<1>5. ASSUME NEW to \in Addresses, SweepStrayNative(to)
      PROVE  TypeOK'
  BY <1>5, <1>r, RulesAssumption DEF SweepStrayNative, Pushed, Backed
<1>6. ASSUME NEW a \in Assets, NEW x \in 1..MaxAmount, StrayArrives(a, x)
      PROVE  TypeOK'
  BY <1>6, <1>r, VaultAssumption DEF StrayArrives
<1>7. CASE RuleChange
  BY <1>7, RulesStep DEF RuleChange, ledgerVars
<1>8. CASE UNCHANGED vars
  BY <1>8, <1>r DEF vars, ledgerVars
<1> QED BY <1>1, <1>2, <1>3, <1>4, <1>5, <1>6, <1>7, <1>8 DEF Next

(* The ledger's types, and with them the fee cap: no reachable vault takes *)
(* more than MAX_WITHDRAW_FEE_BPS of a cash out, whoever sets its rules.   *)
THEOREM TypeCorrect == Spec => []TypeOK
BY InitType, TypeStep, PTL DEF Spec

-----------------------------------------------------------------------------
LEMMA InitInv == Init => IInv
<1> SUFFICES ASSUME Init PROVE IInv
  OBVIOUS
<1>1. Len(leaves) = 0
  BY DEF Init
<1>2. \A a \in Assets : Units(commitmentSeen, a) = {} /\ Units(Unspent, a) = {}
  BY DEF Init, Units, Unspent
<1>3. FiniteUnits /\ BackingIsExact
  BY <1>2, FS_EmptySet DEF Init, FiniteUnits, BackingIsExact, Value
<1>4. TreeIsSeen
  BY <1>1 DEF Init, TreeIsSeen
<1>5. \A a \in Assets : balance[a] = 0 /\ deposited[a] = 0 /\ feesOwed[a] = 0
  BY DEF Init
<1>6. Solvent
  <2> SUFFICES ASSUME NEW a \in Assets
               PROVE  balance[a] >= deposited[a] + feesOwed[a]
    BY DEF Solvent, Backed
  <2>1. 0 >= 0 + 0
    OBVIOUS
  <2> QED BY <1>5, <2>1
<1> QED BY <1>3, <1>4, <1>6, InitType DEF IInv

(* What the value of the unspent notes becomes when notes come in.         *)
LEMMA BackingAdds ==
  ASSUME IInv, NEW n \in Note, n \notin commitmentSeen,
         commitmentSeen' = commitmentSeen \cup {n}, spent' = spent
  PROVE  \A a \in Assets :
           /\ IsFiniteSet(Units(commitmentSeen', a))
           /\ Value(Unspent', a) =
                deposited[a] + (IF n.asset = a THEN n.amount ELSE 0)
<1> SUFFICES ASSUME NEW a \in Assets
             PROVE  /\ IsFiniteSet(Units(commitmentSeen', a))
                    /\ Value(Unspent', a) =
                         deposited[a] + (IF n.asset = a THEN n.amount ELSE 0)
  OBVIOUS
<1>1. commitmentSeen \subseteq Note /\ spent \subseteq commitmentSeen
  BY DEF IInv, TypeOK, TreeIsSeen
<1>2. Unspent' = Unspent \cup {n} /\ n \notin Unspent /\ Unspent \subseteq Note
  BY <1>1 DEF Unspent
<1>3. IsFiniteSet(Units(commitmentSeen, a))
  BY DEF IInv, FiniteUnits
<1>4. Units(Unspent, a) \subseteq Units(commitmentSeen, a)
  BY DEF Units, Unspent
<1>5. IsFiniteSet(Units(Unspent, a))
  BY <1>3, <1>4, FS_Subset
<1>6. IsFiniteSet(Units(commitmentSeen \cup {n}, a))
  BY <1>1, <1>3, ValueAdds
<1>7. Value(Unspent \cup {n}, a) =
        Value(Unspent, a) + (IF n.asset = a THEN n.amount ELSE 0)
  BY <1>2, <1>5, ValueAdds
<1> QED BY <1>2, <1>6, <1>7 DEF IInv, BackingIsExact

(* The tree still holds what was accepted when a note is appended.         *)
LEMMA TreeAppends ==
  ASSUME TypeOK, TreeIsSeen, NEW n \in Note,
         commitmentSeen' = commitmentSeen \cup {n},
         leaves' = Append(leaves, n), spent' = spent
  PROVE  TreeIsSeen'
<1>1. /\ Len(leaves) \in Nat
      /\ Len(leaves') = Len(leaves) + 1
      /\ leaves'[Len(leaves) + 1] = n
      /\ \A i \in 1..Len(leaves) : leaves'[i] = leaves[i]
  BY DEF TypeOK
<1>2. \A i \in 1..Len(leaves') : i \in 1..Len(leaves) \/ i = Len(leaves) + 1
  BY <1>1
<1>3. \A i \in 1..Len(leaves') : leaves'[i] \in commitmentSeen'
  BY <1>1, <1>2 DEF TreeIsSeen
<1>4. ASSUME NEW m \in commitmentSeen'
      PROVE  \E i \in 1..Len(leaves') : leaves'[i] = m
  <2>1. CASE m = n
    BY <1>1, <2>1
  <2>2. CASE m \in commitmentSeen
    <3>1. PICK i \in 1..Len(leaves) : leaves[i] = m
      BY <2>2 DEF TreeIsSeen
    <3> QED BY <1>1, <3>1
  <2> QED BY <2>1, <2>2
<1> QED BY <1>3, <1>4 DEF TreeIsSeen

LEMMA TreeAppendsTwo ==
  ASSUME TypeOK, TreeIsSeen, NEW pay \in Note, NEW change \in Note,
         commitmentSeen' = commitmentSeen \cup {pay, change},
         leaves' = leaves \o <<pay, change>>, spent' \subseteq commitmentSeen
  PROVE  TreeIsSeen'
<1>1. <<pay, change>> \in Seq(Note) /\ Len(<<pay, change>>) = 2
  OBVIOUS
<1>2. /\ Len(leaves) \in Nat
      /\ Len(leaves') = Len(leaves) + 2
      /\ leaves'[Len(leaves) + 1] = pay
      /\ leaves'[Len(leaves) + 2] = change
      /\ \A i \in 1..Len(leaves) : leaves'[i] = leaves[i]
  BY <1>1 DEF TypeOK
<1>3. \A i \in 1..Len(leaves') :
        i \in 1..Len(leaves) \/ i = Len(leaves) + 1 \/ i = Len(leaves) + 2
  BY <1>2
<1>4. \A i \in 1..Len(leaves') : leaves'[i] \in commitmentSeen'
  BY <1>2, <1>3 DEF TreeIsSeen
<1>5. ASSUME NEW m \in commitmentSeen'
      PROVE  \E i \in 1..Len(leaves') : leaves'[i] = m
  <2>1. CASE m = pay
    BY <1>2, <2>1
  <2>2. CASE m = change
    BY <1>2, <2>2
  <2>3. CASE m \in commitmentSeen
    <3>1. PICK i \in 1..Len(leaves) : leaves[i] = m
      BY <2>3 DEF TreeIsSeen
    <3> QED BY <1>2, <3>1
  <2> QED BY <2>1, <2>2, <2>3
<1> QED BY <1>4, <1>5 DEF TreeIsSeen

-----------------------------------------------------------------------------
(* One step lemma per action that moves money; each shows the three parts  *)
(* of IInv the action can disturb beside the types.                        *)
LEMMA ShieldStep ==
  ASSUME IInv, NEW n \in Note, ShieldBound(n)
  PROVE  TreeIsSeen' /\ FiniteUnits' /\ BackingIsExact' /\ Solvent'
<1> USE DEF IInv
<1>1. n.amount \in Nat /\ n.asset \in Assets
  BY VaultAssumption DEF Note
<1>2. TreeIsSeen'
  BY TreeAppends DEF ShieldBound
<1>3. \A a \in Assets :
        /\ IsFiniteSet(Units(commitmentSeen', a))
        /\ Value(Unspent', a) =
             deposited[a] + (IF n.asset = a THEN n.amount ELSE 0)
  BY BackingAdds DEF ShieldBound
<1>4. FiniteUnits'
  BY <1>3 DEF FiniteUnits
<1>5. \A a \in Assets :
        deposited'[a] = deposited[a] + (IF n.asset = a THEN n.amount ELSE 0)
  BY <1>1 DEF ShieldBound, TypeOK
<1>6. BackingIsExact'
  BY <1>3, <1>5 DEF BackingIsExact
<1>7. \A a \in Assets :
        balance'[a] = balance[a] + (IF n.asset = a THEN n.amount ELSE 0)
  BY <1>1 DEF ShieldBound, TypeOK
<1>8. Solvent'
  <2> SUFFICES ASSUME NEW a \in Assets
               PROVE  balance'[a] >= deposited'[a] + feesOwed'[a]
    BY DEF Solvent, Backed
  <2>1. feesOwed'[a] = feesOwed[a]
    BY DEF ShieldBound
  <2>2. balance[a] >= deposited[a] + feesOwed[a]
    BY DEF Solvent, Backed
  <2>3. balance[a] \in Nat /\ deposited[a] \in Nat /\ feesOwed[a] \in Nat
    BY DEF TypeOK
  <2> QED BY <1>1, <1>5, <1>7, <2>1, <2>2, <2>3
<1> QED BY <1>2, <1>4, <1>6, <1>8

LEMMA TransferStep ==
  ASSUME IInv, NEW n \in commitmentSeen, NEW pay \in Note, NEW change \in Note,
         NEW r \in 0..Len(leaves), Transfer(n, pay, change, r)
  PROVE  TreeIsSeen' /\ FiniteUnits' /\ BackingIsExact' /\ Solvent'
<1> USE DEF IInv
<1>1. /\ n \in Note /\ n \in Unspent /\ Unspent \subseteq Note
      /\ commitmentSeen \subseteq Note /\ spent \subseteq commitmentSeen
      /\ pay \notin commitmentSeen /\ change \notin commitmentSeen /\ change # pay
  BY DEF Transfer, Unspent, TypeOK, TreeIsSeen
<1>2. /\ n.amount = pay.amount + change.amount
      /\ pay.asset = n.asset /\ change.asset = n.asset
      /\ n.amount \in Nat /\ pay.amount \in Nat /\ change.amount \in Nat
  BY <1>1, VaultAssumption DEF Transfer, TransferProof, Note
<1>3. TreeIsSeen'
  <2>1. spent' \subseteq commitmentSeen
    BY <1>1 DEF Transfer
  <2> QED BY <2>1, TreeAppendsTwo DEF Transfer
<1>4. Unspent' = ((Unspent \ {n}) \cup {pay}) \cup {change}
  BY <1>1 DEF Transfer, Unspent
<1>5. commitmentSeen' = (commitmentSeen \cup {pay}) \cup {change}
  BY DEF Transfer
<1>6. ASSUME NEW a \in Assets
      PROVE  /\ IsFiniteSet(Units(commitmentSeen', a))
             /\ Value(Unspent', a) = deposited[a]
  <2> DEFINE rest == Unspent \ {n}
  <2>1. IsFiniteSet(Units(commitmentSeen, a))
    BY DEF FiniteUnits
  <2>2. Units(Unspent, a) \subseteq Units(commitmentSeen, a)
    BY DEF Units, Unspent
  <2>3. IsFiniteSet(Units(Unspent, a))
    BY <2>1, <2>2, FS_Subset
  <2>4. /\ IsFiniteSet(Units(commitmentSeen \cup {pay}, a))
        /\ IsFiniteSet(Units((commitmentSeen \cup {pay}) \cup {change}, a))
    <3>1. IsFiniteSet(Units(commitmentSeen \cup {pay}, a))
      BY <1>1, <2>1, ValueAdds
    <3>2. commitmentSeen \cup {pay} \subseteq Note /\ change \notin commitmentSeen \cup {pay}
      BY <1>1
    <3> QED BY <3>1, <3>2, ValueAdds
  <2>5. /\ IsFiniteSet(Units(rest, a)) /\ Value(rest, a) \in Nat
        /\ Value(Unspent, a) = Value(rest, a) + (IF n.asset = a THEN n.amount ELSE 0)
    BY <1>1, <2>3, ValueRemoves
  <2>6. /\ rest \subseteq Note /\ pay \notin rest
        /\ rest \cup {pay} \subseteq Note /\ change \notin rest \cup {pay}
    BY <1>1 DEF Unspent
  <2> HIDE DEF rest
  <2>7. /\ IsFiniteSet(Units(rest \cup {pay}, a))
        /\ Value(rest \cup {pay}, a) =
             Value(rest, a) + (IF pay.asset = a THEN pay.amount ELSE 0)
    BY <2>5, <2>6, ValueAdds
  <2>8. Value((rest \cup {pay}) \cup {change}, a) =
          Value(rest \cup {pay}, a) + (IF change.asset = a THEN change.amount ELSE 0)
    BY <2>6, <2>7, ValueAdds
  <2>9. Value((rest \cup {pay}) \cup {change}, a) = Value(Unspent, a)
    BY <1>2, <2>5, <2>7, <2>8
  <2>10. Value(Unspent', a) = Value(Unspent, a)
    BY <1>4, <2>9 DEF rest
  <2> QED BY <1>5, <2>4, <2>10 DEF BackingIsExact
<1>7. FiniteUnits' /\ BackingIsExact'
  BY <1>6 DEF FiniteUnits, BackingIsExact, Transfer
<1>8. Solvent'
  BY DEF Transfer, Solvent, Backed
<1> QED BY <1>3, <1>7, <1>8

LEMMA UnshieldStep ==
  ASSUME IInv, NEW n \in commitmentSeen, NEW to \in Addresses,
         NEW r \in 0..Len(leaves), Unshield(n, to, r)
  PROVE  TreeIsSeen' /\ FiniteUnits' /\ BackingIsExact' /\ Solvent'
<1> USE DEF IInv
<1> DEFINE fee == WithdrawFee(n.amount, withdrawFeeBps, feeRecipient)
<1>1. /\ n \in Note /\ n \in Unspent /\ Unspent \subseteq Note
      /\ n.amount \in Nat /\ n.asset \in Assets
      /\ deposited[n.asset] >= n.amount
  BY VaultAssumption DEF Unshield, CanUnshield, Unspent, TypeOK, Note
<1>2. fee \in Nat /\ fee <= n.amount
  BY <1>1, FeeWithinAmount DEF TypeOK, RulesTypeOK
<1> HIDE DEF fee
<1>3. TreeIsSeen' /\ FiniteUnits'
  BY DEF Unshield, TreeIsSeen, FiniteUnits
<1>4. \A a \in Assets :
        deposited'[a] = IF n.asset = a THEN deposited[a] - n.amount
                                       ELSE deposited[a]
  BY <1>1 DEF Unshield, TypeOK
<1>5. BackingIsExact'
  <2> SUFFICES ASSUME NEW a \in Assets
               PROVE  deposited'[a] = Value(Unspent', a)
    BY DEF BackingIsExact
  <2>1. Units(Unspent, a) \subseteq Units(commitmentSeen, a)
    BY DEF Units, Unspent
  <2>2. IsFiniteSet(Units(Unspent, a))
    BY <2>1, FS_Subset DEF FiniteUnits
  <2>3. /\ Value(Unspent \ {n}, a) \in Nat
        /\ Value(Unspent, a) = Value(Unspent \ {n}, a)
                               + (IF n.asset = a THEN n.amount ELSE 0)
    BY <1>1, <2>2, ValueRemoves
  <2>4. Unspent' = Unspent \ {n}
    BY DEF Unshield, Unspent
  <2>5. Value(Unspent', a) = Value(Unspent \ {n}, a)
    BY <2>4
  <2>6. deposited[a] = Value(Unspent, a)
    BY DEF BackingIsExact
  <2> QED BY <1>1, <1>4, <2>3, <2>5, <2>6
<1>6. Solvent'
  <2> SUFFICES ASSUME NEW a \in Assets
               PROVE  balance'[a] >= deposited'[a] + feesOwed'[a]
    BY DEF Solvent, Backed
  <2>1. /\ balance[a] \in Nat /\ deposited[a] \in Nat /\ feesOwed[a] \in Nat
        /\ balance[a] >= deposited[a] + feesOwed[a]
    BY DEF TypeOK, Solvent, Backed
  <2>2. feesOwed'[a] = IF n.asset = a THEN feesOwed[a] + fee ELSE feesOwed[a]
    BY <1>1 DEF Unshield, TypeOK, fee
  <2>3. balance'[a] = IF n.asset = a /\ to # VAULT
                      THEN balance[a] - (n.amount - fee)
                      ELSE balance[a]
    BY <1>1 DEF Unshield, Pushed, TypeOK, fee
  <2>4. CASE n.asset = a
    BY <1>1, <1>2, <1>4, <2>1, <2>2, <2>3, <2>4
  <2>5. CASE n.asset # a
    BY <1>4, <2>1, <2>2, <2>3, <2>5
  <2> QED BY <2>4, <2>5
<1> QED BY <1>3, <1>5, <1>6

(* Steps that move no note: only the money beside the backing changes.     *)
LEMMA MoneyStep ==
  ASSUME IInv, UNCHANGED <<leaves, commitmentSeen, spent, deposited>>,
         \A a \in Assets : balance'[a] >= deposited[a] + feesOwed'[a]
  PROVE  TreeIsSeen' /\ FiniteUnits' /\ BackingIsExact' /\ Solvent'
<1>1. TreeIsSeen' /\ FiniteUnits'
  BY DEF IInv, TreeIsSeen, FiniteUnits
<1>2. BackingIsExact'
  BY DEF IInv, BackingIsExact, Unspent
<1>3. Solvent'
  BY DEF Solvent, Backed
<1> QED BY <1>1, <1>2, <1>3

LEMMA InvStep == IInv /\ [Next]_vars => IInv'
<1> SUFFICES ASSUME IInv, [Next]_vars
             PROVE  IInv'
  OBVIOUS
<1>0. TypeOK'
  BY TypeStep DEF IInv
<1> SUFFICES TreeIsSeen' /\ FiniteUnits' /\ BackingIsExact' /\ Solvent'
  BY <1>0 DEF IInv
<1>t. ASSUME NEW a \in Assets
      PROVE  /\ balance[a] \in Nat /\ deposited[a] \in Nat /\ feesOwed[a] \in Nat
             /\ balance[a] >= deposited[a] + feesOwed[a]
  BY DEF IInv, TypeOK, Solvent, Backed
<1>1. ASSUME NEW n \in Note, ShieldBound(n)
      PROVE  TreeIsSeen' /\ FiniteUnits' /\ BackingIsExact' /\ Solvent'
  BY <1>1, ShieldStep
<1>2. ASSUME NEW n \in commitmentSeen, NEW pay \in Note, NEW change \in Note,
             NEW r \in 0..Len(leaves), Transfer(n, pay, change, r)
      PROVE  TreeIsSeen' /\ FiniteUnits' /\ BackingIsExact' /\ Solvent'
  BY <1>2, TransferStep
<1>3. ASSUME NEW n \in commitmentSeen, NEW to \in Addresses,
             NEW r \in 0..Len(leaves), Unshield(n, to, r)
      PROVE  TreeIsSeen' /\ FiniteUnits' /\ BackingIsExact' /\ Solvent'
  BY <1>3, UnshieldStep
<1>4. ASSUME NEW b \in Assets, CollectFees(b)
      PROVE  TreeIsSeen' /\ FiniteUnits' /\ BackingIsExact' /\ Solvent'
  <2> SUFFICES ASSUME NEW a \in Assets
               PROVE  balance'[a] >= deposited[a] + feesOwed'[a]
    BY <1>4, MoneyStep DEF CollectFees
  <2>1. CASE a = b
    <3>1. /\ feesOwed'[a] = 0
          /\ balance'[a] = balance[a] \/ balance'[a] = balance[a] - feesOwed[a]
      BY <1>4, <2>1 DEF CollectFees, Pushed, IInv, TypeOK
    <3> QED BY <1>t, <3>1
  <2>2. CASE a # b
    <3>1. feesOwed'[a] = feesOwed[a] /\ balance'[a] = balance[a]
      BY <1>4, <2>2 DEF CollectFees, Pushed, IInv, TypeOK
    <3> QED BY <1>t, <3>1
  <2> QED BY <2>1, <2>2
<1>5. ASSUME NEW to \in Addresses, SweepStrayNative(to)
      PROVE  TreeIsSeen' /\ FiniteUnits' /\ BackingIsExact' /\ Solvent'
  <2> SUFFICES ASSUME NEW a \in Assets
               PROVE  balance'[a] >= deposited[a] + feesOwed'[a]
    BY <1>5, MoneyStep DEF SweepStrayNative
  <2>0. feesOwed' = feesOwed
    BY <1>5 DEF SweepStrayNative
  <2>1. CASE a = NATIVE
    <3>1. \/ balance'[a] = balance[a]
          \/ balance'[a] = balance[a] - (balance[a] - (deposited[a] + feesOwed[a]))
      BY <1>5, <2>1 DEF SweepStrayNative, Pushed, Backed, IInv, TypeOK
    <3> QED BY <1>t, <2>0, <3>1
  <2>2. CASE a # NATIVE
    <3>1. balance'[a] = balance[a]
      BY <1>5, <2>2 DEF SweepStrayNative, Pushed, IInv, TypeOK
    <3> QED BY <1>t, <2>0, <3>1
  <2> QED BY <2>1, <2>2
<1>6. ASSUME NEW b \in Assets, NEW x \in 1..MaxAmount, StrayArrives(b, x)
      PROVE  TreeIsSeen' /\ FiniteUnits' /\ BackingIsExact' /\ Solvent'
  <2> SUFFICES ASSUME NEW a \in Assets
               PROVE  balance'[a] >= deposited[a] + feesOwed'[a]
    BY <1>6, MoneyStep DEF StrayArrives
  <2>1. /\ feesOwed' = feesOwed
        /\ balance'[a] = IF a = b THEN balance[a] + x ELSE balance[a]
    BY <1>6 DEF StrayArrives, IInv, TypeOK
  <2>2. x \in Nat
    BY VaultAssumption
  <2> QED BY <1>t, <2>1, <2>2
<1>7. CASE RuleChange
  BY <1>7, <1>t, MoneyStep DEF RuleChange, ledgerVars
<1>8. CASE UNCHANGED vars
  BY <1>8, <1>t, MoneyStep DEF vars, ledgerVars
<1> QED BY <1>1, <1>2, <1>3, <1>4, <1>5, <1>6, <1>7, <1>8 DEF Next

(* The inductive invariant of the ledger holds throughout.                 *)
THEOREM InvHolds == Spec => []IInv
BY InitInv, InvStep, PTL DEF Spec

-----------------------------------------------------------------------------
(* No deposit, private send, cash out or rule change mints or burns value: *)
(* the pool's record of every asset is what its unspent notes are worth.   *)
THEOREM BackingStaysExact == Spec => []BackingIsExact
<1>1. IInv => BackingIsExact
  BY DEF IInv
<1> QED BY <1>1, InvHolds, PTL

(* The vault always holds what backs the notes plus the fees it owes.      *)
THEOREM StaysSolvent == Spec => []Solvent
<1>1. IInv => Solvent
  BY DEF IInv
<1> QED BY <1>1, InvHolds, PTL

(* Every unspent note can always be cashed out in full: a note is worth no *)
(* more than all of them, which is what the pool recorded and holds.       *)
THEOREM NotesStayRedeemable == Spec => []NoteRedeemable
<1>1. IInv => NoteRedeemable
  <2> SUFFICES ASSUME IInv, verifier # NoAddress, NEW n \in Unspent,
                      NEW r \in 0..Len(leaves), n.amount # 0,
                      r = Len(leaves) \/ InTree(n, r)
               PROVE  CanUnshield(n, VAULT, r) /\ balance[n.asset] >= n.amount
    BY DEF NoteRedeemable
  <2>1. n \in Note /\ n \in commitmentSeen /\ n \notin spent /\ Unspent \subseteq Note
    BY DEF Unspent, IInv, TypeOK
  <2>2. n.amount \in Nat /\ n.asset \in Assets
    BY <2>1, VaultAssumption DEF Note
  <2>3. InTree(n, r)
    BY <2>1 DEF InTree, IInv, TreeIsSeen
  <2>4. Units(Unspent, n.asset) \subseteq Units(commitmentSeen, n.asset)
    BY DEF Units, Unspent
  <2>5. IsFiniteSet(Units(Unspent, n.asset))
    BY <2>2, <2>4, FS_Subset DEF IInv, FiniteUnits
  <2>6. /\ Value(Unspent \ {n}, n.asset) \in Nat
        /\ Value(Unspent, n.asset) = Value(Unspent \ {n}, n.asset) + n.amount
    BY <2>1, <2>2, <2>5, ValueRemoves
  <2>7. deposited[n.asset] >= n.amount
    BY <2>2, <2>6 DEF IInv, BackingIsExact
  <2>8. balance[n.asset] >= n.amount
    BY <2>2, <2>7 DEF IInv, Solvent, Backed, TypeOK
  <2>9. VAULT # NoAddress
    BY VaultAssumption, RulesAssumption
  <2> QED BY <2>1, <2>3, <2>7, <2>8, <2>9 DEF CanUnshield, KnownRoot
<1> QED BY <1>1, InvHolds, PTL
=============================================================================
