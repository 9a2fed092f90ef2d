-------------------------- MODULE SpendBuildProofs --------------------------
(***************************************************************************)
(* Machine-checked proofs about SpendBuild, for amounts of every width and *)
(* spends of every size: an unsigned transaction balances in exact         *)
(* arithmetic and pays the declared fee, and a creation job gives up only  *)
(* spends nothing can make buildable.                                      *)
(*                                                                         *)
(* The sums are recursive functions.  What they compute is proved by       *)
(* induction over sets of numbers, which needs no operator as a parameter. *)
(***************************************************************************)
EXTENDS SpendBuild, TLAPS, WellFoundedInduction

-----------------------------------------------------------------------------
(* Induction.                                                              *)

\* A set of numbers that is not empty has a least element.
LEMMA LeastElement ==
  ASSUME NEW T \in SUBSET Nat, T # {}
  PROVE  \E x \in T : \A y \in T : x <= y
<1>1. PICK x \in T : \A y \in T : ~ (<<y, x>> \in OpToRel(<, Nat))
  BY WFMin, NatLessThanWellFounded
<1>2. ASSUME NEW y \in T
      PROVE  x <= y
  <2>1. ~ (<<y, x>> \in OpToRel(<, Nat))
    BY <1>1
  <2>2. ~ (y < x)
    BY <2>1 DEF OpToRel
  <2>3. QED
    BY <2>2
<1>3. QED
  BY <1>2

\* A set that holds 0 and, with a number, the next one holds all numbers.
LEMMA SetInduction ==
  ASSUME NEW T \in SUBSET Nat, 0 \in T, \A n \in T : n + 1 \in T
  PROVE  T = Nat
<1> SUFFICES ASSUME Nat \ T # {} PROVE FALSE
  OBVIOUS
<1>1. PICK x \in Nat \ T : \A y \in Nat \ T : x <= y
  BY LeastElement
<1>2. x # 0 /\ x - 1 \in Nat /\ x - 1 \notin Nat \ T
  BY <1>1
<1>3. QED
  BY <1>1, <1>2
-----------------------------------------------------------------------------
(* Sums.                                                                   *)

\* f sums the first n amounts, step by step.
Accumulates(f, amounts, n) == /\ f[0] = 0
                              /\ \A i \in 1..n : f[i] = f[i - 1] + amounts[i]

SumsUpTo(f, amounts, n) == f \in [0..n -> Nat] /\ Accumulates(f, amounts, n)

LEMMA SumsExist ==
  ASSUME NEW n \in Nat, NEW amounts, \A i \in 1..n : amounts[i] \in Nat
  PROVE  \E f : SumsUpTo(f, amounts, n)
<1> DEFINE T == {m \in Nat : m <= n => \E f : SumsUpTo(f, amounts, m)}
<1>1. 0 \in T
  <2>1. SumsUpTo([i \in 0..0 |-> 0], amounts, 0)
    BY DEF SumsUpTo, Accumulates
  <2>2. QED
    BY <2>1
<1>2. ASSUME NEW m \in T
      PROVE  m + 1 \in T
  <2> SUFFICES ASSUME m + 1 <= n PROVE \E f : SumsUpTo(f, amounts, m + 1)
    OBVIOUS
  <2>1. PICK f : SumsUpTo(f, amounts, m)
    OBVIOUS
  <2> DEFINE g == [i \in 0..(m + 1) |-> IF i <= m THEN f[i] ELSE f[m] + amounts[m + 1]]
  <2>2. m \in Nat /\ amounts[m + 1] \in Nat /\ f[m] \in Nat
    BY <2>1 DEF SumsUpTo, Accumulates
  <2>3. g \in [0..(m + 1) -> Nat]
    BY <2>1, <2>2 DEF SumsUpTo, Accumulates
  <2>4. g[0] = 0
    BY <2>1, <2>2 DEF SumsUpTo, Accumulates
  <2>5. \A i \in 1..(m + 1) : g[i] = g[i - 1] + amounts[i]
    <3> TAKE i \in 1..(m + 1)
    <3>1. CASE i <= m
      <4>1. g[i] = f[i] /\ g[i - 1] = f[i - 1] /\ f[i] = f[i - 1] + amounts[i]
        BY <2>1, <2>2, <3>1 DEF SumsUpTo, Accumulates
      <4>2. QED
        BY <4>1
    <3>2. CASE ~ (i <= m)
      <4>1. i = m + 1
        BY <2>2, <3>2
      <4>2. g[i] = f[m] + amounts[m + 1] /\ g[i - 1] = f[m]
        BY <2>2, <4>1
      <4>3. QED
        BY <4>1, <4>2
    <3>3. QED
      BY <3>1, <3>2
  <2>6. QED
    BY <2>3, <2>4, <2>5 DEF SumsUpTo, Accumulates
<1> HIDE DEF T
<1>3. T \in SUBSET Nat
  BY DEF T
<1>4. n \in T
  BY <1>1, <1>2, <1>3, SetInduction
<1>5. QED
  BY <1>4 DEF T

\* Sums over amounts that agree agree.
LEMMA SumsAreUnique ==
  ASSUME NEW n \in Nat, NEW a, NEW b, NEW f, NEW g,
         Accumulates(f, a, n), Accumulates(g, b, n), \A i \in 1..n : a[i] = b[i]
  PROVE  \A i \in 0..n : f[i] = g[i]
<1> DEFINE T == {m \in Nat : m <= n => f[m] = g[m]}
<1>1. 0 \in T
  BY DEF Accumulates
<1>2. ASSUME NEW m \in T
      PROVE  m + 1 \in T
  <2> SUFFICES ASSUME m + 1 <= n PROVE f[m + 1] = g[m + 1]
    OBVIOUS
  <2>1. m \in Nat /\ f[m] = g[m] /\ m + 1 \in 1..n /\ (m + 1) - 1 = m
    OBVIOUS
  <2>2. f[m + 1] = f[m] + a[m + 1] /\ g[m + 1] = g[m] + b[m + 1]
    BY <2>1 DEF Accumulates
  <2>3. QED
    BY <2>1, <2>2
<1> HIDE DEF T
<1>3. T = Nat
  BY <1>1, <1>2, SetInduction DEF T
<1>4. QED
  BY <1>3 DEF T

\* Sum is what the step-by-step sums end with.
LEMMA SumIsLast ==
  ASSUME NEW amounts \in Seq(Nat), NEW f, SumsUpTo(f, amounts, Len(amounts))
  PROVE  Sum(amounts) = f[Len(amounts)]
<1> DEFINE n == Len(amounts)
           Step(h) == [i \in 0..n |-> IF i = 0 THEN 0 ELSE h[i - 1] + amounts[i]]
           sum == CHOOSE h : h = Step(h)
<1>1. n \in Nat
  OBVIOUS
<1>2. f = Step(f)
  BY <1>1 DEF SumsUpTo, Accumulates
<1>3. sum = Step(sum)
  BY <1>2
<1>4. Sum(amounts) = sum[n]
  BY DEF Sum
<1> HIDE DEF sum
<1>5. Accumulates(sum, amounts, n)
  BY <1>1, <1>3 DEF Accumulates
<1>6. Accumulates(f, amounts, n) /\ \A i \in 1..n : amounts[i] = amounts[i]
  BY DEF SumsUpTo
<1> HIDE DEF n
<1>7. \A i \in 0..n : sum[i] = f[i]
  BY <1>1, <1>5, <1>6, SumsAreUnique
<1>8. QED
  BY <1>1, <1>4, <1>7 DEF n
\* Amounts that differ nowhere among the first n, and one more.
LEMMA SumOfAppend ==
  ASSUME NEW a \in Seq(Nat), NEW b \in Seq(Nat), Len(b) = Len(a) + 1,
         \A i \in 1..Len(a) : b[i] = a[i]
  PROVE  Sum(a) \in Nat /\ Sum(b) = Sum(a) + b[Len(b)]
<1> DEFINE n == Len(a)
<1>1. n \in Nat /\ n + 1 \in Nat /\ Len(b) = n + 1
  OBVIOUS
<1>2. (\A i \in 1..n : a[i] \in Nat) /\ (\A i \in 1..(n + 1) : b[i] \in Nat)
  OBVIOUS
<1>3. PICK f : SumsUpTo(f, a, n)
  BY <1>1, <1>2, SumsExist
<1>4. PICK g : SumsUpTo(g, b, n + 1)
  BY <1>1, <1>2, SumsExist
<1>5. Sum(a) = f[n] /\ f[n] \in Nat
  <2>1. Sum(a) = f[n]
    BY <1>3, SumIsLast
  <2>2. n \in 0..n
    BY <1>1
  <2>3. QED
    BY <1>3, <2>1, <2>2 DEF SumsUpTo
<1>6. Sum(b) = g[n + 1]
  BY <1>1, <1>4, SumIsLast
<1>7. g[n + 1] = g[n] + b[n + 1]
  BY <1>1, <1>4 DEF SumsUpTo, Accumulates
<1>8. Accumulates(g, b, n) /\ Accumulates(f, a, n)
  BY <1>1, <1>3, <1>4 DEF SumsUpTo, Accumulates
<1>9. \A i \in 1..n : b[i] = a[i]
  OBVIOUS
<1>10. g[n] = f[n]
  <2> HIDE DEF n
  <2>1. \A i \in 0..n : g[i] = f[i]
    BY <1>1, <1>8, <1>9, SumsAreUnique
  <2>2. QED
    BY <1>1, <2>1
<1>11. QED
  BY <1>1, <1>5, <1>6, <1>7, <1>10

\* The running total is the sum as long as it fits the width, and the overflow is
\* kept once it does not.
Capped(amount) == IF amount <= MaxAmount THEN amount ELSE None

LEMMA TotalIsCapped ==
  ASSUME NEW start \in Amounts, NEW amounts \in Seq(Nat)
  PROVE  /\ Sum(amounts) \in Nat
         /\ Total(start, amounts, Len(amounts)) = Capped(start + Sum(amounts))
<1> DEFINE n == Len(amounts)
           Step(h) == [i \in 0..n |-> IF i = 0 THEN start ELSE CheckedAdd(h[i - 1], amounts[i])]
           total == CHOOSE h : h = Step(h)
<1>1. n \in Nat /\ \A i \in 1..n : amounts[i] \in Nat
  OBVIOUS
<1>2. PICK f : SumsUpTo(f, amounts, n)
  BY <1>1, SumsExist
<1> DEFINE g == [i \in 0..n |-> Capped(start + f[i])]
<1>3. start \in Nat /\ start <= MaxAmount /\ MaxAmount \in Nat /\ None \notin 0..MaxAmount
  BY AmountAssumption, NoneAssumption DEF Amounts
<1>4. f[0] = 0 /\ \A i \in 0..n : f[i] \in Nat
  BY <1>2 DEF SumsUpTo, Accumulates
<1>5. g[0] = start
  BY <1>1, <1>3, <1>4 DEF Capped
<1>6. ASSUME NEW i \in 1..n
      PROVE  g[i] = CheckedAdd(g[i - 1], amounts[i])
  <2>1. i \in 0..n /\ i - 1 \in 0..n
    BY <1>1
  <2>2. f[i] = f[i - 1] + amounts[i] /\ f[i] \in Nat /\ f[i - 1] \in Nat /\ amounts[i] \in Nat
    BY <1>1, <1>2, <1>4, <2>1 DEF SumsUpTo, Accumulates
  <2>3. g[i] = Capped(start + f[i]) /\ g[i - 1] = Capped(start + f[i - 1])
    BY <2>1
  <2> HIDE DEF g
  <2>4. CASE start + f[i - 1] <= MaxAmount
    <3>1. g[i - 1] = start + f[i - 1] /\ g[i - 1] # None
      BY <1>3, <2>2, <2>3, <2>4, SMTT(20) DEF Capped
    <3>2. g[i - 1] + amounts[i] = start + f[i]
      BY <1>3, <2>2, <3>1
    <3>3. QED
      BY <2>3, <3>1, <3>2 DEF Capped, CheckedAdd
  <2>5. CASE ~ (start + f[i - 1] <= MaxAmount)
    <3>1. g[i - 1] = None /\ ~ (start + f[i] <= MaxAmount)
      BY <1>3, <2>2, <2>3, <2>5, SMTT(20) DEF Capped
    <3>2. QED
      BY <2>3, <3>1 DEF Capped, CheckedAdd
  <2>6. QED
    BY <2>4, <2>5
<1>7. g = Step(g)
  <2>1. \A i \in 0..n : g[i] = Step(g)[i]
    <3> TAKE i \in 0..n
    <3>1. CASE i = 0
      BY <1>5, <3>1
    <3>2. CASE i # 0
      <4>1. i \in 1..n
        BY <1>1, <3>2
      <4> HIDE DEF g
      <4>2. QED
        BY <1>6, <3>2, <4>1
    <3>3. QED
      BY <3>1, <3>2
  <2>2. QED
    BY <2>1
<1>8. total = Step(total)
  BY <1>7
<1>9. Total(start, amounts, n) = total[n]
  BY DEF Total
<1> HIDE DEF total
<1>10. total[n] = g[n]
  <2> DEFINE T == {m \in Nat : m <= n => total[m] = g[m]}
  <2> HIDE DEF g
  <2>1. total[0] = start /\ \A i \in 1..n : total[i] = CheckedAdd(total[i - 1], amounts[i])
    BY <1>1, <1>8
  <2>2. 0 \in T
    BY <1>5, <2>1
  <2>3. ASSUME NEW m \in T
        PROVE  m + 1 \in T
    <3> SUFFICES ASSUME m + 1 <= n PROVE total[m + 1] = g[m + 1]
      OBVIOUS
    <3>1. m \in Nat /\ total[m] = g[m] /\ m + 1 \in 1..n /\ (m + 1) - 1 = m
      BY <1>1
    <3>2. /\ total[m + 1] = CheckedAdd(total[m], amounts[m + 1])
          /\ g[m + 1] = CheckedAdd(g[m], amounts[m + 1])
      BY <1>6, <2>1, <3>1
    <3>3. QED
      BY <3>1, <3>2
  <2> HIDE DEF T
  <2>4. T = Nat
    BY <2>2, <2>3, SetInduction DEF T
  <2>5. QED
    BY <1>1, <2>4 DEF T
<1>11. g[n] = Capped(start + f[n])
  BY <1>1
<1>12. Sum(amounts) = f[n] /\ f[n] \in Nat
  BY <1>1, <1>2, <1>4, SumIsLast
<1>13. QED
  BY <1>9, <1>10, <1>11, <1>12
-----------------------------------------------------------------------------
(* Spends.                                                                 *)

\* The fields of a spend.
LEMMA SpendTypes ==
  ASSUME NEW s \in Spends
  PROVE  /\ s.inputs \in Seq(Outpoints) /\ Len(s.inputs) \in Nat
         /\ DOMAIN s.inputs = 1..Len(s.inputs)
         /\ \A i \in 1..Len(s.inputs) : s.inputs[i] \in Outpoints
         /\ Len(s.outputs) \in Nat /\ DOMAIN s.outputs = 1..Len(s.outputs)
         /\ \A i \in 1..Len(s.outputs) : /\ s.outputs[i].address \in Addresses
                                         /\ s.outputs[i].amount \in Amounts
         /\ s.fee \in Amounts
         /\ s.change # None => s.change.amount \in Amounts
<1> DEFINE Payments == [address : Addresses, amount : Amounts]
<1>1. /\ s.inputs \in Seq(Outpoints) /\ s.outputs \in Seq(Payments) /\ s.fee \in Amounts
      /\ s.change \in [amount : Amounts, derivable : BOOLEAN] \cup {None}
  BY DEF Spends
<1>2. \A i \in 1..Len(s.outputs) : s.outputs[i] \in Payments
  <2> HIDE DEF Payments
  <2>1. QED
    BY <1>1
<1>3. \A i \in 1..Len(s.outputs) : /\ s.outputs[i].address \in Addresses
                                   /\ s.outputs[i].amount \in Amounts
  BY <1>2
<1>4. Len(s.outputs) \in Nat /\ DOMAIN s.outputs = 1..Len(s.outputs)
  <2> HIDE DEF Payments
  <2>1. QED
    BY <1>1
<1>5. QED
  BY <1>1, <1>3, <1>4

\* The outputs of the transaction: those of the spend, and the change.
LEMMA TransactionOutputs ==
  ASSUME NEW s \in Spends
  PROVE  /\ Transaction(s).inputs = s.inputs
         /\ Transaction(s).outputs \in Seq(Outputs)
         /\ \A i \in 1..Len(s.outputs) : Transaction(s).outputs[i] = s.outputs[i]
         /\ s.change = None => Len(Transaction(s).outputs) = Len(s.outputs)
         /\ s.change # None =>
               /\ Len(Transaction(s).outputs) = Len(s.outputs) + 1
               /\ Transaction(s).outputs[Len(s.outputs) + 1]
                    = [address |-> Change, amount |-> s.change.amount]
<1> DEFINE change == [address |-> Change, amount |-> s.change.amount]
<1>1. s.outputs \in Seq(Outputs)
  <2>1. s.outputs \in Seq([address : Addresses, amount : Amounts])
    BY DEF Spends
  <2>2. [address : Addresses, amount : Amounts] \subseteq Outputs
    BY DEF Outputs
  <2> DEFINE Payments == [address : Addresses, amount : Amounts]
  <2> HIDE DEF Payments
  <2>3. s.outputs \in Seq(Payments) /\ Payments \subseteq Outputs
    BY <2>1, <2>2 DEF Payments
  <2>4. QED
    BY <2>3
<1>2. Transaction(s).inputs = s.inputs
  BY DEF Transaction
<1>3. CASE s.change = None
  <2>1. Transaction(s).outputs = s.outputs \o <<>>
    BY <1>3 DEF Transaction
  <2>2. Transaction(s).outputs = s.outputs
    BY <1>1, <2>1
  <2>3. QED
    BY <1>1, <1>2, <1>3, <2>2
<1>4. CASE s.change # None
  <2>1. change \in Outputs
    BY <1>4, SpendTypes DEF Outputs
  <2>2. Transaction(s).outputs = s.outputs \o <<change>>
    BY <1>4 DEF Transaction
  <2> HIDE DEF change
  <2>3. /\ Transaction(s).outputs \in Seq(Outputs)
        /\ \A i \in 1..Len(s.outputs) : Transaction(s).outputs[i] = s.outputs[i]
        /\ Len(Transaction(s).outputs) = Len(s.outputs) + 1
        /\ Transaction(s).outputs[Len(s.outputs) + 1] = change
    BY <1>1, <2>1, <2>2
  <2>4. QED
    BY <1>2, <1>4, <2>3 DEF change
<1>5. QED
  BY <1>3, <1>4

\* What the builder adds up for the outputs is what the transaction spends, or an
\* overflow.
LEMMA TotalOutIsSpent ==
  ASSUME NEW s \in Spends
  PROVE  /\ Spent(Transaction(s).outputs) \in Nat
         /\ TotalOut(s) = Capped(s.fee + Spent(Transaction(s).outputs))
<1> DEFINE a == Paid(s)
           outs == Transaction(s).outputs
           b == [i \in DOMAIN outs |-> outs[i].amount]
           n == Len(s.outputs)
<1>1. MaxAmount \in Nat /\ None \notin 0..MaxAmount
  BY AmountAssumption, NoneAssumption DEF Amounts
<1>2. n \in Nat /\ a \in Seq(Nat) /\ Len(a) = n
  <2>1. n \in Nat /\ a \in [1..n -> Nat]
    BY <1>1, SpendTypes DEF Paid, Amounts
  <2>2. QED
    BY <2>1
<1>3. \A i \in 1..n : a[i] = s.outputs[i].amount
  BY SpendTypes DEF Paid
<1>4. outs \in Seq(Outputs) /\ \A i \in 1..n : outs[i] = s.outputs[i]
  BY TransactionOutputs
<1>5. b \in Seq(Nat) /\ Len(b) = Len(outs)
  <2>1. \A i \in 1..Len(outs) : outs[i] \in Outputs
    BY <1>4
  <2>2. \A i \in 1..Len(outs) : outs[i].amount \in Nat
    BY <1>1, <2>1 DEF Outputs, Amounts
  <2>3. Len(outs) \in Nat /\ DOMAIN outs = 1..Len(outs)
    BY <1>4
  <2>4. b \in [1..Len(outs) -> Nat]
    BY <2>2, <2>3
  <2>5. QED
    BY <2>3, <2>4
<1>6. Spent(outs) = Sum(b)
  BY DEF Spent
<1>7. \A i \in 1..Len(outs) : b[i] = outs[i].amount
  BY <1>4
<1>8. s.fee \in Amounts
  BY SpendTypes
<1>9. Sum(a) \in Nat /\ TotalPaid(s) = Capped(s.fee + Sum(a))
  BY <1>2, <1>8, TotalIsCapped DEF TotalPaid
<1> HIDE DEF a, b, outs
<1>10. CASE s.change = None
  <2>1. Len(b) = n
    BY <1>5, <1>10, TransactionOutputs DEF outs
  <2>2. \A i \in 1..n : b[i] = a[i]
    BY <1>3, <1>4, <1>5, <1>7, <2>1
  <2>3. a = b
    <3> HIDE DEF n
    <3>1. QED
      BY <1>2, <1>5, <2>1, <2>2
  <2>4. TotalOut(s) = TotalPaid(s)
    BY <1>10 DEF TotalOut
  <2>5. QED
    BY <1>6, <1>9, <2>3, <2>4 DEF outs
<1>11. CASE s.change # None
  <2>1. Len(b) = n + 1 /\ outs[n + 1].amount = s.change.amount
    <3>1. /\ Len(outs) = n + 1
          /\ outs[n + 1] = [address |-> Change, amount |-> s.change.amount]
      BY <1>11, TransactionOutputs DEF outs
    <3>2. QED
      BY <1>5, <3>1
  <2>2. \A i \in 1..n : b[i] = a[i]
    <3> HIDE DEF n
    <3>1. \A i \in 1..n : i \in 1..Len(outs)
      BY <1>2, <1>5, <2>1
    <3>2. QED
      BY <1>3, <1>4, <1>7, <3>1
  <2>3. Sum(b) = Sum(a) + b[n + 1]
    BY <1>2, <1>5, <2>1, <2>2, SumOfAppend
  <2>4. b[n + 1] = s.change.amount
    BY <1>2, <1>5, <1>7, <2>1
  <2>5. s.change.amount \in Nat
    BY <1>1, <1>11, SpendTypes DEF Amounts
  <2>6. TotalOut(s) = CheckedAdd(TotalPaid(s), s.change.amount)
    BY <1>11 DEF TotalOut
  <2>7. s.fee \in Nat
    BY <1>1, <1>8 DEF Amounts
  <2>8. CheckedAdd(Capped(s.fee + Sum(a)), s.change.amount)
          = Capped(s.fee + (Sum(a) + s.change.amount))
    <3>1. CASE s.fee + Sum(a) <= MaxAmount
      <4>1. Capped(s.fee + Sum(a)) = s.fee + Sum(a) /\ s.fee + Sum(a) # None
        BY <1>1, <1>9, <2>7, <3>1 DEF Capped
      <4>2. (s.fee + Sum(a)) + s.change.amount = s.fee + (Sum(a) + s.change.amount)
        BY <1>9, <2>5, <2>7
      <4>3. QED
        BY <4>1, <4>2 DEF Capped, CheckedAdd
    <3>2. CASE ~ (s.fee + Sum(a) <= MaxAmount)
      <4>1. ~ (s.fee + (Sum(a) + s.change.amount) <= MaxAmount)
        BY <1>1, <1>9, <2>5, <2>7, <3>2
      <4>2. QED
        BY <3>2, <4>1 DEF Capped, CheckedAdd
    <3>3. QED
      BY <3>1, <3>2
  <2>9. Spent(outs) = Sum(a) + s.change.amount
    BY <1>6, <2>3, <2>4
  <2>10. QED
    BY <1>9, <2>5, <2>6, <2>8, <2>9 DEF outs
<1>12. QED
  BY <1>10, <1>11

\* The funding provider knows every coin a spend names, and found holds them.
Funded(s, found) == \A i \in DOMAIN s.inputs : /\ s.inputs[i] \in DOMAIN found
                                               /\ found[s.inputs[i]] = coins[s.inputs[i]]
                                               /\ coins[s.inputs[i]] \in Coins

\* What the builder adds up for the inputs is what they are worth, or an overflow.
LEMMA TotalInIsWorth ==
  ASSUME NEW s \in Spends, NEW found, Funded(s, found)
  PROVE  /\ Worth(s.inputs) \in Nat
         /\ TotalIn(s, found) = Capped(Worth(s.inputs))
<1> DEFINE n == Len(s.inputs)
           a == [i \in DOMAIN s.inputs |-> coins[s.inputs[i]].value]
<1>1. MaxAmount \in Nat
  BY AmountAssumption
<1>2. n \in Nat /\ DOMAIN s.inputs = 1..n
  BY SpendTypes
<1>3. \A i \in 1..n : coins[s.inputs[i]].value \in Nat
  BY <1>1, <1>2 DEF Funded, Coins, Amounts
<1>4. a \in Seq(Nat) /\ Len(a) = n
  <2>1. a \in [1..n -> Nat]
    BY <1>2, <1>3
  <2>2. QED
    BY <1>2, <2>1
<1>5. Brought(s, found) = a
  <2>1. \A i \in DOMAIN s.inputs : i \in Known(s, found) /\ found[s.inputs[i]] = coins[s.inputs[i]]
    BY DEF Known, Funded
  <2>2. QED
    BY <2>1 DEF Brought
<1>6. 0 \in Amounts
  BY <1>1 DEF Amounts
<1>7. Sum(a) \in Nat /\ Total(0, a, n) = Capped(0 + Sum(a))
  <2> HIDE DEF a, n
  <2>1. QED
    BY <1>4, <1>6, TotalIsCapped
<1>8. Worth(s.inputs) = Sum(a)
  BY DEF Worth
<1>9. TotalIn(s, found) = Total(0, a, n)
  BY <1>5 DEF TotalIn
<1> HIDE DEF a, n
<1>10. 0 + Sum(a) = Sum(a)
  BY <1>7
<1>11. QED
  BY <1>7, <1>8, <1>9, <1>10
-----------------------------------------------------------------------------
(* The builder's answer.                                                   *)

\* The first error of a loop is one of its errors, and "ok" if it has none.
LEMMA FirstError ==
  ASSUME NEW n \in Nat, NEW checks, DOMAIN checks = 1..n
  PROVE  /\ First(checks) = "ok" => \A i \in 1..n : checks[i] = "ok"
         /\ First(checks) # "ok" => \E i \in 1..n : First(checks) = checks[i]
<1> DEFINE failed == {i \in DOMAIN checks : checks[i] # "ok"}
           least == CHOOSE i \in failed : \A j \in failed : i <= j
<1>1. First(checks) = IF failed = {} THEN "ok" ELSE checks[least]
  BY DEF First
<1>2. CASE failed = {}
  BY <1>1, <1>2
<1>3. CASE failed # {}
  <2>1. failed \in SUBSET Nat
    OBVIOUS
  <2>2. \E i \in failed : \A j \in failed : i <= j
    <3> HIDE DEF failed
    <3>1. QED
      BY <1>3, <2>1, LeastElement
  <2>3. least \in failed
    BY <2>2
  <2> HIDE DEF least
  <2>4. checks[least] # "ok" /\ least \in 1..n
    BY <2>3
  <2>5. QED
    BY <1>1, <1>3, <2>4
<1>4. QED
  BY <1>2, <1>3

\* The answers of the loops.
InputAnswer(s, found)  == First([i \in DOMAIN s.inputs |-> InputCheck(s, found, i)])
OutputAnswer(s)        == First([i \in DOMAIN s.outputs |-> OutputCheck(s, i)])
ScriptAnswer(s, found) == First([i \in DOMAIN s.inputs |-> ScriptCheck(s, found, i)])

\* No error of the input loop, of the change or of the scripts is final, and a
\* destination that passed the proposal is valid.
LEMMA LoopAnswers ==
  ASSUME NEW s \in Spends, NEW found
  PROVE  /\ InputAnswer(s, found) \notin Final
         /\ InputAnswer(s, found) = "ok" =>
               \A i \in DOMAIN s.inputs : InputCheck(s, found, i) = "ok"
         /\ ValidProposal(s) => OutputAnswer(s) \notin Final
         /\ ScriptAnswer(s, found) \notin Final
         /\ ScriptAnswer(s, found) = "ok" =>
               \A i \in DOMAIN s.inputs : ScriptCheck(s, found, i) = "ok"
<1> DEFINE ins  == [i \in DOMAIN s.inputs |-> InputCheck(s, found, i)]
           outs == [i \in DOMAIN s.outputs |-> OutputCheck(s, i)]
           scrs == [i \in DOMAIN s.inputs |-> ScriptCheck(s, found, i)]
<1>1. /\ Len(s.inputs) \in Nat /\ DOMAIN s.inputs = 1..Len(s.inputs)
      /\ Len(s.outputs) \in Nat /\ DOMAIN s.outputs = 1..Len(s.outputs)
  BY SpendTypes
<1>2. /\ First(ins) = "ok" => \A i \in DOMAIN s.inputs : ins[i] = "ok"
      /\ First(ins) # "ok" => \E i \in DOMAIN s.inputs : First(ins) = ins[i]
  <2>1. DOMAIN ins = 1..Len(s.inputs)
    BY <1>1
  <2> HIDE DEF ins
  <2>2. QED
    BY <1>1, <2>1, FirstError
<1>3. /\ First(outs) # "ok" => \E i \in DOMAIN s.outputs : First(outs) = outs[i]
  <2>1. DOMAIN outs = 1..Len(s.outputs)
    BY <1>1
  <2> HIDE DEF outs
  <2>2. QED
    BY <1>1, <2>1, FirstError
<1>4. /\ First(scrs) = "ok" => \A i \in DOMAIN s.inputs : scrs[i] = "ok"
      /\ First(scrs) # "ok" => \E i \in DOMAIN s.inputs : First(scrs) = scrs[i]
  <2>1. DOMAIN scrs = 1..Len(s.inputs)
    BY <1>1
  <2> HIDE DEF scrs
  <2>2. QED
    BY <1>1, <2>1, FirstError
<1>5. \A i \in DOMAIN s.inputs : ins[i] = InputCheck(s, found, i) /\ ins[i] \notin Final
  BY DEF InputCheck, Final
<1>6. \A i \in DOMAIN s.inputs : scrs[i] = ScriptCheck(s, found, i) /\ scrs[i] \notin Final
  BY DEF ScriptCheck, Final
<1>7. ASSUME ValidProposal(s)
      PROVE  \A i \in DOMAIN s.outputs : outs[i] \notin Final
  <2> TAKE i \in DOMAIN s.outputs
  <2>1. s.outputs[i].address \in Local
    BY <1>7 DEF ValidProposal
  <2>2. OutputCheck(s, i) \notin Final
    BY <2>1 DEF OutputCheck, Final
  <2>3. QED
    BY <2>2
<1>8. InputAnswer(s, found) = First(ins) /\ OutputAnswer(s) = First(outs)
      /\ ScriptAnswer(s, found) = First(scrs)
  BY DEF InputAnswer, OutputAnswer, ScriptAnswer
<1>9. "ok" \notin Final
  BY DEF Final
<1> HIDE DEF ins, outs, scrs
<1>10. QED
  BY <1>2, <1>3, <1>4, <1>5, <1>6, <1>7, <1>8, <1>9

\* The funding provider tells coins as they are on the chain.
Found == [o \in known |-> coins[o]]

\* An answer that is final, or "ok", was reached with every coin known, and says
\* whether the spend balances within the width.
LEMMA BuildAnswers ==
  ASSUME NEW s \in Spends, ValidProposal(s), known \subseteq {o \in Outpoints : coins[o] # None},
         coins \in Chains, Build(s, Found) \in Final \cup {"ok"}
  PROVE  /\ Funded(s, Found)
         /\ Build(s, Found) = "ok" =>
               /\ Worth(s.inputs) = s.fee + Spent(Transaction(s).outputs)
               /\ \A i \in DOMAIN s.inputs : coins[s.inputs[i]].script = "own"
         /\ Build(s, Found) # "ok" =>
               ~ /\ Worth(s.inputs) = s.fee + Spent(Transaction(s).outputs)
                 /\ Worth(s.inputs) <= MaxAmount
<1> DEFINE answer == Build(s, Found)
<1>1. answer = IF InputAnswer(s, Found) # "ok" THEN InputAnswer(s, Found)
               ELSE IF OutputAnswer(s) # "ok" THEN OutputAnswer(s)
               ELSE IF ChangeCheck(s) # "ok" THEN ChangeCheck(s)
               ELSE IF BalanceCheck(s, Found) # "ok" THEN BalanceCheck(s, Found)
               ELSE ScriptAnswer(s, Found)
  BY DEF Build, InputAnswer, OutputAnswer, ScriptAnswer
<1> HIDE DEF answer
<1>2. answer \in Final \cup {"ok"}
  BY DEF answer
<1>3. ChangeCheck(s) \notin Final
  BY DEF ChangeCheck, Final
<1>4. /\ InputAnswer(s, Found) = "ok" /\ ChangeCheck(s) = "ok"
      /\ answer = "ok" => BalanceCheck(s, Found) = "ok" /\ ScriptAnswer(s, Found) = "ok"
      /\ answer # "ok" => BalanceCheck(s, Found) # "ok"
  BY <1>1, <1>2, <1>3, LoopAnswers
<1>5. \A i \in DOMAIN s.inputs : InputCheck(s, Found, i) = "ok"
  BY <1>4, LoopAnswers
<1>6. Funded(s, Found)
  <2> SUFFICES ASSUME NEW i \in DOMAIN s.inputs
               PROVE  /\ s.inputs[i] \in DOMAIN Found
                      /\ Found[s.inputs[i]] = coins[s.inputs[i]]
                      /\ coins[s.inputs[i]] \in Coins
    BY DEF Funded
  <2>1. i \in Known(s, Found)
    BY <1>5 DEF InputCheck
  <2>2. s.inputs[i] \in known
    BY <2>1 DEF Known, Found
  <2>3. coins[s.inputs[i]] \in Coins
    BY <2>2, ChainAssumption
  <2>4. QED
    BY <2>2, <2>3 DEF Found
<1>7. /\ Worth(s.inputs) \in Nat /\ TotalIn(s, Found) = Capped(Worth(s.inputs))
  BY <1>6, TotalInIsWorth
<1>8. /\ Spent(Transaction(s).outputs) \in Nat
      /\ TotalOut(s) = Capped(s.fee + Spent(Transaction(s).outputs))
  BY TotalOutIsSpent
<1>9. /\ MaxAmount \in Nat /\ None \notin 0..MaxAmount /\ s.fee \in Nat
  BY AmountAssumption, NoneAssumption, SpendTypes DEF Amounts
<1>10. TotalOut(s) # None
  BY <1>4 DEF ChangeCheck
<1>11. TotalIn(s, Found) # None
  <2>1. Len(s.inputs) \in DOMAIN s.inputs
    BY SpendTypes DEF ValidProposal
  <2>2. Total(0, Brought(s, Found), Len(s.inputs)) # None
    BY <1>5, <2>1 DEF InputCheck
  <2>3. QED
    BY <2>2 DEF TotalIn
<1>12. /\ TotalIn(s, Found) = Worth(s.inputs)
       /\ TotalOut(s) = s.fee + Spent(Transaction(s).outputs)
  BY <1>7, <1>8, <1>10, <1>11 DEF Capped
<1>13. BalanceCheck(s, Found) = "ok"
          <=> Worth(s.inputs) = s.fee + Spent(Transaction(s).outputs)
  BY <1>12 DEF BalanceCheck
<1>14. ASSUME answer = "ok"
       PROVE  \A i \in DOMAIN s.inputs : coins[s.inputs[i]].script = "own"
  <2> TAKE i \in DOMAIN s.inputs
  <2>1. ScriptCheck(s, Found, i) = "ok"
    BY <1>4, <1>14, LoopAnswers
  <2>2. Found[s.inputs[i]].script = "own"
    BY <2>1 DEF ScriptCheck
  <2>3. QED
    BY <1>6, <2>2 DEF Funded
<1>15. QED
  BY <1>4, <1>6, <1>13, <1>14 DEF answer
-----------------------------------------------------------------------------
(* The inductive invariant.                                                *)

StateTypes == /\ coins \in Chains
              /\ known \subseteq {o \in Outpoints : coins[o] # None}
              /\ job \in {"none", "queued", "running", "gone"}

\* The recorded spend passed the proposal's checks, and has had its job.
SpecSound == /\ spec # None => spec \in Specs /\ ValidProposal(spec)
             /\ spec = None <=> job = "none"

Balanced == Worth(spec.inputs) = spec.fee + Spent(Transaction(spec).outputs)

\* What was built is the recorded spend's transaction, in balance, of own coins.
BuiltSound == tx # None =>
                 /\ job = "gone" /\ tx = Transaction(spec)
                 /\ Balanced
                 /\ \A i \in DOMAIN spec.inputs : coins[spec.inputs[i]].script = "own"

IInv == StateTypes /\ SpecSound /\ BuiltSound /\ GivenUpIsHopeless

LEMMA InitIsSound == Init => IInv
<1> SUFFICES ASSUME Init PROVE IInv
  OBVIOUS
<1>1. StateTypes /\ SpecSound /\ BuiltSound
  BY DEF Init, StateTypes, SpecSound, BuiltSound
<1>2. GivenUpIsHopeless
  BY DEF Init, GivenUpIsHopeless
<1>3. QED
  BY <1>1, <1>2 DEF IInv

LEMMA ProposeKeeps ==
  ASSUME IInv, NEW s \in Specs, Propose(s)
  PROVE  IInv'
<1>1. /\ ValidProposal(s) /\ spec = None /\ spec' = s /\ spec' # None
      /\ job' = "queued" /\ UNCHANGED <<coins, known, tx>>
  BY NoneAssumption DEF Propose
<1>2. tx' = None
  BY <1>1 DEF IInv, SpecSound, BuiltSound
<1>3. StateTypes'
  BY <1>1 DEF IInv, StateTypes
<1>4. SpecSound'
  BY <1>1 DEF SpecSound
<1>5. BuiltSound'
  BY <1>2 DEF BuiltSound
<1>6. GivenUpIsHopeless'
  BY <1>1 DEF GivenUpIsHopeless
<1>7. QED
  BY <1>3, <1>4, <1>5, <1>6 DEF IInv

\* What the provider learns and the start of an execution decide nothing.
LEMMA WaitingKeeps ==
  ASSUME IInv, \/ \E o \in Outpoints : FundingArrives(o)
               \/ StartJob
               \/ UNCHANGED vars
  PROVE  IInv'
<1>1. UNCHANGED <<coins, spec, tx>>
  BY DEF FundingArrives, StartJob, vars
<1>2. \/ job' = job
      \/ job = "queued" /\ job' = "running"
  BY DEF FundingArrives, StartJob, vars
<1>3. StateTypes'
  <2>1. known' \subseteq {o \in Outpoints : coins[o] # None}
    BY DEF IInv, StateTypes, FundingArrives, StartJob, vars
  <2>2. QED
    BY <1>1, <1>2, <2>1 DEF IInv, StateTypes
<1>4. SpecSound'
  BY <1>1, <1>2 DEF IInv, SpecSound
<1>5. Worth(spec.inputs)' = Worth(spec.inputs) /\ Transaction(spec)' = Transaction(spec)
  BY <1>1 DEF Worth
<1>6. BuiltSound'
  BY <1>1, <1>2, <1>5 DEF IInv, BuiltSound, Balanced
<1>7. GivenUpIsHopeless'
  BY <1>1, <1>2, <1>5 DEF IInv, GivenUpIsHopeless, Buildable
<1>8. QED
  BY <1>3, <1>4, <1>6, <1>7 DEF IInv

LEMMA RunJobKeeps ==
  ASSUME IInv, RunJob
  PROVE  IInv'
<1> DEFINE answer == Build(spec, Found)
<1>1. /\ job = "running" /\ UNCHANGED <<coins, known, spec>>
      /\ tx' = IF answer = "ok" THEN Transaction(spec) ELSE None
      /\ job' = IF answer \in Final \cup {"ok"} THEN "gone" ELSE "queued"
  BY DEF RunJob, Found
<1>2. spec \in Specs /\ spec \in Spends /\ ValidProposal(spec)
  BY <1>1, SpecAssumption DEF IInv, SpecSound
<1>3. answer \in Final \cup {"ok"} =>
        /\ answer = "ok" =>
             /\ Balanced
             /\ \A i \in DOMAIN spec.inputs : coins[spec.inputs[i]].script = "own"
        /\ answer # "ok" => ~ (Balanced /\ Worth(spec.inputs) <= MaxAmount)
  BY <1>2, BuildAnswers DEF IInv, StateTypes, Balanced
<1> HIDE DEF answer
<1>4. StateTypes'
  BY <1>1 DEF IInv, StateTypes
<1>5. SpecSound'
  BY <1>1 DEF IInv, SpecSound
<1>6. Worth(spec.inputs)' = Worth(spec.inputs) /\ Transaction(spec)' = Transaction(spec)
  BY <1>1 DEF Worth
<1>7. Balanced' <=> Balanced
  BY <1>1, <1>6 DEF Balanced
<1>8. BuiltSound'
  <2> SUFFICES ASSUME tx' # None
               PROVE  /\ job' = "gone" /\ tx' = Transaction(spec)' /\ Balanced'
                      /\ \A i \in DOMAIN spec'.inputs : coins'[spec'.inputs[i]].script = "own"
    BY DEF BuiltSound
  <2>1. answer = "ok"
    BY <1>1
  <2>2. QED
    BY <1>1, <1>3, <1>6, <1>7, <2>1
<1>9. GivenUpIsHopeless'
  <2> SUFFICES ASSUME job' = "gone", tx' = None
               PROVE  ~ Buildable'
    BY DEF GivenUpIsHopeless
  <2>1. Transaction(spec) # None
    <3>1. Transaction(spec) \in Transactions
      <4>1. /\ Transaction(spec).inputs \in Seq(Outpoints)
            /\ Transaction(spec).outputs \in Seq(Outputs)
        BY <1>2, TransactionOutputs, SpendTypes
      <4>2. QED
        BY <4>1 DEF Transaction, Transactions
    <3>2. QED
      BY <3>1, NoneAssumption
  <2>2. answer # "ok" /\ answer \in Final
    BY <1>1, <2>1
  <2>3. ~ (Balanced /\ Worth(spec.inputs) <= MaxAmount)
    BY <1>3, <2>2
  <2>4. Buildable' => Balanced' /\ Worth(spec.inputs)' <= MaxAmount
    BY DEF Buildable, Balanced
  <2>5. QED
    BY <1>6, <1>7, <2>3, <2>4
<1>10. QED
  BY <1>4, <1>5, <1>8, <1>9 DEF IInv

LEMMA StepsKeepSoundness == IInv /\ [Next]_vars => IInv'
  BY ProposeKeeps, WaitingKeeps, RunJobKeeps DEF Next
-----------------------------------------------------------------------------
(* The theorems.                                                           *)

\* What is built is a transaction over the outpoints, with destinations and amounts of
\* the width; coins, spend and job keep their types.
THEOREM TypeCorrect == Spec => []TypeOK
<1>1. IInv => TypeOK
  <2> SUFFICES ASSUME IInv PROVE TypeOK
    OBVIOUS
  <2>1. spec \in Specs \cup {None}
    BY DEF IInv, SpecSound
  <2>2. ASSUME tx # None
        PROVE  tx \in Transactions
    <3>1. spec \in Spends /\ tx = Transaction(spec)
      BY <2>2, SpecAssumption DEF IInv, BuiltSound, SpecSound
    <3>2. /\ Transaction(spec).inputs \in Seq(Outpoints)
          /\ Transaction(spec).outputs \in Seq(Outputs)
      BY <3>1, TransactionOutputs, SpendTypes
    <3>3. QED
      BY <3>1, <3>2 DEF Transaction, Transactions
  <2>3. QED
    BY <2>1, <2>2 DEF IInv, StateTypes, TypeOK
<1>2. QED
  BY <1>1, InitIsSound, StepsKeepSoundness, PTL DEF Spec

\* The transaction build_unsigned_psbt hands to the signers spends own coins, each
\* once, into standard outputs, and leaves the declared, capped fee to the miner:
\* none of its checked additions and comparisons is off, whatever the amounts.
THEOREM TransactionsAreSound == Spec => []TransactionIsSound
<1>1. IInv => TransactionIsSound
  <2> SUFFICES ASSUME IInv, tx # None
               PROVE  /\ IsInjective(tx.inputs)
                      /\ \A i \in DOMAIN tx.inputs : coins[tx.inputs[i]].script = "own"
                      /\ \A i \in DOMAIN tx.outputs :
                            tx.outputs[i].amount >=
                               IF tx.outputs[i].address = Change THEN ChangeDust
                               ELSE DustOf[tx.outputs[i].address]
                      /\ Worth(tx.inputs) - Spent(tx.outputs) = spec.fee
                      /\ spec.fee <= MaxFee
    BY DEF TransactionIsSound
  <2>1. /\ spec \in Spends /\ ValidProposal(spec) /\ tx = Transaction(spec) /\ Balanced
        /\ \A i \in DOMAIN spec.inputs : coins[spec.inputs[i]].script = "own"
    BY SpecAssumption DEF IInv, BuiltSound, SpecSound
  <2>2. tx.inputs = spec.inputs
    BY <2>1, TransactionOutputs
  <2>3. IsInjective(tx.inputs) /\ spec.fee <= MaxFee
    BY <2>1, <2>2 DEF ValidProposal
  <2>4. ASSUME NEW i \in DOMAIN tx.outputs
        PROVE  tx.outputs[i].amount >= IF tx.outputs[i].address = Change THEN ChangeDust
                                       ELSE DustOf[tx.outputs[i].address]
    <3>1. Len(spec.outputs) \in Nat /\ DOMAIN spec.outputs = 1..Len(spec.outputs)
      BY <2>1, SpendTypes
    <3>2. DOMAIN tx.outputs = 1..Len(tx.outputs)
      BY <2>1, TransactionOutputs
    <3>3. CASE i \in 1..Len(spec.outputs)
      <4>1. tx.outputs[i] = spec.outputs[i]
        BY <2>1, <3>3, TransactionOutputs
      <4>2. spec.outputs[i].address \in Addresses
        BY <2>1, <3>3, SpendTypes
      <4>3. spec.outputs[i].address = Change => DustOf[spec.outputs[i].address] = ChangeDust
        BY <4>2, AddressAssumption
      <4>4. spec.outputs[i].amount >= DustOf[spec.outputs[i].address]
        BY <2>1, <3>1, <3>3 DEF ValidProposal
      <4>5. QED
        BY <4>1, <4>3, <4>4
    <3>4. CASE i \notin 1..Len(spec.outputs)
      <4>1. spec.change # None /\ i = Len(spec.outputs) + 1
        <5>1. /\ spec.change = None => Len(tx.outputs) = Len(spec.outputs)
              /\ spec.change # None => Len(tx.outputs) = Len(spec.outputs) + 1
          BY <2>1, TransactionOutputs
        <5>2. i \in 1..Len(tx.outputs)
          BY <2>4, <3>2
        <5>3. QED
          BY <3>1, <3>4, <5>1, <5>2
      <4>2. tx.outputs[i] = [address |-> Change, amount |-> spec.change.amount]
        BY <2>1, <4>1, TransactionOutputs
      <4>3. spec.change.amount >= ChangeDust
        BY <2>1, <4>1 DEF ValidProposal
      <4>4. QED
        BY <4>2, <4>3
    <3>5. QED
      BY <3>3, <3>4
  <2>5. Worth(tx.inputs) - Spent(tx.outputs) = spec.fee
    <3>1. spec.fee \in Nat /\ Spent(tx.outputs) \in Nat
      BY <2>1, TotalOutIsSpent, SpendTypes, AmountAssumption DEF Amounts
    <3>2. Worth(tx.inputs) = spec.fee + Spent(tx.outputs)
      BY <2>1, <2>2 DEF Balanced
    <3>3. QED
      BY <3>1, <3>2
  <2>6. QED
    BY <2>1, <2>2, <2>3, <2>4, <2>5
<1>2. QED
  BY <1>1, InitIsSound, StepsKeepSoundness, PTL DEF Spec

\* A creation job that ended without a transaction ended for good: the errors the job
\* runner takes for final say that no coin still to come makes the spend buildable.
THEOREM GivenUpHopeless == Spec => []GivenUpIsHopeless
<1>1. IInv => GivenUpIsHopeless
  BY DEF IInv
<1>2. QED
  BY <1>1, InitIsSound, StepsKeepSoundness, PTL DEF Spec
=============================================================================
