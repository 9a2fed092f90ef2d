----------------------------- MODULE SpendBuild -----------------------------
(***************************************************************************)
(* From a proposed spend to its unsigned transaction: the checks a         *)
(* proposal passes before it is recorded, the builder, which sees the      *)
(* funding outputs as well, and the creation job, which decides which of   *)
(* the builder's errors are final.                                         *)
(***************************************************************************)
EXTENDS Integers, Sequences, Functions

CONSTANTS Outpoints,
          Addresses,     \* destinations a proposer may name
          Local,         \* those that are valid on the wallet's network
          DustOf,        \* dust bound of each address' script
          ChangeDust,    \* dust bound of a P2WSH script
          Change,        \* the address the wallet derives for the change
          MaxAmount,     \* the greatest amount a u64 holds
          MaxFee, MaxInputs, MaxOutputs,
          Specs,         \* bound: the spends that are proposed
          Chains,        \* bound: what the outpoints may hold
          None

\* What a u64 holds.
Amounts == 0..MaxAmount

\* A coin's script is the wallet's at the derivation index it comes with ("own"),
\* or it is not ("foreign"), or no key can be derived at that index ("underivable").
Coins == [value : Amounts, script : {"own", "foreign", "underivable"}]

\* SpendSpec: what a caller may propose; without a change output its change is None.
Spends == [inputs : Seq(Outpoints),
           outputs : Seq([address : Addresses, amount : Amounts]),
           fee : Amounts,
           change : [amount : Amounts, derivable : BOOLEAN] \cup {None}]

\* An unsigned transaction.
Outputs == [address : Addresses \cup {Change}, amount : Amounts]
Transactions == [inputs : Seq(Outpoints), outputs : Seq(Outputs)]

ASSUME AmountAssumption == /\ MaxAmount \in Nat /\ MaxFee \in 0..MaxAmount
                           /\ MaxInputs \in Nat /\ MaxOutputs \in Nat
                           /\ ChangeDust \in Nat /\ DustOf \in [Addresses -> Nat]
\* A proposer may name the change address as a destination: it is P2WSH there too.
ASSUME AddressAssumption == /\ Local \subseteq Addresses
                            /\ Change \in Addresses => DustOf[Change] = ChangeDust
ASSUME ChainAssumption == Chains \subseteq [Outpoints -> Coins \cup {None}]
ASSUME SpecAssumption == Specs \subseteq Spends
ASSUME NoneAssumption == /\ None \notin Amounts /\ None \notin Coins
                         /\ None \notin Specs /\ None \notin Transactions

VARIABLES coins,     \* what the outpoints hold on the chain, None if nothing
          known,     \* the outpoints whose coin the funding provider can tell
          spec,      \* the recorded spend, None before the proposal
          tx,        \* the unsigned transaction, None until it is built
          job        \* the row of the PSBT-creation job

vars == <<coins, known, spec, tx, job>>
-----------------------------------------------------------------------------
(* NewPsbtSession::try_new.                                                *)

ValidProposal(s) ==
    /\ Len(s.inputs) \in 1..MaxInputs
    /\ IsInjective(s.inputs)
    /\ Len(s.outputs) \in 1..MaxOutputs
    /\ \A i \in DOMAIN s.outputs : /\ s.outputs[i].address \in Local
                                   /\ s.outputs[i].amount >= DustOf[s.outputs[i].address]
    /\ s.change # None => s.change.amount >= ChangeDust
    /\ s.fee <= MaxFee
-----------------------------------------------------------------------------
(* build_unsigned_psbt.                                                    *)

\* Variant with a bug: the addition wraps around.
WrappingAdd(a, b) == (a + b) % (MaxAmount + 1)

\* checked_add; None is the overflow, which later additions keep.
CheckedAdd(a, b) == IF a # None /\ a + b <= MaxAmount THEN a + b ELSE None

\* The running total after n amounts.
Total(start, amounts, n) ==
    LET total[i \in 0..n] == IF i = 0 THEN start ELSE CheckedAdd(total[i - 1], amounts[i])
    IN  total[n]

Known(s, found) == {i \in DOMAIN s.inputs : s.inputs[i] \in DOMAIN found}

Brought(s, found) == [i \in DOMAIN s.inputs |-> IF i \in Known(s, found)
                                                THEN found[s.inputs[i]].value ELSE 0]
Paid(s) == [i \in DOMAIN s.outputs |-> s.outputs[i].amount]

TotalIn(s, found) == Total(0, Brought(s, found), Len(s.inputs))
TotalPaid(s) == Total(s.fee, Paid(s), Len(s.outputs))
TotalOut(s) == IF s.change = None THEN TotalPaid(s) ELSE CheckedAdd(TotalPaid(s), s.change.amount)

\* The errors of the builder's loops and of the steps between them, in the order
\* of the code; "ok" where there is none.
InputCheck(s, found, i) ==
    IF i \notin Known(s, found) THEN "MissingFunding"
    ELSE IF Total(0, Brought(s, found), i) = None THEN "AmountOverflow"
    ELSE IF found[s.inputs[i]].script = "underivable" THEN "NonDefiniteKey"
    ELSE "ok"

OutputCheck(s, i) ==
    IF s.outputs[i].address \notin Local THEN "InvalidAddress"
    ELSE IF Total(s.fee, Paid(s), i) = None THEN "AmountOverflow"
    ELSE "ok"

ChangeCheck(s) ==
    IF s.change # None /\ ~s.change.derivable THEN "NonDefiniteKey"
    ELSE IF TotalOut(s) = None THEN "AmountOverflow"
    ELSE "ok"

\* Variant with a bug: the change is left out of the balance.
BalanceWithoutChange(s, found) == IF TotalIn(s, found) = TotalPaid(s) THEN "ok" ELSE "AmountMismatch"

BalanceCheck(s, found) == IF TotalIn(s, found) = TotalOut(s) THEN "ok" ELSE "AmountMismatch"

\* update_input_with_descriptor refuses a coin of another script.
ScriptCheck(s, found, i) == IF found[s.inputs[i]].script = "own" THEN "ok" ELSE "UtxoUpdate"

First(checks) ==
    LET failed == {i \in DOMAIN checks : checks[i] # "ok"}
    IN  IF failed = {} THEN "ok" ELSE checks[CHOOSE i \in failed : \A j \in failed : i <= j]

\* The builder's answer: its first error, or "ok".
Build(s, found) ==
    LET inputs  == First([i \in DOMAIN s.inputs |-> InputCheck(s, found, i)])
        outputs == First([i \in DOMAIN s.outputs |-> OutputCheck(s, i)])
        scripts == First([i \in DOMAIN s.inputs |-> ScriptCheck(s, found, i)])
    IN  IF inputs # "ok" THEN inputs
        ELSE IF outputs # "ok" THEN outputs
        ELSE IF ChangeCheck(s) # "ok" THEN ChangeCheck(s)
        ELSE IF BalanceCheck(s, found) # "ok" THEN BalanceCheck(s, found)
        ELSE scripts

\* Variant with a bug: the change keeps the form it had in the proposal.
TransactionAsProposed(s) ==
    [inputs |-> s.inputs,
     outputs |-> s.outputs \o (IF s.change = None THEN <<>> ELSE <<s.change>>)]

\* The transaction of a spend that builds: the change comes last.
Transaction(s) ==
    [inputs |-> s.inputs,
     outputs |-> s.outputs \o (IF s.change = None THEN <<>>
                               ELSE <<[address |-> Change, amount |-> s.change.amount]>>)]
-----------------------------------------------------------------------------
Init == /\ coins \in Chains
        /\ known = {}
        /\ spec = None
        /\ tx = None
        /\ job = "none"

\* propose_spend: the recorded spend and its creation job.
Propose(s) == /\ spec = None
              /\ ValidProposal(s)
              /\ spec' = s
              /\ job' = "queued"
              /\ UNCHANGED <<coins, known, tx>>

\* The provider catches up with one funding transaction.
FundingArrives(o) == /\ o \notin known /\ coins[o] # None
                     /\ known' = known \cup {o}
                     /\ UNCHANGED <<coins, spec, tx, job>>

StartJob == /\ job = "queued"
            /\ job' = "running"
            /\ UNCHANGED <<coins, known, spec, tx>>

\* Variant with a bug: a missing coin is final too.
FinalWithMissing == {"InvalidAddress", "AmountMismatch", "MissingFunding"}

\* The errors that complete the job; the session stays Pending.
Final == {"InvalidAddress", "AmountMismatch"}

\* One execution: every other error puts the row back.
RunJob == LET found == [o \in known |-> coins[o]]
              answer == Build(spec, found)
          IN  /\ job = "running"
              /\ tx' = IF answer = "ok" THEN Transaction(spec) ELSE None
              /\ job' = IF answer \in Final \cup {"ok"} THEN "gone" ELSE "queued"
              /\ UNCHANGED <<coins, known, spec>>

Next == \/ \E s \in Specs : Propose(s)
        \/ \E o \in Outpoints : FundingArrives(o)
        \/ StartJob
        \/ RunJob

Spec == Init /\ [][Next]_vars

\* The provider learns of every coin there is, and the workers work.
FairSpec == /\ Spec
            /\ \A o \in Outpoints : WF_vars(FundingArrives(o))
            /\ WF_vars(StartJob)
            /\ WF_vars(RunJob)
-----------------------------------------------------------------------------
(* Properties.                                                             *)

TypeOK == /\ coins \in Chains
          /\ known \subseteq {o \in Outpoints : coins[o] # None}
          /\ spec \in Specs \cup {None}
          /\ tx \in Transactions \cup {None}
          /\ job \in {"none", "queued", "running", "gone"}

\* Sums without a width.
Sum(amounts) ==
    LET sum[i \in 0..Len(amounts)] == IF i = 0 THEN 0 ELSE sum[i - 1] + amounts[i]
    IN  sum[Len(amounts)]

Worth(inputs) == Sum([i \in DOMAIN inputs |-> coins[inputs[i]].value])
Spent(outputs) == Sum([i \in DOMAIN outputs |-> outputs[i].amount])

\* What a signer's device is shown is what happens: the unsigned transaction spends
\* coins of the wallet, each once, into standard outputs, and what it leaves to the
\* miner is the declared fee and no more than the cap, in exact arithmetic.
TransactionIsSound ==
    tx # None =>
      /\ IsInjective(tx.inputs)
      /\ \A i \in DOMAIN tx.inputs : coins[tx.inputs[i]].script = "own"
      /\ \A i \in DOMAIN tx.outputs :
            tx.outputs[i].amount >= IF tx.outputs[i].address = Change THEN ChangeDust
                                    ELSE DustOf[tx.outputs[i].address]
      /\ Worth(tx.inputs) - Spent(tx.outputs) = spec.fee
      /\ spec.fee <= MaxFee

\* Some chain of events makes the recorded spend buildable: its coins exist and are
\* the wallet's, its change can be derived, and it balances within the width.
Buildable ==
    /\ \A i \in DOMAIN spec.inputs : /\ coins[spec.inputs[i]] # None
                                     /\ coins[spec.inputs[i]].script = "own"
    /\ spec.change # None => spec.change.derivable
    /\ Worth(spec.inputs) = spec.fee + Spent(Transaction(spec).outputs)
    /\ Worth(spec.inputs) <= MaxAmount

\* A job that ends without a transaction has nothing left to wait for, although it
\* decides on what the provider knew at the time.
GivenUpIsHopeless == job = "gone" /\ tx = None => ~Buildable

\* A buildable spend is built, however late its funding is known.
BuildableGetsBuilt == (spec # None /\ Buildable) ~> tx # None
=============================================================================
