---------------------------- MODULE MCSpendBuild ----------------------------
(* A small instance of SpendBuild: amounts of three bits, spends that are   *)
(* refused, that balance, that do not, and that overflow at each addition.  *)
EXTENDS SpendBuild, TLC

CONSTANTS o1, o2, o3, small, large, foreign

MCOutpoints == {o1, o2, o3}
MCAddresses == {small, large, foreign}
MCLocal == {small, large}
MCDustOf == small :> 1 @@ large :> 2 @@ foreign :> 1

Payments == {[address |-> small, amount |-> 0], [address |-> small, amount |-> 3],
             [address |-> small, amount |-> 7], [address |-> large, amount |-> 1],
             [address |-> large, amount |-> 2], [address |-> foreign, amount |-> 3]}

Changes == [amount : {0, 1, 4}, derivable : {TRUE}]
           \cup [amount : {1}, derivable : {FALSE}] \cup {None}

MCSpecs ==
    [inputs : {<<>>, <<o1>>, <<o1, o2>>, <<o1, o1>>, <<o1, o2, o3>>},
     outputs : UNION {[1..n -> Payments] : n \in 0..3},
     fee : 0..3, change : Changes]

MCCoins == [value : {3, 4, 7}, script : {"own"}]
           \cup [value : {7}, script : {"foreign", "underivable"}] \cup {None}

\* A coin nobody created, and two that share a supply which fits the width.
Value(coin) == IF coin = None THEN 0 ELSE coin.value
MCChains == {c \in [Outpoints -> MCCoins] :
                c[o3] = None /\ Value(c[o1]) + Value(c[o2]) <= MaxAmount}
=============================================================================
