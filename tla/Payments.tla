------------------------------ MODULE Payments ------------------------------
(***************************************************************************)
(* What a deposit-and-send promises, whatever happens on the way: the      *)
(* money of a call leaves the wallet in one step; every coin then pays one *)
(* recipient exactly what was asked for, once, or goes back to the user;   *)
(* a call reports success only when the money is on its way.               *)
(***************************************************************************)
EXTENDS Integers, Sequences

CONSTANTS Calls

VARIABLES
  ask,     \* ask[c]: the amounts call c was asked to send, <<>> before
  stage,   \* stage[c][j]: where the coin made for payment j is
  got,     \* got[c][i]: what recipient i has received
  report   \* what the caller was told

vars == <<ask, stage, got, report>>

Init ==
  /\ ask = [c \in Calls |-> <<>>]
  /\ stage = [c \in Calls |-> <<>>]
  /\ got = [c \in Calls |-> <<>>]
  /\ report = [c \in Calls |-> "none"]

All(amts, v) == [i \in DOMAIN amts |-> v]

Ask(c, amts) ==
  /\ ask[c] = <<>> /\ report[c] = "none" /\ amts # <<>>
  /\ ask' = [ask EXCEPT ![c] = amts]
  /\ stage' = [stage EXCEPT ![c] = All(amts, "wallet")]
  /\ got' = [got EXCEPT ![c] = All(amts, 0)]
  /\ UNCHANGED report

Deposit(c) ==
  /\ ask[c] # <<>> /\ stage[c] = All(ask[c], "wallet")
  /\ stage' = [stage EXCEPT ![c] = All(ask[c], "pool")]
  /\ UNCHANGED <<ask, got, report>>

Pay(c, i, j) ==
  /\ stage[c][j] = "pool" /\ ask[c][i] = ask[c][j] /\ got[c][i] = 0
  /\ stage' = [stage EXCEPT ![c][j] = "paid"]
  /\ got' = [got EXCEPT ![c][i] = ask[c][i]]
  /\ UNCHANGED <<ask, report>>

Recover(coins) ==
  /\ coins # {}
  /\ \A x \in coins : stage[x[1]][x[2]] = "pool"
  /\ stage' = [c \in Calls |-> [j \in DOMAIN stage[c] |->
                 IF <<c, j>> \in coins THEN "recovered" ELSE stage[c][j]]]
  /\ UNCHANGED <<ask, got, report>>

Report(c, r) ==
  /\ report[c] = "none" /\ r \in {"done", "failed"}
  /\ r = "done" => /\ ask[c] # <<>>
                   /\ \A j \in DOMAIN ask[c] : stage[c][j] # "wallet"
  /\ report' = [report EXCEPT ![c] = r]
  /\ UNCHANGED <<ask, stage, got>>

\* The coins that are in the pool, as pairs.
InPool == UNION {{<<c, j>> : j \in {k \in DOMAIN stage[c] : stage[c][k] = "pool"}} : c \in Calls}

\* Requests and recovered coins are whatever the callers ask for and whichever
\* coins go back: they are read off the next state.
Next ==
  \/ \E c \in Calls : \/ Ask(c, ask'[c])
                      \/ Deposit(c)
                      \/ \E i, j \in DOMAIN ask[c] : Pay(c, i, j)
                      \/ \E r \in {"done", "failed"} : Report(c, r)
  \/ Recover({x \in InPool : stage'[x[1]][x[2]] = "recovered"})

Spec == Init /\ [][Next]_vars
=============================================================================
