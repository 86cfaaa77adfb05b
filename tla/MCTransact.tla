----------------------------- MODULE MCTransact -----------------------------
(* Two calls over a client with many UTXOs in a token, or with few, on an   *)
(* EVM chain, and over one on Solana.                                       *)
EXTENDS SolanaTransact, TLC

Utxo(owner, token, amt) == [owner |-> owner, token |-> token, amt |-> amt]

Ask(kind, toks, chs, feeTok) ==
  [NoRequest EXCEPT !.kind = kind, !.toks = toks, !.chs = chs, !.feeTok = feeTok]

Claim(j) == [NoRequest EXCEPT !.kind = "claim", !.toks = <<"A">>, !.feeTok = "A",
                              !.source = <<1, <<1, j>>>>]

\* More than six inputs in A, so that the six largest (9) are not all (11).
Many ==
  [net      |-> "evm",
   utxos    |-> << Utxo("user", "A", 1), Utxo("user", "A", 2), Utxo("user", "B", 3),
                   Utxo("user", "A", 1), Utxo("user", "A", 3), Utxo("user", "A", 1),
                   Utxo("user", "A", 1), Utxo("user", "A", 1), Utxo("user", "A", 1) >>,
   requests |-> { Ask("withdraw", <<"A">>, << -8 >>, "B"),
                  Ask("withdraw", <<"A">>, << -10 >>, "A"),
                  Ask("transfer", <<"A">>, << -2 >>, "A"),
                  Ask("swap", <<"A", "B">>, << -2, 1 >>, "B") },
   quotes   |-> [flat : {1, 2}, rate : {0}, cross : {1}]]

\* Two inputs at most in a token.
Few ==
  [net      |-> "evm",
   utxos    |-> << Utxo("user", "A", 2), Utxo("user", "A", 3), Utxo("user", "B", 2),
                   Utxo("claimable", "A", 4) >>,
   requests |-> { Ask("withdraw", <<"A", "B">>, << -2, -1 >>, "A"),
                  Ask("withdrawDirect", <<"B">>, << -2 >>, "none"),
                  Ask("withdraw", <<"A">>, <<>>, "A"),
                  Ask("transfer", <<"A">>, << -3 >>, "B"),
                  Ask("deposit", <<"A", "B">>, <<1, 1>>, "none"),
                  Ask("depositForOther", <<"A">>, <<2>>, "none"),
                  Claim(4), Claim(1) },
   quotes   |-> {[flat |-> 1, rate |-> 0, cross |-> 1], [flat |-> 0, rate |-> 5, cross |-> 0]}]

OnSolana ==
  [net      |-> "solana",
   utxos    |-> << Utxo("user", "A", 3), Utxo("user", "A", 2), Utxo("user", "A", 1),
                   Utxo("claimable", "A", 4) >>,
   requests |-> { Ask("withdraw", <<"A">>, << -4 >>, "A"),
                  Ask("withdraw", <<"A", "B">>, << -1, -1 >>, "A"),
                  Ask("transfer", <<"A">>, << -2 >>, "A"),
                  Ask("swap", <<"A", "B">>, << -2, 10 >>, "B"),
                  Claim(4) },
   quotes   |-> [flat : {1, 8}, rate : {2}, cross : {0}]]

AllClients == {Many, Few, OnSolana}

Symmetry == Permutations(Calls)
=============================================================================
