------------------------- MODULE MCProoflessDeposit -------------------------
(* Two deposits of one wallet with a native token and two others.          *)
EXTENDS ProoflessDeposit, TLC

Balances(n, a, b) == [t \in Tokens |-> CASE t = "nat" -> n [] t = "A" -> a [] OTHER -> b]

Few == Balances(6, 7, 6)

SomeAllowance == { Balances(0, 0, 0), Balances(0, 1, 0), Balances(0, 7, 1) }

AllChains == [net : {"evm", "tron"}, wrapper : BOOLEAN] \union {[net |-> "solana", wrapper |-> FALSE]}

Plain(toks, amts) == [NoRequest EXCEPT !.toks = toks, !.amts = amts]
WithFee(tok, amts, fee) ==
  [NoRequest EXCEPT !.entry = "fee", !.toks = [i \in DOMAIN amts |-> tok], !.amts = amts,
                    !.keys = [i \in DOMAIN amts |-> i], !.feeTok = tok, !.fee = fee]

\* HinkalSolanaDeposit and HinkalSolanaDepositForOther.
Direct(entry, tok, amt, keys) ==
  [NoRequest EXCEPT !.entry = entry, !.toks = <<tok>>, !.amts = <<amt>>, !.keys = keys]

\* Also requests that are refused, and amounts beyond a word of 8.
AllRequests ==
  { Plain(<<"A", "nat", "A">>, <<2, 1, 3>>), Plain(<<"nat">>, <<9>>), Plain(<<"nat">>, <<6>>),
    Plain(<<"A", "B">>, <<3, 0>>), Plain(<<"B", "B">>, <<3, 8>>), Plain(<<"B">>, <<>>),
    [Plain(<<"B", "B">>, <<3, 2>>) EXCEPT !.keys = <<1, 1>>],
    [Plain(<<"B">>, <<3>>) EXCEPT !.dataOnly = TRUE],
    WithFee("A", <<1, 3>>, 2), WithFee("nat", <<2>>, 1), WithFee("B", <<1>>, 8),
    WithFee("A", <<>>, 2),
    Direct("own", "A", 2, <<>>), Direct("own", "nat", 0, <<>>), Direct("other", "A", 9, <<7>>),
    Direct("other", "A", 3, <<>>), [Direct("other", "B", 3, <<7>>) EXCEPT !.dataOnly = TRUE] }

Symmetry == Permutations(Calls)
=============================================================================
