-------------------------- MODULE MCWithdrawStuck ---------------------------
(* A call of every kind next to a loop that withdraws what gets stuck.     *)
EXTENDS WithdrawStuck

Ask(kind, net, amts, natives) ==
  [NoRequest EXCEPT !.kind = kind, !.net = net, !.amts = amts,
                    !.rcpts = [i \in DOMAIN amts |-> "to"], !.natives = natives]

\* Also calls that are refused, and one whose coin is worth no more than the
\* fee of a loop.
AllRequests ==
  { Ask("withdraw", "evm", <<3, 3>>, <<>>),
    Ask("withdraw", "tron", <<1>>, <<>>),
    Ask("withdraw", "tron", <<0>>, <<>>),
    Ask("withdraw", "solana", <<2>>, <<>>),
    Ask("solana", "solana", <<4>>, <<>>),
    Ask("solana", "evm", <<2>>, <<>>),
    Ask("near", "evm", <<2>>, <<>>),
    Ask("near", "solana", <<2>>, <<>>),
    Ask("bridge", "evm", <<2>>, <<3>>),
    Ask("bridge", "tron", <<3>>, <<0>>) }
=============================================================================
