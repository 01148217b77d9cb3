--------------------------- MODULE MCSwapEscrow ---------------------------
(* Two swaps of one note (the second asked for again at another price, its *)
(* refund leaves nothing for a rise of the fee) and one of another note.   *)
EXTENDS SwapEscrow

CONSTANTS k1, k2, k3, n1, n2, usd, eth, p1, o1, o2, o3, r1, r2, r3

MCKey ==
  LET K(n, o, r, in, out, back, t) ==
        [nullifier |-> n, assetIn |-> in, amountIn |-> 2, outCommitment |-> o,
         assetOut |-> out, amountOut |-> 1, refundCommitment |-> r, refundAmount |-> back,
         pools |-> {p1}, deadline |-> t]
  IN [k \in Swaps |-> CASE k = k1 -> K(n1, o1, r1, usd, eth, 1, 2)
                        [] k = k2 -> K(n1, o2, r2, usd, eth, 2, 1)
                        [] k = k3 -> K(n2, o3, r3, eth, usd, 1, 1)]
=============================================================================
