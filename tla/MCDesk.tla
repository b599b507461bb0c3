-------------------------------- MODULE MCDesk --------------------------------
(* A small instance of Desk for TLC. *)
EXTENDS Desk

Clone(s, qty) == qty

\* A bracketed purchase and a bracketed limit sale.
Requests ==
  {[side |-> "buy", qty |-> 2, px |-> 0, stop |-> 4, take |-> 0],
   [side |-> "sell", qty |-> 2, px |-> 8, stop |-> 0, take |-> 4]}

Algos == {[side |-> "buy", total |-> 3, horizon |-> 2, algo |-> "twap"]}

Emitted == {[side |-> "sell", qty |-> 2, pair |-> TRUE]}

\* Bounds: threads are alike, and the least idle one takes a request; orders may be
\* under way together, other requests alone; a market order of a route fills in
\* whole or not at all; under a halt, the price stays.
Few ==
  /\ \A t, u \in Threads : t < u /\ route[u] = Idle /\ route'[u] # Idle => route[t] # Idle
  /\ \A t \in Threads : route'[t].op \in {"deleting", "starting", "unwinding"} =>
       \A u \in Threads \ {t} : route'[u] = Idle
  /\ \A t \in Threads : route[t].op = "ordering" /\ route'[t].op = "committing" =>
       route[t].order.px # 0 \/ route'[t].fills[Primary] = route[t].order.qty
  /\ halted => price' \in {price, StartPrice}
===============================================================================
