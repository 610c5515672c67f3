---------------------------- MODULE MCConsensus ----------------------------
(* Consensus instantiated for TLC: a round started on tip t1 at height 1   *)
(* (so round 2), iteration 0, step Validation.  Provisioners a, b and c    *)
(* carry one credit each and d none; the quorum is two credits.  The       *)
(* network delivers two current votes for h, a vote built on another tip, *)
(* a vote of the tip's own round (inside reroute_msg's window, past for   *)
(* is_valid), a non-member's vote, a vote of the next round and a vote    *)
(* for the empty hash.                                                     *)
EXTENDS Consensus, TLC

CONSTANTS w1, w2, a, b, c, d, h, t1, tx, p1, p2, p3, p4, p5, p6, p7

MCWeight == (a :> 1) @@ (b :> 1) @@ (c :> 1) @@ (d :> 0)

MCTip == [height |-> 1, hash |-> t1]

Vote(sg, rd, prev, hs, p) ==
  [signer |-> sg, round |-> rd, iteration |-> 0, step |-> "Validation",
   prev |-> prev, hash |-> hs, payload |-> p]

MCInbound ==
  { Vote(a, 2, t1, h, p1), Vote(b, 2, tx, h, p2), Vote(c, 2, t1, h, p3),
    Vote(b, 1, t1, h, p4), Vote(d, 2, t1, h, p5), Vote(b, 3, t1, h, p6),
    Vote(a, 2, t1, EmptyHash, p7) }

=============================================================================
