---------------------------- MODULE MCAccumulator ----------------------------
(* Accumulator instantiated for TLC.  Four provisioners a, b, c, d: a, b  *)
(* and c carry one credit each, d is not in the committee; the quorum is   *)
(* two credits.  The agreements cover every path of a worker: valid votes, *)
(* a vote that fails verification, a non-member vote, an empty hash.      *)
EXTENDS Accumulator, TLC

CONSTANTS w1, w2, a, b, c, d, h, s1, s2, p1, p2, p3, p4, p5

MCWeight == (a :> 1) @@ (b :> 1) @@ (c :> 1) @@ (d :> 0)

Msg(sg, hs, st, p) == [signer |-> sg, hash |-> hs, step |-> st, payload |-> p]

(* One step: a and b vote for h, c's vote does not verify, d is not a     *)
(* member, and a also sends an agreement for the empty hash.              *)
MCAgreements ==
    { Msg(a, h, s1, p1), Msg(b, h, s1, p2), Msg(c, h, s1, p3),
      Msg(d, h, s1, p4), Msg(a, EmptyHash, s1, p5) }

MCInvalid == { Msg(c, h, s1, p3) }

(* Three valid members vote for h: the quorum is reached twice over.      *)
MCAgreementsAllValid ==
    { Msg(a, h, s1, p1), Msg(b, h, s1, p2), Msg(c, h, s1, p3) }

(* Two steps, each with enough valid votes to reach the quorum.           *)
MCAgreementsTwoSteps ==
    { Msg(a, h, s1, p1), Msg(b, h, s1, p2),
      Msg(a, h, s2, p3), Msg(b, h, s2, p4) }

=============================================================================
