---------------------------- MODULE MCEncoding ----------------------------
(* Small value domains of every encoded type: the four vote shapes, the   *)
(* widest and narrowest bitsets TLC can represent, empty, short and       *)
(* present/absent variable-length fields, and lists of up to two slots or *)
(* transactions.                                                           *)
EXTENDS Encoding, TLC

Typed(t, S) == {[type |-> t, val |-> v] : v \in S}

MCVotes == {[kind |-> "NoCandidate"], [kind |-> "NoQuorum"],
            [kind |-> "Valid", hash |-> "h1"], [kind |-> "Invalid", hash |-> "h1"]}

MCResults == [kind : {"Fail", "Success"}, vote : MCVotes]

MCStepVotes == [bitset : {0, 5, 65536, 2147483647}, sig : {"s1"}]

MCCertificates == [result : MCResults, validation : MCStepVotes,
                   ratification : MCStepVotes]

MCCert == [result |-> [kind |-> "Success", vote |-> [kind |-> "Valid", hash |-> "h1"]],
           validation |-> [bitset |-> 5, sig |-> "s1"],
           ratification |-> [bitset |-> 65536, sig |-> "s1"]]

MCSlots == {NoErr, [cert |-> MCCert, pk |-> "pk1"]}

MCTransactions == [version : {1}, type : {1, 256}, payload : {<< >>, <<7>>, <<0, 255>>}]

MCTx == [version |-> 1, type |-> 1, payload |-> <<7>>]

MCSpent == [inner : {MCTx}, height : {0, 300}, gas : {5}, eco : {"e1"},
            err : {NoErr, <<104>>, <<104, 105>>}]

MCBlocks == [header : [hashable : {"hh1"}, cert : {MCCert}, hash : {"h1"}],
             txs : BoundedSeq({MCTx, [MCTx EXCEPT !.payload = << >>]}, 2)]

MCInputs ==
  Typed("StepVotes", MCStepVotes) \cup Typed("RatificationResult", MCResults)
  \cup Typed("Certificate", MCCertificates)
  \cup Typed("IterationsInfo", BoundedSeq(MCSlots, 3))
  \cup Typed("Label", {"Accepted", "Attested", "Final"})
  \cup Typed("Transaction", MCTransactions) \cup Typed("Block", MCBlocks)

MCSpentInputs == Typed("SpentTransaction", MCSpent)


MCTrailer == <<Byte(7)>>

=============================================================================
