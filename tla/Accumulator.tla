---------------------------- MODULE Accumulator ----------------------------
(***************************************************************************)
(* The agreement Accumulator of the consensus crate                        *)
(* (src/consensus/src/agreement/accumulator.rs).                           *)
(*                                                                         *)
(* process() pushes agreement messages into an unbounded MPMC channel.     *)
(* A pool of worker tasks pops them, discards the empty block hash,        *)
(* verifies them, and accumulates them under the stores mutex keyed by     *)
(* (block hash, step).  The first worker whose accumulate() sees the        *)
(* cumulative weight reach the quorum sends a CollectedVotes message on     *)
(* output_chan and leaves its loop.  Dropping the Accumulator aborts every *)
(* worker.                                                                  *)
(*                                                                         *)
(* Abstractions: a message is a record of signer, block hash, step and     *)
(* payload; signature checking is the constant set Invalid of messages     *)
(* that verify_agreement rejects; votes_for is the constant Weight (0 for   *)
(* a non-member, which also stands for the None of votes_for); the quorum   *)
(* of the sortition config is the constant Quorum.  Each await between    *)
(* recv, verify, accumulate and send is a step of its own; accumulate()   *)
(* runs under the stores lock and is one step.                             *)
(***************************************************************************)
EXTENDS Naturals, Sequences, FiniteSets, FiniteSetsExt

CONSTANTS
    Workers,     \* the worker tasks spawned by spawn_workers_pool
    Signers,     \* BLS public keys of provisioners
    Hashes,      \* non-empty block hashes
    EmptyHash,   \* the all-zero block hash [0; 32]
    Steps,       \* step numbers
    Payloads,    \* agreement payloads (the dedup key of a store)
    Agreements,  \* the messages the consensus loop may hand to process()
    Invalid,     \* the messages verify_agreement rejects
    Weight,      \* votes_for: the committee weight of each signer
    Quorum,      \* guard.quorum(cfg)
    MaxSubmit,   \* bound on the number of process() calls
    NoMsg        \* a worker holding no message

MsgRecords == [signer : Signers, hash : Hashes \cup {EmptyHash},
               step : Steps, payload : Payloads]

Keys == Hashes \X Steps

(* What the constants must satisfy; assumed by the module that           *)
(* instantiates the Accumulator (Consensus).                              *)
AccumulatorAssumption ==
    /\ Workers # {}                         \* assert!(workers_amount > 0)
    /\ EmptyHash \notin Hashes
    /\ Agreements \subseteq MsgRecords
    /\ Invalid \subseteq Agreements
    /\ Weight \in [Signers -> Nat]
    /\ Quorum \in Nat \ {0}
    /\ MaxSubmit \in Nat
    /\ NoMsg \notin MsgRecords
    \* An Agreement is signed by its sender (spec 8, no-duplicate tally):
    \* of two agreements that verify, the same payload has the same signer.
    /\ \A m1, m2 \in Agreements \ Invalid :
         m1.payload = m2.payload => m1.signer = m2.signer

VARIABLES
    queue,      \* the async_channel between process() and the workers
    pc,         \* where each worker task is in its loop
    held,       \* the message a worker is processing
    stores,     \* StorePerHash: key -> (set of payloads, cumulative weight)
    emitted,    \* number of CollectedVotes sent on output_chan per key
    submitted,  \* the messages process() has been called with
    nsub,       \* number of process() calls so far
    dropped     \* the Accumulator has been dropped

vars == <<queue, pc, held, stores, emitted, submitted, nsub, dropped>>

PCs == {"recv", "verify", "accumulate", "send", "done"}

Key(m) == <<m.hash, m.step>>

TypeOK ==
    /\ queue \in Seq(Agreements)
    /\ pc \in [Workers -> PCs]
    /\ held \in [Workers -> {m \in Agreements : m.hash # EmptyHash} \cup {NoMsg}]
    /\ stores \in [Keys -> [set : SUBSET Payloads, weight : Nat]]
    /\ emitted \in [Keys -> Nat]
    /\ submitted \subseteq Agreements
    /\ nsub \in 0..MaxSubmit
    /\ dropped \in BOOLEAN

Init ==
    /\ queue = << >>
    /\ pc = [w \in Workers |-> "recv"]
    /\ held = [w \in Workers |-> NoMsg]
    /\ stores = [k \in Keys |-> [set |-> {}, weight |-> 0]]
    /\ emitted = [k \in Keys |-> 0]
    /\ submitted = {}
    /\ nsub = 0
    /\ dropped = FALSE

(* process(): queue a message.  The channel is unbounded and its receiver  *)
(* lives as long as the Accumulator, so the send never fails.              *)
Process(m) ==
    /\ ~dropped
    /\ nsub < MaxSubmit
    /\ queue' = Append(queue, m)
    /\ submitted' = submitted \cup {m}
    /\ nsub' = nsub + 1
    /\ UNCHANGED <<pc, held, stores, emitted, dropped>>

(* Mutant: the `continue` on an empty block hash is lost.                  *)
RecvNoDiscard(w) ==
    /\ pc[w] = "recv"
    /\ queue # << >>
    /\ queue' = Tail(queue)
    /\ pc' = [pc EXCEPT ![w] = "verify"]
    /\ held' = [held EXCEPT ![w] = Head(queue)]
    /\ UNCHANGED <<stores, emitted, submitted, nsub, dropped>>

(* rx.recv(): take the head of the channel; an empty block hash is         *)
(* discarded and the worker goes back to recv.                             *)
Recv(w) ==
    /\ pc[w] = "recv"
    /\ queue # << >>
    /\ queue' = Tail(queue)
    /\ IF Head(queue).hash = EmptyHash
          THEN UNCHANGED <<pc, held>>
          ELSE /\ pc' = [pc EXCEPT ![w] = "verify"]
               /\ held' = [held EXCEPT ![w] = Head(queue)]
    /\ UNCHANGED <<stores, emitted, submitted, nsub, dropped>>

(* Mutant: the result of verify_agreement is ignored.                      *)
VerifyIgnored(w) ==
    /\ pc[w] = "verify"
    /\ pc' = [pc EXCEPT ![w] = "accumulate"]
    /\ UNCHANGED <<queue, held, stores, emitted, submitted, nsub, dropped>>

(* verify_agreement(): a rejected message is logged and skipped.           *)
Verify(w) ==
    /\ pc[w] = "verify"
    /\ pc' = [pc EXCEPT ![w] = IF held[w] \in Invalid THEN "recv"
                                                      ELSE "accumulate"]
    /\ UNCHANGED <<queue, held, stores, emitted, submitted, nsub, dropped>>

(* The store entry after adding message m of weight wt.                    *)
Added(m, wt) ==
    [stores EXCEPT ![Key(m)] = [set |-> @.set \cup {m.payload},
                                weight |-> @.weight + wt]]

(* Mutant: the quorum test is strict (> instead of >=).                    *)
AccumulateStrict(w) ==
    LET m  == held[w]
        wt == Weight[m.signer]
    IN /\ pc[w] = "accumulate"
       /\ IF wt = 0 \/ m.payload \in stores[Key(m)].set
             THEN /\ pc' = [pc EXCEPT ![w] = "recv"]
                  /\ UNCHANGED stores
             ELSE /\ stores' = Added(m, wt)
                  /\ pc' = [pc EXCEPT ![w] =
                        IF stores'[Key(m)].weight > Quorum THEN "send"
                                                          ELSE "recv"]
       /\ UNCHANGED <<queue, held, emitted, submitted, nsub, dropped>>

(* Mutant: the duplicate check on the payload is lost.                   *)
AccumulateNoDedup(w) ==
    LET m  == held[w]
        wt == Weight[m.signer]
    IN /\ pc[w] = "accumulate"
       /\ IF wt = 0
             THEN /\ pc' = [pc EXCEPT ![w] = "recv"]
                  /\ UNCHANGED stores
             ELSE /\ stores' = Added(m, wt)
                  /\ pc' = [pc EXCEPT ![w] =
                        IF stores'[Key(m)].weight >= Quorum THEN "send"
                                                           ELSE "recv"]
       /\ UNCHANGED <<queue, held, emitted, submitted, nsub, dropped>>

(* accumulate(): a non-member (weight 0 or no entry) and a payload already *)
(* in the store give None; otherwise the payload is stored, the weight     *)
(* added, and Some(CollectedVotes) returned once it reaches the quorum.    *)
Accumulate(w) ==
    LET m  == held[w]
        wt == Weight[m.signer]
    IN /\ pc[w] = "accumulate"
       /\ IF wt = 0 \/ m.payload \in stores[Key(m)].set
             THEN /\ pc' = [pc EXCEPT ![w] = "recv"]
                  /\ UNCHANGED stores
             ELSE /\ stores' = Added(m, wt)
                  /\ pc' = [pc EXCEPT ![w] =
                        IF stores'[Key(m)].weight >= Quorum THEN "send"
                                                           ELSE "recv"]
       /\ UNCHANGED <<queue, held, emitted, submitted, nsub, dropped>>

(* output_chan.send(): the collected votes go out and the worker breaks    *)
(* out of its loop for good.                                               *)
Send(w) ==
    /\ pc[w] = "send"
    /\ emitted' = [emitted EXCEPT ![Key(held[w])] = @ + 1]
    /\ pc' = [pc EXCEPT ![w] = "done"]
    /\ UNCHANGED <<queue, held, stores, submitted, nsub, dropped>>

(* Drop: every worker is aborted wherever it is waiting.                   *)
Drop ==
    /\ ~dropped
    /\ dropped' = TRUE
    /\ pc' = [w \in Workers |-> "done"]
    /\ UNCHANGED <<queue, held, stores, emitted, submitted, nsub>>

WorkerStep(w) == Recv(w) \/ Verify(w) \/ Accumulate(w) \/ Send(w)

Next ==
    \/ \E m \in Agreements : Process(m)
    \/ \E w \in Workers : WorkerStep(w)
    \/ Drop

Spec == Init /\ [][Next]_vars

(* tokio polls every task that is ready, and the consensus step loop      *)
(* drains output_chan, so a worker that can make progress eventually does. *)
FairSpec == Spec /\ \A w \in Workers : WF_vars(WorkerStep(w))

-----------------------------------------------------------------------------
(* The weight of the distinct valid, committee-member messages submitted  *)
(* for key k, counting a payload once however many signers sent it.       *)
ValidFor(k) == {m \in submitted \ Invalid : Key(m) = k /\ Weight[m.signer] > 0}

PayloadWeight(k) ==
    MapThenSumSet(LAMBDA p : Weight[(CHOOSE m \in ValidFor(k) : m.payload = p).signer],
                  {m.payload : m \in ValidFor(k)})

(* The weight of the distinct signers of those messages.                  *)
SignerWeight(k) ==
    MapThenSumSet(LAMBDA s : Weight[s], {m.signer : m \in ValidFor(k)})

(* Safety of accumulate(): CollectedVotes for a (hash, step) is only sent  *)
(* when verified committee votes of distinct payloads for exactly that     *)
(* hash and step carry at least the quorum weight; a rejected, duplicate   *)
(* or non-member agreement never contributes.                              *)
CollectedBackedByQuorum ==
    \A k \in Keys : emitted[k] > 0 => PayloadWeight(k) >= Quorum

(* The consensus step expects a single CollectedVotes per (hash, step):   *)
(* once one worker has sent it, no other worker sends it again.            *)
AtMostOneCollected == \A k \in Keys : emitted[k] <= 1

(* Liveness of the pool: once valid votes of quorum weight for a key have *)
(* been handed to process(), CollectedVotes for it is eventually sent,    *)
(* unless the Accumulator is dropped first.                                *)
QuorumEventuallyCollected ==
    \A k \in Keys : (SignerWeight(k) >= Quorum) ~> (emitted[k] > 0 \/ dropped)

=============================================================================
