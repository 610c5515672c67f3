----------------------------- MODULE Consensus -----------------------------
(***************************************************************************)
(* One consensus step of a round, composed from its parts: the Acceptor    *)
(* queues each inbound consensus message for the running task              *)
(* (reroute_msg, the try_send on main_inbound), the task admits it with    *)
(* MsgHandler::is_valid against the RoundUpdate of the tip it was started  *)
(* on, and hands what it admits to the Accumulator (spec 3, data flow).    *)
(*                                                                         *)
(* The round's tip, iteration and step are constants: the task is         *)
(* restarted with a fresh RoundUpdate on every accepted block.            *)
(***************************************************************************)
EXTENDS Naturals, Sequences, FiniteSets, FiniteSetsExt, MsgHandler

CONSTANTS
  Workers, Signers, Hashes, EmptyHash, Payloads, Weight, Quorum, NoMsg,
  Tip,          \* the tip the consensus task was spawned on: [height, hash]
  Iteration,    \* the iteration being run
  Step,         \* the step being run
  Inbound,      \* the consensus messages the network may deliver
  Verified,     \* the messages whose signature verifies
  InboundCap,   \* capacity of main_inbound
  MaxArrivals   \* bound on the number of messages delivered


(* The RoundUpdate the task runs with, and the step's committee.          *)
ru == RoundUpdateNew(Tip)

Committee == {s \in Signers : Weight[s] > 0}

(* The agreement the Accumulator receives for an admitted message.        *)
Project(m) == [signer |-> m.signer, hash |-> m.hash, step |-> m.step,
               payload |-> m.payload]

Signed == {m \in Inbound : m.signer # NoSigner}

VARIABLES
  inbound,    \* main_inbound of the consensus task
  received,   \* the messages reroute_msg has been called with
  arrivals,   \* number of reroute_msg calls so far
  queue, pc, held, stores, emitted, submitted, nsub, dropped  \* Accumulator

accVars == <<queue, pc, held, stores, emitted, submitted, nsub, dropped>>

vars == <<inbound, received, arrivals, accVars>>

Acc == INSTANCE Accumulator
         WITH Agreements <- {Project(m) : m \in Signed},
              Invalid    <- {Project(m) : m \in Signed \ Verified},
              Steps      <- {m.step : m \in Inbound},
              MaxSubmit  <- MaxArrivals

ASSUME ConsensusAssumption ==
  /\ Verified \subseteq Inbound
  /\ Step \in DOMAIN StepOrder                   \* a StepName
  /\ \A m \in Inbound : m.step \in DOMAIN StepOrder
  /\ InboundCap \in Nat /\ MaxArrivals \in Nat
  /\ Acc!AccumulatorAssumption

TypeOK ==
  /\ inbound \in Seq(Inbound) /\ Len(inbound) <= InboundCap
  /\ received \subseteq Inbound
  /\ arrivals \in 0..MaxArrivals
  /\ Acc!TypeOK

Init ==
  /\ inbound = << >>
  /\ received = {}
  /\ arrivals = 0
  /\ Acc!Init

(* reroute_msg: queue the message when its round is in the window and     *)
(* main_inbound has room; otherwise it is not queued (try_send fails).    *)
RerouteMsg(m) ==
  /\ arrivals < MaxArrivals
  /\ arrivals' = arrivals + 1
  /\ received' = received \cup {m}
  /\ inbound' = IF EnableEnqueue(m, Tip.height) /\ Len(inbound) < InboundCap
                  THEN Append(inbound, m) ELSE inbound
  /\ UNCHANGED accVars

(* The task takes the next message and runs is_valid; an admitted message *)
(* goes to Accumulator::process, an error is logged and dropped.           *)
HandleMsg ==
  LET m == Head(inbound)
  IN /\ inbound # << >>
     /\ inbound' = Tail(inbound)
     /\ IF IsValid(m, ru, Iteration, Step, Committee, Verified) = "Ok"
          THEN Acc!Process(Project(m))
          ELSE UNCHANGED accVars
     /\ UNCHANGED <<received, arrivals>>

Worker(w) ==
  /\ Acc!WorkerStep(w)
  /\ UNCHANGED <<inbound, received, arrivals>>

(* The task is aborted: its Accumulator is dropped.                        *)
Abort ==
  /\ Acc!Drop
  /\ UNCHANGED <<inbound, received, arrivals>>

Next ==
  \/ \E m \in Inbound : RerouteMsg(m)
  \/ HandleMsg
  \/ \E w \in Workers : Worker(w)
  \/ Abort

Spec == Init /\ [][Next]_vars

(* The task's loop keeps taking messages from main_inbound, and tokio     *)
(* polls every worker that is ready.                                       *)
FairSpec ==
  /\ Spec
  /\ WF_vars(HandleMsg)
  /\ \A w \in Workers : WF_vars(Worker(w))

-----------------------------------------------------------------------------
(* The votes of the round: verified committee messages for the present    *)
(* round, iteration and step that build on the task's tip.                 *)
CurrentVotes(k) ==
  {m \in received \cap Verified :
     /\ m.signer \in Committee
     /\ <<m.round, m.iteration, m.step>> = <<ru.round, Iteration, Step>>
     /\ m.prev = Tip.hash
     /\ <<m.hash, m.step>> = k}

CurrentWeight(k) ==
  MapThenSumSet(LAMBDA s : Weight[s], {m.signer : m \in CurrentVotes(k)})

(* is_valid in front of accumulate(): CollectedVotes for a (hash, step)    *)
(* is only sent when distinct committee members voted for it in this      *)
(* round, iteration and step, on this tip, with quorum weight.  The       *)
(* Accumulator alone does not check rounds or prev_block_hash; a vote for *)
(* a fork, or of another round, that reached it would count.              *)
CollectedFromCurrentTip ==
  \A k \in Acc!Keys : emitted[k] > 0 => CurrentWeight(k) >= Quorum

(* is_valid in front of accumulate(), on the stores: every payload the    *)
(* Accumulator has stored under a (hash, step) was carried by a vote of   *)
(* the present round, iteration and step, on the task's tip, from a       *)
(* committee member, verified, for that hash and step.                    *)
StoredFromCurrentTip ==
  \A k \in Acc!Keys : \A p \in stores[k].set :
    \E m \in CurrentVotes(k) : m.payload = p

(* The Accumulator's properties, in the composed system.                   *)
CollectedBackedByQuorum == Acc!CollectedBackedByQuorum

QuorumEventuallyCollected == Acc!QuorumEventuallyCollected

=============================================================================
