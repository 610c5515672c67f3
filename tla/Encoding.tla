------------------------------ MODULE Encoding ------------------------------
(***************************************************************************)
(* The wire encoding of ledger and consensus types                        *)
(* (src/node-data/src/encoding.rs): each Serializable::write emits a byte  *)
(* stream and each read consumes one.                                      *)
(*                                                                         *)
(* A stream is a sequence of bytes (0..255).  Integers are written little- *)
(* endian at their width.  A fixed-size array whose content no property   *)
(* looks into (a 48-byte signature, a 96-byte public key, a 32-byte hash,  *)
(* the economic mode, the hashable part of a header) is one opaque element *)
(* of the stream naming its kind and value; read_bytes of that kind takes  *)
(* it and fails on anything else.  Vote, the length-prefixed byte arrays   *)
(* and the header's hashable part are not under src/ and follow the wire  *)
(* format of spec section 6.                                               *)
(***************************************************************************)
EXTENDS Naturals, Sequences, SequencesExt

CONSTANTS
  Inputs,    \* the typed values written: [type |-> ..., val |-> ...]
  Trailer,   \* bytes that follow the value in the same stream
  NoErr      \* the None of SpentTransaction.err and of an IterationsInfo slot

-----------------------------------------------------------------------------
(* Writing.                                                                *)

(* Every element of a stream is a record: a byte, or an opaque array.    *)
Byte(b) == [kind |-> "byte", v |-> b]

Blob(kind, v) == [kind |-> kind, v |-> v]

Bytes(bs) == [i \in 1..Len(bs) |-> Byte(bs[i])]

(* n.to_le_bytes() of a w-byte integer; `as u32` and `as u8` keep the     *)
(* low bytes, which is what writing only w bytes does.                     *)
RECURSIVE LE(_, _)
LE(n, w) == IF w = 0 THEN << >> ELSE <<Byte(n % 256)>> \o LE(n \div 256, w - 1)

(* Vote: tag NoCandidate 0, Valid 1, Invalid 2, NoQuorum 3; Valid and      *)
(* Invalid carry the 32-byte hash.                                         *)
VoteTag == [NoCandidate |-> 0, Valid |-> 1, Invalid |-> 2, NoQuorum |-> 3]

EncVote(v) ==
  <<Byte(VoteTag[v.kind])>> \o
    (IF v.kind \in {"Valid", "Invalid"} THEN <<Blob("hash", v.hash)>> ELSE << >>)

(* StepVotes::write                                                        *)
EncStepVotes(sv) == LE(sv.bitset, 8) \o <<Blob("sig", sv.sig)>>

(* RatificationResult::write: tag 0 Fail, 1 Success, then the vote.       *)
EncRatificationResult(r) ==
  <<Byte(IF r.kind = "Fail" THEN 0 ELSE 1)>> \o EncVote(r.vote)

(* Certificate::write                                                      *)
EncCertificate(c) ==
  EncRatificationResult(c.result) \o EncStepVotes(c.validation)
    \o EncStepVotes(c.ratification)

(* IterationsInfo::write: the count `as u8`, then per slot 0 for None or 1, *)
(* the certificate and the generator's key.                               *)
EncIterationsInfo(l) ==
  LE(Len(l), 1) \o
    FlattenSeq([i \in 1..Len(l) |->
      IF l[i] = NoErr THEN <<Byte(0)>>
      ELSE <<Byte(1)>> \o EncCertificate(l[i].cert) \o <<Blob("pk", l[i].pk)>>])

(* Label::write: the discriminant as one byte.                            *)
LabelByte == [Accepted |-> 0, Attested |-> 1, Final |-> 2]

EncLabel(l) == <<Byte(LabelByte[l])>>

(* Transaction::write: version, type, then the inner bytes length-prefixed *)
(* by a u32 (write_var_le_bytes32).                                        *)
EncTransaction(t) ==
  LE(t.version, 4) \o LE(t.type, 4) \o LE(Len(t.payload), 4) \o Bytes(t.payload)

(* SpentTransaction::write: an error is a u32 length and its bytes, and   *)
(* None is written as 0_u64.                                               *)
EncSpentTransaction(st) ==
  EncTransaction(st.inner) \o LE(st.height, 8) \o LE(st.gas, 8)
    \o <<Blob("eco", st.eco)>>
    \o (IF st.err = NoErr THEN LE(0, 8) ELSE LE(Len(st.err), 4) \o Bytes(st.err))

(* Header::write: marshal_hashable, the certificate, the hash.            *)
EncHeader(h) ==
  <<Blob("hashable", h.hashable)>> \o EncCertificate(h.cert)
    \o <<Blob("hash", h.hash)>>

(* Block::write: the header, the tx count as u32, the transactions.       *)
EncBlock(b) ==
  EncHeader(b.header) \o LE(Len(b.txs), 4)
    \o FlattenSeq([i \in 1..Len(b.txs) |-> EncTransaction(b.txs[i])])

Encode(x) ==
  CASE x.type = "StepVotes"          -> EncStepVotes(x.val)
    [] x.type = "RatificationResult" -> EncRatificationResult(x.val)
    [] x.type = "Certificate"        -> EncCertificate(x.val)
    [] x.type = "IterationsInfo"     -> EncIterationsInfo(x.val)
    [] x.type = "Label"              -> EncLabel(x.val)
    [] x.type = "Transaction"        -> EncTransaction(x.val)
    [] x.type = "SpentTransaction"   -> EncSpentTransaction(x.val)
    [] x.type = "Block"              -> EncBlock(x.val)

-----------------------------------------------------------------------------
(* Reading.  A read gives the value and the rest of the stream, or the     *)
(* io::Error it returns, or Panic where the code panics.                   *)

Ok(v, rest) == [err |-> "none", v |-> v, rest |-> rest]

Fail(e) == [err |-> e, v |-> NoErr, rest |-> << >>]

(* The `?` of a read: stop at the first error.                             *)
Bind(r, F(_, _)) == IF r.err # "none" THEN r ELSE F(r.v, r.rest)

RECURSIVE FromLE(_)
FromLE(bs) == IF bs = << >> THEN 0 ELSE Head(bs).v + 256 * FromLE(Tail(bs))

(* read_exact of n bytes: UnexpectedEof when the stream is shorter; bytes *)
(* of an opaque array are not told apart here.                             *)
ReadExact(s, n) ==
  IF Len(s) < n THEN Fail("UnexpectedEof")
  ELSE IF \E i \in 1..n : s[i].kind # "byte" THEN Fail("Opaque")
  ELSE Ok([i \in 1..n |-> s[i].v], SubSeq(s, n + 1, Len(s)))

(* read_u8, read_u32_le, read_u64_le                                       *)
ReadUint(s, w) == Bind(ReadExact(s, w), LAMBDA bs, r : Ok(FromLE(Bytes(bs)), r))

(* read_bytes of a fixed-size array.                                       *)
ReadBlob(s, kind) ==
  IF s = << >> THEN Fail("UnexpectedEof")
  ELSE IF Head(s).kind # kind THEN Fail("Opaque")
  ELSE Ok(Head(s).v, Tail(s))

ReadVote(s) ==
  Bind(ReadUint(s, 1), LAMBDA tag, r :
    CASE tag = 0 -> Ok([kind |-> "NoCandidate"], r)
      [] tag = 3 -> Ok([kind |-> "NoQuorum"], r)
      [] tag \in {1, 2} ->
           Bind(ReadBlob(r, "hash"), LAMBDA h, r2 :
             Ok([kind |-> IF tag = 1 THEN "Valid" ELSE "Invalid", hash |-> h], r2))
      [] OTHER -> Fail("InvalidData"))

(* Mutant: the bitset read back as a u32.                                 *)
ReadStepVotesNarrow(s) ==
  Bind(ReadUint(s, 4), LAMBDA bits, r :
    Bind(ReadBlob(r, "sig"), LAMBDA sig, r2 : Ok([bitset |-> bits, sig |-> sig], r2)))

(* StepVotes::read                                                         *)
ReadStepVotes(s) ==
  Bind(ReadUint(s, 8), LAMBDA bits, r :
    Bind(ReadBlob(r, "sig"), LAMBDA sig, r2 : Ok([bitset |-> bits, sig |-> sig], r2)))

(* RatificationResult::read: a tag other than 0 and 1 is InvalidData.     *)
ReadRatificationResult(s) ==
  Bind(ReadUint(s, 1), LAMBDA tag, r :
    IF tag \notin {0, 1} THEN Fail("InvalidData")
    ELSE Bind(ReadVote(r), LAMBDA v, r2 :
           Ok([kind |-> IF tag = 0 THEN "Fail" ELSE "Success", vote |-> v], r2)))

(* Certificate::read                                                       *)
ReadCertificate(s) ==
  Bind(ReadRatificationResult(s), LAMBDA res, r :
    Bind(ReadStepVotes(r), LAMBDA val, r2 :
      Bind(ReadStepVotes(r2), LAMBDA rat, r3 :
        Ok([result |-> res, validation |-> val, ratification |-> rat], r3))))

(* One slot of IterationsInfo::read: 0 None, 1 a certificate and a key,   *)
(* any other byte "Invalid option".                                        *)
ReadSlot(s) ==
  Bind(ReadUint(s, 1), LAMBDA opt, r :
    CASE opt = 0 -> Ok(NoErr, r)
      [] opt = 1 -> Bind(ReadCertificate(r), LAMBDA c, r2 :
                      Bind(ReadBlob(r2, "pk"), LAMBDA pk, r3 :
                        Ok([cert |-> c, pk |-> pk], r3)))
      [] OTHER -> Fail("InvalidData"))

RECURSIVE ReadSlots(_, _)
ReadSlots(s, n) ==
  IF n = 0 THEN Ok(<< >>, s)
  ELSE Bind(ReadSlot(s), LAMBDA e, r :
         Bind(ReadSlots(r, n - 1), LAMBDA es, r2 : Ok(<<e>> \o es, r2)))

(* IterationsInfo::read                                                    *)
ReadIterationsInfo(s) ==
  Bind(ReadUint(s, 1), LAMBDA count, r : ReadSlots(r, count))

(* Label::read: From<u8> panics on a byte other than 0, 1, 2.              *)
ReadLabel(s) ==
  Bind(ReadUint(s, 1), LAMBDA b, r :
    CASE b = 0 -> Ok("Accepted", r)
      [] b = 1 -> Ok("Attested", r)
      [] b = 2 -> Ok("Final", r)
      [] OTHER -> Fail("Panic"))

(* Transaction::read: version, type, the u32-prefixed inner bytes          *)
(* (from_slice is taken to accept what to_var_bytes wrote).                *)
ReadTransaction(s) ==
  Bind(ReadUint(s, 4), LAMBDA ver, r :
    Bind(ReadUint(r, 4), LAMBDA ty, r2 :
      Bind(ReadUint(r2, 4), LAMBDA n, r3 :
        Bind(ReadExact(r3, n), LAMBDA p, r4 :
          Ok([version |-> ver, type |-> ty, payload |-> p], r4)))))

(* SpentTransaction::read: the error length is read as a u32.              *)
ReadSpentTransaction(s) ==
  Bind(ReadTransaction(s), LAMBDA tx, r :
    Bind(ReadUint(r, 8), LAMBDA h, r2 :
      Bind(ReadUint(r2, 8), LAMBDA g, r3 :
        Bind(ReadBlob(r3, "eco"), LAMBDA eco, r4 :
          Bind(ReadUint(r4, 4), LAMBDA n, r5 :
            IF n = 0
              THEN Ok([inner |-> tx, height |-> h, gas |-> g, eco |-> eco,
                       err |-> NoErr], r5)
              ELSE Bind(ReadExact(r5, n), LAMBDA e, r6 :
                     Ok([inner |-> tx, height |-> h, gas |-> g, eco |-> eco,
                         err |-> e], r6)))))))

(* Header::read                                                            *)
ReadHeader(s) ==
  Bind(ReadBlob(s, "hashable"), LAMBDA hh, r :
    Bind(ReadCertificate(r), LAMBDA c, r2 :
      Bind(ReadBlob(r2, "hash"), LAMBDA h, r3 :
        Ok([hashable |-> hh, cert |-> c, hash |-> h], r3))))

RECURSIVE ReadTxs(_, _)
ReadTxs(s, n) ==
  IF n = 0 THEN Ok(<< >>, s)
  ELSE Bind(ReadTransaction(s), LAMBDA t, r :
         Bind(ReadTxs(r, n - 1), LAMBDA ts, r2 : Ok(<<t>> \o ts, r2)))

(* Block::read: the header, the u32 count, the transactions.              *)
ReadBlock(s) ==
  Bind(ReadHeader(s), LAMBDA h, r :
    Bind(ReadUint(r, 4), LAMBDA n, r2 :
      Bind(ReadTxs(r2, n), LAMBDA ts, r3 : Ok([header |-> h, txs |-> ts], r3))))

Decode(type, s) ==
  CASE type = "StepVotes"          -> ReadStepVotes(s)
    [] type = "RatificationResult" -> ReadRatificationResult(s)
    [] type = "Certificate"        -> ReadCertificate(s)
    [] type = "IterationsInfo"     -> ReadIterationsInfo(s)
    [] type = "Label"              -> ReadLabel(s)
    [] type = "Transaction"        -> ReadTransaction(s)
    [] type = "SpentTransaction"   -> ReadSpentTransaction(s)
    [] type = "Block"              -> ReadBlock(s)

-----------------------------------------------------------------------------
(* One value is written to a stream, followed by Trailer, and read back.  *)
VARIABLES x, stream, out, pc

vars == <<x, stream, out, pc>>

Init ==
  /\ x \in Inputs
  /\ stream = << >>
  /\ out = Fail("pending")
  /\ pc = "write"

Write ==
  /\ pc = "write"
  /\ stream' = Encode(x) \o Trailer
  /\ pc' = "read"
  /\ UNCHANGED <<x, out>>

Read ==
  /\ pc = "read"
  /\ out' = Decode(x.type, stream)
  /\ pc' = "done"
  /\ UNCHANGED <<x, stream>>

Next == Write \/ Read

Spec == Init /\ [][Next]_vars

-----------------------------------------------------------------------------
(* Round-trip encoding (spec 8) on a stream: read of what write emitted,  *)
(* followed by more bytes, gives back the value and consumes exactly the  *)
(* bytes written, as reading a value out of a longer stream needs.         *)
ReadConsumesWrite ==
  pc = "done" => out = Ok(x.val, Trailer)

=============================================================================
