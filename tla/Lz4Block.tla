------------------------------ MODULE Lz4Block ------------------------------
(***************************************************************************)
(* main/lz4_block.c: the block compressor and decompressor under the       *)
(* compressed store.  A call takes one step per turn of its outer loop; a  *)
(* call of lz4_compress that succeeds is followed by lz4_decompress of     *)
(* what it gave, and lz4_decompress also gets streams nobody compressed.   *)
(*                                                                         *)
(* Pointers are offsets into their buffer: byte p of a buffer b is b[p+1]. *)
(* A byte is a number up to ByteMax, and RunMask is the largest nibble.    *)
(***************************************************************************)
EXTENDS Integers, Sequences

CONSTANTS
  MinMatch, LastLiterals, MaxDistance, Margin,
  ByteMax, RunMask,           (* 255 and 15                                *)
  PosMod,                     (* Positions of a hash_table of uint16_t.    *)
  FastOffset, FastLength,     (* 8 and 32: when a match is copied at once. *)
  Hash(_), Hashes,            (* hash4, of MinMatch bytes, and its values. *)
  Blocks, Streams,            (* What is compressed, and decompressed.     *)
  Rooms(_),                   (* dst_capacity, by src_size.                *)
  Sizes,                      (* original_size of a stream.                *)
  Garbage                     (* Content of a byte not written.            *)

Bytes == 0 .. ByteMax

ASSUME Lz4Assumption ==
  /\ {MinMatch, LastLiterals, MaxDistance, Margin, ByteMax, RunMask, PosMod} \subseteq Nat \ {0}
  /\ MinMatch = 4 /\ LastLiterals >= MinMatch /\ Margin > LastLiterals
  /\ (RunMask + 1) * (RunMask + 1) = ByteMax + 1
  /\ MaxDistance < (ByteMax + 1) * (ByteMax + 1)
  /\ {FastOffset, FastLength} \subseteq Nat
  /\ \A v \in [1 .. MinMatch -> Bytes] : Hash(v) \in Hashes
  /\ Blocks \cup Streams \subseteq Seq(Bytes)
  /\ \A block \in Blocks : Rooms(Len(block)) \subseteq Nat
  /\ Sizes \subseteq Nat
  /\ Garbage \notin Bytes

VARIABLES
  pc,
  src, room,        (* Of lz4_compress: its input and dst_capacity,        *)
  ip, anchor, hash_table,
  stream,           (*   and what it has written; the input of the other.  *)
  size, out,        (* Of lz4_decompress: original_size, what it has written. *)
  overlapped        (* History: memcpy was given buffers that overlap.     *)

lz4Vars == <<pc, src, room, ip, anchor, hash_table, stream, size, out, overlapped>>

Idle ==
  /\ pc = "idle"
  /\ src = <<>> /\ room = 0 /\ ip = 0 /\ anchor = 0 /\ hash_table = [h \in Hashes |-> 0]
  /\ stream = <<>> /\ size = 0 /\ out = <<>> /\ overlapped = FALSE

Lz4Init == Idle

----------------------------------------------------------------------------
(* The format: lengths, tokens and offsets. *)

Nibble(n) == IF n >= RunMask THEN RunMask ELSE n

(* Mutant: 255 is written as the last byte of a length. *)
LengthBytes_Full(n) ==
  IF n < RunMask THEN <<>>
  ELSE LET rest == n - RunMask
           full == IF rest = 0 THEN 0 ELSE (rest - 1) \div ByteMax
       IN  [i \in 1 .. full |-> ByteMax] \o <<rest - full * ByteMax>>

(* The bytes of a length that does not fit its nibble. *)
LengthBytes(n) ==
  IF n < RunMask THEN <<>>
  ELSE LET rest == n - RunMask
       IN  [i \in 1 .. rest \div ByteMax |-> ByteMax] \o <<rest % ByteMax>>

Token(literals, match) == Nibble(literals) * (RunMask + 1) + Nibble(match)

(* write_le16, read_le16 *)
OffsetBytes(offset) == <<offset % (ByteMax + 1), (offset \div (ByteMax + 1)) % (ByteMax + 1)>>
Offset(b, p)        == b[p + 1] + b[p + 2] * (ByteMax + 1)

(* The bytes of b from p to q - 1. *)
Between(b, p, q) == SubSeq(b, p + 1, q)

(* A length whose bytes are at p of b: where its last byte is, if it is there, *)
LengthEnds(b, p, nibble) ==
  IF nibble < RunMask THEN {p}
  ELSE {q \in p + 1 .. Len(b) :
          b[q] # ByteMax /\ \A i \in p + 1 .. q - 1 : b[i] = ByteMax}

(*   and its value then. *)
LengthAt(b, p, nibble, end) ==
  IF nibble < RunMask THEN nibble ELSE nibble + (end - p - 1) * ByteMax + b[end]

----------------------------------------------------------------------------
(* lz4_compress *)

(* Mutant: lz4_compress_bound without its margin. *)
Bound_NoMargin(n) == n + n \div ByteMax

(* lz4_compress_bound *)
Bound(n) == n + n \div ByteMax + Margin

SrcEnd     == Len(src)
MatchLimit == SrcEnd - LastLiterals
MfLimit    == SrcEnd - MinMatch

Four(p) == Between(src, p, p + MinMatch)

(* (Of an empty block, the call returns 0 at once.) *)
Compress(block, capacity) ==
  /\ block # <<>>
  /\ src' = block /\ room' = capacity
  /\ IF Len(block) < MinMatch + LastLiterals + 1
     THEN pc' = "last" /\ UNCHANGED ip
     ELSE pc' = "scan" /\ ip' = 1
  /\ UNCHANGED <<anchor, hash_table, stream, size, out, overlapped>>

Scan(next) ==
  /\ pc = "scan" /\ ip < MfLimit
  /\ next
  /\ UNCHANGED <<src, room, size, out, overlapped>>

Found(ref) == ip - ref <= MaxDistance /\ Four(ip) = Four(ref)

NoMatch ==
  Scan(LET h == Hash(Four(ip))
       IN  /\ ~Found(hash_table[h])
           /\ hash_table' = [hash_table EXCEPT ![h] = ip % PosMod]
           /\ ip' = ip + 1
           /\ UNCHANGED <<pc, anchor, stream>>)

(* Where the match with ref ends. *)
IsMatchEnd(ref, end) ==
  /\ end >= ip + MinMatch
  /\ \A p \in ip + MinMatch .. end - 1 : p < MatchLimit /\ src[p + 1] = src[p - ip + ref + 1]
  /\ end < MatchLimit => src[end + 1] # src[end - ip + ref + 1]

(* Mutant: the bytes of the lengths are not counted. *)
Fits_NoLengths(literals, match) ==
  Len(stream) + 1 + literals + 2 <= room

Fits(literals, match) ==
  Len(stream) + 1 + literals + 2 + literals \div ByteMax + match \div ByteMax + 2 <= room

MatchAt(ref, end) ==
  IF ~Fits(ip - anchor, end - ip)
  THEN pc' = "no_room" /\ UNCHANGED <<ip, anchor, stream>>
  ELSE /\ stream' = stream \o <<Token(ip - anchor, end - ip - MinMatch)>>
                           \o LengthBytes(ip - anchor) \o Between(src, anchor, ip)
                           \o OffsetBytes(ip - ref) \o LengthBytes(end - ip - MinMatch)
       /\ ip' = end /\ anchor' = end
       /\ UNCHANGED pc

Match ==
  Scan(LET h   == Hash(Four(ip))
           ref == hash_table[h]
       IN  /\ Found(ref)
           /\ \E end \in ip + MinMatch .. SrcEnd :
                /\ IsMatchEnd(ref, end)
                /\ MatchAt(ref, end)
                /\ hash_table' =
                     IF end < MfLimit /\ pc' = "scan"
                     THEN [hash_table EXCEPT ![h] = ip % PosMod,
                                             ![Hash(Four(end - 2))] = (end - 2) % PosMod]
                     ELSE [hash_table EXCEPT ![h] = ip % PosMod])

ScanEnds ==
  /\ pc = "scan" /\ ip >= MfLimit
  /\ pc' = "last"
  /\ UNCHANGED <<src, room, ip, anchor, hash_table, stream, size, out, overlapped>>

(* The last literals; the store decompresses what it has compressed. *)
LastRun ==
  /\ pc = "last"
  /\ LET run == SrcEnd - anchor
     IN  IF Len(stream) + 1 + run + run \div ByteMax + 1 > room
         THEN pc' = "no_room" /\ UNCHANGED <<stream, ip, size>>
         ELSE /\ stream' = stream \o <<Token(run, 0)>> \o LengthBytes(run)
                                  \o Between(src, anchor, SrcEnd)
              /\ pc' = "decode" /\ ip' = 0 /\ size' = SrcEnd
  /\ UNCHANGED <<src, room, anchor, hash_table, out, overlapped>>

----------------------------------------------------------------------------
(* lz4_decompress *)

Decompress(bytes, original_size) ==
  /\ stream' = bytes /\ size' = original_size
  /\ pc' = "decode"
  /\ UNCHANGED <<src, room, ip, anchor, hash_table, out, overlapped>>

(* The match of a sequence: one byte after the other, so that it may reach into what it
   writes, or with one memcpy, which may not. *)
CopyBytes(from, offset, length) ==
  [i \in 1 .. Len(from) + length |->
     IF i <= Len(from) THEN from[i]
     ELSE from[Len(from) - offset + 1 + ((i - Len(from) - 1) % offset)]]

CopyMatch(from, offset, length) ==
  \/ /\ out' = CopyBytes(from, offset, length)
     /\ overlapped' =
          (overlapped \/ (offset >= FastOffset /\ length <= FastLength /\ offset < length))
  \/ /\ offset >= FastOffset /\ length <= FastLength /\ offset < length
     /\ out' = Between(CopyBytes(from, offset, offset), 0, Len(from) + offset)
                 \o [i \in 1 .. length - offset |-> Garbage]
     /\ overlapped' = TRUE

Corrupt == pc' = "corrupt" /\ UNCHANGED <<ip, out, overlapped>>

(* What follows the literals, which end at p of the stream and have made `copied'. *)
AfterLiterals(nibble, p, copied) ==
  IF Len(copied) = size
  THEN pc' = "done" /\ out' = copied /\ ip' = p /\ UNCHANGED overlapped
  ELSE IF p + 2 > Len(stream) THEN Corrupt
  ELSE LET offset == Offset(stream, p)
           ends   == LengthEnds(stream, p + 2, nibble)
       IN  IF offset = 0 \/ offset > Len(copied) \/ ends = {}
           THEN Corrupt
           ELSE \E end \in ends :
                  LET length == MinMatch + LengthAt(stream, p + 2, nibble, end)
                  IN  IF Len(copied) + length > size
                      THEN Corrupt
                      ELSE CopyMatch(copied, offset, length) /\ ip' = end /\ UNCHANGED pc

Sequence ==
  /\ pc = "decode" /\ ip < Len(stream)
  /\ LET token    == stream[ip + 1]
         literals == token \div (RunMask + 1)
         ends     == LengthEnds(stream, ip + 1, literals)
     IN  IF ends = {} THEN Corrupt
         ELSE \E end \in ends :
                LET length == LengthAt(stream, ip + 1, literals, end)
                IN  IF end + length > Len(stream) \/ Len(out) + length > size
                    THEN Corrupt
                    ELSE AfterLiterals(token % (RunMask + 1), end + length,
                                       out \o Between(stream, end, end + length))
  /\ UNCHANGED <<src, room, anchor, hash_table, stream, size>>

StreamEnds ==
  /\ pc = "decode" /\ ip >= Len(stream)
  /\ pc' = "done"
  /\ UNCHANGED <<src, room, ip, anchor, hash_table, stream, size, out, overlapped>>

(* The call has returned. *)
Return ==
  /\ pc \in {"done", "corrupt", "no_room"}
  /\ pc' = "idle"
  /\ src' = <<>> /\ room' = 0 /\ ip' = 0 /\ anchor' = 0 /\ hash_table' = [h \in Hashes |-> 0]
  /\ stream' = <<>> /\ size' = 0 /\ out' = <<>> /\ overlapped' = FALSE

Lz4Step == NoMatch \/ Match \/ ScanEnds \/ LastRun \/ Sequence \/ StreamEnds \/ Return

Call ==
  /\ pc = "idle"
  /\ \/ \E block \in Blocks : \E capacity \in Rooms(Len(block)) : Compress(block, capacity)
     \/ \E bytes \in Streams, original_size \in Sizes : Decompress(bytes, original_size)

Lz4Next == Call \/ Lz4Step

Lz4Spec == Lz4Init /\ [][Lz4Next]_lz4Vars /\ WF_lz4Vars(Lz4Step)

----------------------------------------------------------------------------
(* Properties. *)

(* The compressor's pointers stay in order and in its block, the decompressor's in its
   stream, and what they write are bytes. *)
Lz4TypeOK ==
  /\ pc \in {"idle", "scan", "last", "decode", "no_room", "corrupt", "done"}
  /\ src \in Seq(Bytes) /\ room \in Nat
  /\ pc \in {"scan", "last"} => anchor <= ip /\ ip <= SrcEnd
  /\ pc \in {"decode", "corrupt", "done"} => ip <= Len(stream)
  /\ hash_table \in [Hashes -> 0 .. PosMod - 1]
  /\ stream \in Seq(Bytes) /\ size \in Nat
  /\ out \in Seq(Bytes \cup {Garbage})
  /\ overlapped \in BOOLEAN

(* Neither function writes past the end of its destination: not in a buffer that is too
   small, and not for a stream that is cut or damaged. *)
InBounds ==
  /\ pc \in {"scan", "last", "decode"} /\ src # <<>> => Len(stream) <= room
  /\ Len(out) <= size

(* What was compressed decompresses to itself, whatever matches, collisions of the hash
   and positions that wrapped, as long as memcpy was not given buffers that overlap. *)
RoundTrip ==
  src # <<>> /\ ~overlapped =>
    /\ pc # "corrupt"
    /\ pc = "done" => out = src

(* lz4_compress_bound is enough for every block. *)
BoundSuffices == pc = "no_room" => room < Bound(Len(src))

=============================================================================
