----------------------------- MODULE Lz4Proofs -----------------------------
(***************************************************************************)
(* Lz4Block for blocks, streams and destinations of any size: what is      *)
(* written stays in its buffer, and lz4_compress_bound is enough.  What is *)
(* written up to anchor is no longer than anchor + anchor / 255, because a *)
(* match saves at least what its token, its offset and the last byte of    *)
(* each of its two lengths cost.  And what lz4_compress has written,       *)
(* lz4_decompress undoes, whatever Hash makes of four bytes: the stream is *)
(* a chain of sequences, each of which stands for a piece of the block.    *)
(***************************************************************************)
EXTENDS Lz4Block, TLAPS, WellFoundedInduction

----------------------------------------------------------------------------
(* Division. *)

LEMMA DivIs ==
  ASSUME NEW b \in Nat \ {0}, NEW a \in Nat
  PROVE  a \div b \in Nat /\ b * (a \div b) <= a /\ a < b * (a \div b) + b
OBVIOUS

LEMMA DivLeast ==
  ASSUME NEW b \in Nat \ {0}, NEW a \in Nat, NEW q \in Nat, b * q <= a
  PROVE  q <= a \div b
<1>1. a \div b \in Nat /\ a < b * (a \div b) + b
  BY DivIs
<1>2. SUFFICES ASSUME q >= (a \div b) + 1 PROVE FALSE
  BY <1>1
<1>3. b * q >= b * ((a \div b) + 1)
  BY <1>1, <1>2
<1> QED BY <1>1, <1>3

LEMMA DivSum ==
  ASSUME NEW b \in Nat \ {0}, NEW a \in Nat, NEW c \in Nat
  PROVE  (a \div b) + (c \div b) <= (a + c) \div b
<1>1. /\ a \div b \in Nat /\ b * (a \div b) <= a
      /\ c \div b \in Nat /\ b * (c \div b) <= c
  BY DivIs
<1>2. b * ((a \div b) + (c \div b)) <= a + c
  BY <1>1
<1> QED BY <1>1, <1>2, DivLeast

LEMMA DivLe ==
  ASSUME NEW b \in Nat \ {0}, NEW a \in Nat, NEW c \in Nat, a <= c
  PROVE  a \div b <= c \div b
<1>1. a \div b \in Nat /\ b * (a \div b) <= a
  BY DivIs
<1> QED BY <1>1, DivLeast

----------------------------------------------------------------------------
(* What is written of a length, a token and an offset. *)

LEMMA Sizes255 ==
  /\ RunMask \in Nat \ {0} /\ ByteMax \in Nat \ {0} /\ PosMod \in Nat \ {0}
  /\ (RunMask + 1) * (RunMask + 1) = ByteMax + 1
BY Lz4Assumption

LEMMA MinMatchNat == MinMatch \in Nat
BY Lz4Assumption

(* What the bytes of a length cost at most, but for the last one. *)
Extra(n) == n \div ByteMax

LEMMA ExtraNat == ASSUME NEW n \in Nat PROVE Extra(n) \in Nat
BY Sizes255, DivIs DEF Extra

LEMMA ExtraLe == ASSUME NEW n \in Nat, NEW m \in Nat, n <= m PROVE Extra(n) <= Extra(m)
BY Sizes255, DivLe DEF Extra

LEMMA ExtraSum == ASSUME NEW n \in Nat, NEW m \in Nat PROVE Extra(n) + Extra(m) <= Extra(n + m)
BY Sizes255, DivSum DEF Extra

LEMMA FitsIs ==
  ASSUME NEW n, NEW m
  PROVE  Fits(n, m) <=> Len(stream) + 1 + n + 2 + Extra(n) + Extra(m) + 2 <= room
BY DEF Fits, Extra

LEMMA BoundIs == ASSUME NEW n PROVE Bound(n) = n + Extra(n) + Margin
BY DEF Bound, Extra

LEMMA LengthWritten ==
  ASSUME NEW n \in Nat
  PROVE  /\ LengthBytes(n) \in Seq(Bytes)
         /\ Len(LengthBytes(n)) <= Extra(n) + 1
         /\ n < RunMask => Len(LengthBytes(n)) = 0
         /\ Len(LengthBytes(n)) \in Nat
<1>1. CASE n < RunMask
  <2>1. Extra(n) \in Nat
    BY ExtraNat
  <2> QED BY <1>1, <2>1 DEF LengthBytes
<1>2. CASE ~(n < RunMask)
  <2> DEFINE rest == n - RunMask
             full == [i \in 1 .. rest \div ByteMax |-> ByteMax]
  <2>1. rest \in Nat /\ rest <= n
    BY <1>2, Sizes255
  <2>2. rest \div ByteMax \in Nat /\ rest \div ByteMax <= n \div ByteMax /\ n \div ByteMax \in Nat
    BY <2>1, Sizes255, DivIs, DivLe
  <2>3. rest % ByteMax \in Bytes
    BY <2>1, Sizes255 DEF Bytes
  <2>4. ByteMax \in Bytes
    BY Sizes255 DEF Bytes
  <2>5. full \in Seq(Bytes) /\ Len(full) = rest \div ByteMax
    BY <2>2, <2>4
  <2>6. LengthBytes(n) = full \o <<rest % ByteMax>>
    BY <1>2 DEF LengthBytes
  <2>7. Extra(n) = n \div ByteMax
    BY DEF Extra
  <2> HIDE DEF full, rest
  <2> QED BY <1>2, <2>2, <2>3, <2>5, <2>6, <2>7
<1> QED BY <1>1, <1>2

LEMMA TokenIsByte ==
  ASSUME NEW literals \in Nat, NEW match \in Nat
  PROVE  Token(literals, match) \in Bytes
<1>1. Nibble(literals) \in 0 .. RunMask /\ Nibble(match) \in 0 .. RunMask
  BY Sizes255 DEF Nibble
<1>2. Nibble(literals) * (RunMask + 1) <= RunMask * (RunMask + 1)
  BY <1>1, Sizes255
<1>3. RunMask * (RunMask + 1) + RunMask = ByteMax
  BY Sizes255
<1>4. Nibble(literals) * (RunMask + 1) \in Nat /\ RunMask * (RunMask + 1) \in Nat
  BY <1>1, Sizes255
<1> QED BY <1>1, <1>2, <1>3, <1>4, Sizes255 DEF Token, Bytes

LEMMA OffsetIsBytes ==
  ASSUME NEW offset \in Int
  PROVE  OffsetBytes(offset) \in Seq(Bytes) /\ Len(OffsetBytes(offset)) = 2
<1>1. \A a \in Int : a % (ByteMax + 1) \in Bytes
  BY Sizes255 DEF Bytes
<1>2. offset \div (ByteMax + 1) \in Int
  BY Sizes255
<1> QED BY <1>1, <1>2 DEF OffsetBytes

LEMMA Part ==
  ASSUME NEW S, NEW b \in Seq(S), NEW p \in Nat, NEW q \in Nat, p <= q, q <= Len(b)
  PROVE  Between(b, p, q) \in Seq(S) /\ Len(Between(b, p, q)) = q - p
BY DEF Between

LEMMA PartOfSrc ==
  ASSUME src \in Seq(Bytes), NEW p \in Nat, NEW q \in Nat, NEW n \in Nat,
         p <= q, q <= SrcEnd, q = p + n
  PROVE  Between(src, p, q) \in Seq(Bytes) /\ Len(Between(src, p, q)) = n
<1>1. q <= Len(src)
  BY DEF SrcEnd
<1>2. Between(src, p, q) \in Seq(Bytes) /\ Len(Between(src, p, q)) = q - p
  BY <1>1, Part
<1> QED BY <1>2

LEMMA Joined ==
  ASSUME NEW S, NEW s \in Seq(S), NEW t \in Seq(S)
  PROVE  s \o t \in Seq(S) /\ Len(s \o t) = Len(s) + Len(t) /\ Len(s) \in Nat /\ Len(t) \in Nat
OBVIOUS

----------------------------------------------------------------------------
(* A sequence is no longer than what lz4_compress has allowed for, nor than *)
(* what it stands for and a 255th of it.                                    *)

SequenceLen(literals, match) ==
  1 + Len(LengthBytes(literals)) + literals + 2 + Len(LengthBytes(match - MinMatch))

LEMMA SequenceBounds ==
  ASSUME NEW literals \in Nat, NEW match \in Nat, match >= MinMatch
  PROVE  /\ SequenceLen(literals, match) \in Nat
         /\ SequenceLen(literals, match) <= 1 + literals + 2 + Extra(literals) + Extra(match) + 2
         /\ SequenceLen(literals, match) <= literals + match + Extra(literals + match)
<1> DEFINE rest == match - MinMatch
<1>1. MinMatch = 4 /\ rest \in Nat /\ rest = match - 4
  BY Lz4Assumption
<1> DEFINE la == Len(LengthBytes(literals))
           lb == Len(LengthBytes(rest))
<1>2. la <= Extra(literals) + 1 /\ la \in Nat
  BY LengthWritten
<1> HIDE DEF rest
<1>3. lb <= Extra(rest) + 1 /\ lb \in Nat /\ (rest < RunMask => lb = 0)
  BY <1>1, LengthWritten
<1>4. Extra(rest) <= Extra(match) /\ Extra(rest) \in Nat /\ Extra(match) \in Nat /\ Extra(literals) \in Nat
  BY <1>1, ExtraLe, ExtraNat
<1>5. Extra(literals) + Extra(match) <= Extra(literals + match)
  BY ExtraSum
<1>6. RunMask >= 1 /\ RunMask \in Nat
  BY Sizes255
<1>7. Extra(literals + match) \in Nat
  <2>1. literals + match \in Nat
    OBVIOUS
  <2> QED BY <2>1, ExtraNat
<1>8. SequenceLen(literals, match) = 1 + la + literals + 2 + lb
  BY DEF SequenceLen, rest
<1> HIDE DEF la, lb
<1>9. SequenceLen(literals, match) <= literals + match + Extra(literals + match)
  <2>1. CASE rest < RunMask
    BY <1>1, <1>2, <1>3, <1>4, <1>5, <1>7, <1>8, <2>1
  <2>2. CASE ~(rest < RunMask)
    BY <1>1, <1>2, <1>3, <1>4, <1>5, <1>6, <1>7, <1>8, <2>2
  <2> QED BY <2>1, <2>2
<1> QED BY <1>2, <1>3, <1>4, <1>8, <1>9

----------------------------------------------------------------------------
(* The invariant. *)

Compressing == pc \in {"scan", "last"}

Lz4Inv ==
  /\ Lz4TypeOK
  /\ ip \in Nat /\ anchor \in Nat
  /\ pc = "idle" => src = <<>> /\ ip = 0 /\ anchor = 0 /\ stream = <<>> /\ out = <<>>
  /\ Compressing => out = <<>> /\ Len(stream) <= anchor + Extra(anchor)
  /\ InBounds /\ BoundSuffices

(* When a sequence, or the last run, is refused for want of room, there is less of it than
   lz4_compress_bound says. *)
LEMMA NoRoom ==
  ASSUME Lz4Inv, Compressing, NEW literals \in Nat, NEW match \in Nat,
         anchor + literals + match <= SrcEnd,
         Len(stream) + 1 + literals + 2 + Extra(literals) + Extra(match) + 2 > room
  PROVE  room < Bound(SrcEnd)
<1>1. /\ SrcEnd \in Nat /\ Len(stream) \in Nat /\ room \in Nat /\ anchor \in Nat
      /\ Len(stream) <= anchor + Extra(anchor)
  BY DEF Lz4Inv, Lz4TypeOK, SrcEnd
<1> DEFINE s == anchor + literals
           e == anchor + literals + match
<1>2. s \in Nat /\ e \in Nat /\ e = s + match /\ e <= SrcEnd
  BY <1>1
<1>3. Extra(anchor) + Extra(literals) <= Extra(s)
  BY <1>1, ExtraSum
<1> HIDE DEF s
<1>4. Extra(s) + Extra(match) <= Extra(e)
  BY <1>2, ExtraSum
<1>7. e = anchor + literals + match
  OBVIOUS
<1> HIDE DEF e
<1>5. Extra(e) <= Extra(SrcEnd)
  BY <1>1, <1>2, ExtraLe
<1>6. /\ Extra(literals) \in Nat /\ Extra(match) \in Nat /\ Extra(anchor) \in Nat
      /\ Extra(s) \in Nat /\ Extra(e) \in Nat /\ Extra(SrcEnd) \in Nat
  BY <1>1, <1>2, ExtraNat
<1>8. Margin >= 5 /\ Margin \in Nat
  BY Lz4Assumption
<1>9. room < SrcEnd + Extra(SrcEnd) + Margin
  <2> DEFINE la == Extra(literals)
             lm == Extra(match)
             lc == Extra(anchor)
             ls == Extra(s)
             le == Extra(e)
             lx == Extra(SrcEnd)
             n  == Len(stream)
  <2>1. lc + la <= ls /\ ls + lm <= le /\ le <= lx /\ n <= anchor + lc
    BY <1>1, <1>3, <1>4, <1>5
  <2>2. la \in Nat /\ lm \in Nat /\ lc \in Nat /\ ls \in Nat /\ le \in Nat /\ lx \in Nat /\ n \in Nat
    BY <1>1, <1>6
  <2>3. room < n + 1 + literals + 2 + la + lm + 2
    BY <1>1, <2>2
  <2> HIDE DEF la, lm, lc, ls, le, lx, n
  <2>4. room < SrcEnd + lx + Margin
    BY <1>1, <1>2, <1>7, <1>8, <2>1, <2>2, <2>3
  <2> QED BY <2>4 DEF lx
<1> QED BY <1>9, BoundIs

LEMMA TableSet ==
  ASSUME NEW table \in [Hashes -> 0 .. PosMod - 1], NEW h \in Hashes, NEW p \in Int
  PROVE  [table EXCEPT ![h] = p % PosMod] \in [Hashes -> 0 .. PosMod - 1]
<1>1. p % PosMod \in 0 .. PosMod - 1
  BY Sizes255
<1> QED BY <1>1

LEMMA HashOfFour ==
  ASSUME src \in Seq(Bytes), NEW p \in Nat, p + MinMatch <= SrcEnd
  PROVE  Hash(Four(p)) \in Hashes
<1>1. MinMatch = 4 /\ p + MinMatch \in Nat /\ p <= p + MinMatch
  BY Lz4Assumption
<1>2. Four(p) \in Seq(Bytes) /\ Len(Four(p)) = (p + MinMatch) - p
  BY <1>1, Part DEF Four, SrcEnd
<1>3. Len(Four(p)) = MinMatch
  BY <1>1, <1>2
<1>4. Four(p) \in [1 .. Len(Four(p)) -> Bytes]
  BY <1>2
<1>5. Four(p) \in [1 .. MinMatch -> Bytes]
  BY <1>3, <1>4
<1> QED BY <1>5, Lz4Assumption

LEMMA MatchKeeps ==
  ASSUME Lz4Inv, Match
  PROVE  Lz4Inv'
<1> DEFINE h   == Hash(Four(ip))
           ref == hash_table[h]
<1>1. PICK end \in ip + MinMatch .. SrcEnd :
        /\ MatchAt(ref, end)
        /\ hash_table' =
             IF end < MfLimit /\ pc' = "scan"
             THEN [hash_table EXCEPT ![h] = ip % PosMod,
                                     ![Hash(Four(end - 2))] = (end - 2) % PosMod]
             ELSE [hash_table EXCEPT ![h] = ip % PosMod]
  BY DEF Match, Scan
<1>2. pc = "scan" /\ ip < MfLimit /\ UNCHANGED <<src, room, size, out, overlapped>>
  BY DEF Match, Scan
<1>3. /\ src \in Seq(Bytes) /\ room \in Nat /\ stream \in Seq(Bytes)
      /\ SrcEnd \in Nat /\ Len(stream) \in Nat
      /\ ip \in Nat /\ anchor \in Nat /\ anchor <= ip /\ ip <= SrcEnd
      /\ hash_table \in [Hashes -> 0 .. PosMod - 1]
  BY <1>2 DEF Lz4Inv, Lz4TypeOK, SrcEnd
<1>4. MinMatch = 4
  BY Lz4Assumption
<1>5. end \in Nat /\ ip + 4 <= end /\ end <= SrcEnd
  BY <1>1, <1>3, <1>4
<1>6. h \in Hashes
  BY <1>2, <1>3, <1>4, HashOfFour DEF MfLimit
<1>7. ref \in Int
  BY <1>3, <1>6, Sizes255
<1>8. hash_table' \in [Hashes -> 0 .. PosMod - 1]
  <2> HIDE DEF h
  <2> DEFINE table == [hash_table EXCEPT ![h] = ip % PosMod]
  <2>1. table \in [Hashes -> 0 .. PosMod - 1]
    BY <1>3, <1>6, TableSet
  <2>2. CASE end < MfLimit
    <3> DEFINE q == end - 2
               g == Hash(Four(q))
    <3>1. q \in Nat /\ q + MinMatch <= SrcEnd
      BY <1>3, <1>4, <1>5, <2>2 DEF MfLimit
    <3>2. g \in Hashes
      BY <1>3, <3>1, HashOfFour
    <3>3. [hash_table EXCEPT ![h] = ip % PosMod, ![g] = q % PosMod] = [table EXCEPT ![g] = q % PosMod]
      BY Zenon
    <3>4. hash_table' = [table EXCEPT ![g] = q % PosMod] \/ hash_table' = table
      BY <1>1, <3>3, Zenon
    <3> HIDE DEF table, g, q
    <3>5. [table EXCEPT ![g] = q % PosMod] \in [Hashes -> 0 .. PosMod - 1]
      BY <2>1, <3>1, <3>2, TableSet
    <3> QED BY <2>1, <3>4, <3>5
  <2>3. CASE ~(end < MfLimit)
    BY <1>1, <2>1, <2>3
  <2> QED BY <2>2, <2>3
<1> DEFINE literals == ip - anchor
           match    == end - ip
<1>9. /\ literals \in Nat /\ match \in Nat /\ match >= MinMatch
      /\ anchor + literals = ip /\ anchor + literals + match = end
      /\ match - MinMatch \in Nat /\ literals + match \in Nat /\ end = anchor + (literals + match)
  BY <1>3, <1>4, <1>5
<1>10. CASE ~Fits(literals, match)
  <2>1. pc' = "no_room" /\ UNCHANGED <<ip, anchor, stream>>
    BY <1>1, <1>10 DEF MatchAt
  <2> HIDE DEF literals, match
  <2>2. Len(stream) + 1 + literals + 2 + Extra(literals) + Extra(match) + 2 > room
    <3>1. Extra(literals) \in Nat /\ Extra(match) \in Nat
      BY <1>9, ExtraNat
    <3>2. ~(Len(stream) + 1 + literals + 2 + Extra(literals) + Extra(match) + 2 <= room)
      BY <1>10, FitsIs
    <3> DEFINE n == Len(stream) + 1 + literals + 2 + Extra(literals) + Extra(match) + 2
    <3>3. n \in Nat
      BY <1>3, <1>9, <3>1
    <3> HIDE DEF n
    <3> QED BY <1>3, <3>2, <3>3 DEF n
  <2>3. room < Bound(SrcEnd)
    BY <1>2, <1>5, <1>9, <2>2, NoRoom DEF Compressing
  <2>4. room' < Bound(Len(src'))
    BY <1>2, <2>3 DEF SrcEnd, Bound
  <2> QED BY <1>2, <1>8, <2>1, <2>4
          DEF Lz4Inv, Lz4TypeOK, Compressing, InBounds, BoundSuffices, SrcEnd
<1>11. CASE Fits(literals, match)
  <2> DEFINE token == <<Token(literals, match - MinMatch)>>
             part  == Between(src, anchor, ip)
             off   == OffsetBytes(ip - ref)
             la    == LengthBytes(literals)
             lb    == LengthBytes(match - MinMatch)
  <2>1. /\ stream' = stream \o token \o la \o part \o off \o lb
        /\ ip' = end /\ anchor' = end /\ pc' = "scan"
    <3>1. match - MinMatch = end - ip - MinMatch
      OBVIOUS
    <3> QED BY <1>1, <1>2, <1>11 DEF MatchAt
  <2>2. token \in Seq(Bytes) /\ Len(token) = 1
    <3> HIDE DEF literals, match
    <3>1. Token(literals, match - MinMatch) \in Bytes
      BY <1>9, TokenIsByte
    <3> QED BY <3>1
  <2>3. la \in Seq(Bytes) /\ lb \in Seq(Bytes)
    <3> HIDE DEF literals, match
    <3> QED BY <1>9, LengthWritten
  <2>4. part \in Seq(Bytes) /\ Len(part) = literals
    <3>1. anchor <= ip /\ ip <= SrcEnd /\ anchor \in Nat /\ ip \in Nat
      BY <1>3
    <3> HIDE DEF literals
    <3> QED BY <1>3, <1>9, <3>1, PartOfSrc
  <2>5. off \in Seq(Bytes) /\ Len(off) = 2
    <3>1. ip - ref \in Int
      BY <1>3, <1>7
    <3> QED BY <3>1, OffsetIsBytes
  <2>6. SequenceLen(literals, match) = 1 + Len(la) + literals + 2 + Len(lb)
    BY DEF SequenceLen
  <2> HIDE DEF token, part, off, la, lb, literals, match, ref, h
  <2>7. /\ SequenceLen(literals, match) \in Nat
        /\ SequenceLen(literals, match) <= 1 + literals + 2 + Extra(literals) + Extra(match) + 2
        /\ SequenceLen(literals, match) <= literals + match + Extra(literals + match)
    BY <1>9, SequenceBounds
  <2>8. stream' \in Seq(Bytes) /\ Len(stream') = Len(stream) + SequenceLen(literals, match)
    <3>1. stream \o token \in Seq(Bytes) /\ Len(stream \o token) = Len(stream) + 1
      BY <1>3, <2>2, Joined
    <3> DEFINE one == stream \o token
               two == one \o la
               three == two \o part
               four == three \o off
    <3>2. stream' = four \o lb
      BY <2>1
    <3> HIDE DEF one
    <3>3. two \in Seq(Bytes) /\ Len(two) = Len(stream) + 1 + Len(la)
      BY <1>3, <2>3, <3>1, Joined DEF one
    <3> HIDE DEF two
    <3>4. three \in Seq(Bytes) /\ Len(three) = Len(stream) + 1 + Len(la) + literals
      <4>1. part \in Seq(Bytes) /\ Len(part) = literals
        BY <2>4
      <4> QED BY <3>3, <4>1, Joined
    <3> HIDE DEF three
    <3>5. four \in Seq(Bytes) /\ Len(four) = Len(stream) + 1 + Len(la) + literals + 2
      BY <1>3, <1>9, <2>3, <2>5, <3>4, Joined
    <3> HIDE DEF four
    <3>6. Len(la) \in Nat /\ Len(lb) \in Nat
      BY <2>3
    <3>7. stream' \in Seq(Bytes) /\ Len(stream') = Len(four) + Len(lb)
      BY <2>3, <3>2, <3>5, Joined
    <3> QED BY <1>3, <1>9, <2>6, <3>5, <3>6, <3>7
  <2>9. /\ Extra(literals) \in Nat /\ Extra(match) \in Nat /\ Extra(literals + match) \in Nat
        /\ Extra(anchor) \in Nat /\ Extra(end) \in Nat
    BY <1>3, <1>5, <1>9, ExtraNat
  <2>10. Len(stream') <= room
    <3> DEFINE x == Extra(literals)
               y == Extra(match)
               n == Len(stream)
               z == SequenceLen(literals, match)
    <3>1. Len(stream) + 1 + literals + 2 + Extra(literals) + Extra(match) + 2 <= room
      BY <1>11, FitsIs
    <3>2. n + 1 + literals + 2 + x + y + 2 <= room /\ z <= 1 + literals + 2 + x + y + 2 /\ z \in Nat
      BY <2>7, <3>1
    <3>3. n \in Nat /\ x \in Nat /\ y \in Nat /\ Len(stream') = n + z
      BY <1>3, <2>8, <2>9
    <3> HIDE DEF x, y, z, n
    <3> QED BY <1>3, <1>9, <3>2, <3>3
  <2>11. Len(stream') <= end + Extra(end)
    <3>1. Extra(anchor) + Extra(literals + match) <= Extra(end)
      BY <1>3, <1>9, ExtraSum
    <3>2. Len(stream) <= anchor + Extra(anchor)
      BY <1>2 DEF Lz4Inv, Compressing
    <3> DEFINE x == Extra(literals + match)
               y == Extra(anchor)
               e == Extra(end)
               n == Len(stream)
               z == SequenceLen(literals, match)
    <3>3. y + x <= e /\ n <= anchor + y /\ z <= literals + match + x /\ Len(stream') = n + z
      BY <2>7, <2>8, <3>1, <3>2
    <3>4. n \in Nat /\ x \in Nat /\ y \in Nat /\ z \in Nat /\ e \in Nat
      BY <1>3, <2>7, <2>9
    <3> HIDE DEF x, y, z, n, e
    <3>5. Len(stream') <= end + e
      BY <1>3, <1>5, <1>9, <3>3, <3>4
    <3> QED BY <3>5 DEF e
  <2>12. Compressing' => out' = <<>> /\ Len(stream') <= anchor' + Extra(anchor')
    BY <1>2, <2>1, <2>11 DEF Lz4Inv, Compressing
  <2>13. Lz4TypeOK'
    BY <1>2, <1>3, <1>5, <1>8, <2>1, <2>8 DEF Lz4Inv, Lz4TypeOK, SrcEnd
  <2> QED BY <1>2, <1>5, <2>1, <2>10, <2>12, <2>13
          DEF Lz4Inv, InBounds, BoundSuffices
<1> QED BY <1>10, <1>11

LEMMA LastRunKeeps ==
  ASSUME Lz4Inv, LastRun
  PROVE  Lz4Inv'
<1> DEFINE run == SrcEnd - anchor
<1>1. /\ pc = "last" /\ UNCHANGED <<src, room, anchor, hash_table, out, overlapped>>
      /\ IF Len(stream) + 1 + run + Extra(run) + 1 > room
         THEN pc' = "no_room" /\ UNCHANGED <<stream, ip, size>>
         ELSE /\ stream' = stream \o <<Token(run, 0)>> \o LengthBytes(run)
                                  \o Between(src, anchor, SrcEnd)
              /\ pc' = "decode" /\ ip' = 0 /\ size' = SrcEnd
  BY DEF LastRun, Extra
<1>2. /\ src \in Seq(Bytes) /\ room \in Nat /\ stream \in Seq(Bytes) /\ SrcEnd \in Nat
      /\ anchor \in Nat /\ anchor <= SrcEnd /\ Len(stream) \in Nat /\ ip \in Nat
  BY <1>1 DEF Lz4Inv, Lz4TypeOK, SrcEnd
<1>3. run \in Nat /\ anchor + run = SrcEnd
  BY <1>2
<1>4. Extra(run) \in Nat /\ Extra(0) \in Nat
  BY <1>3, ExtraNat
<1>5. CASE Len(stream) + 1 + run + Extra(run) + 1 > room
  <2> HIDE DEF run
  <2>1. Len(stream) + 1 + run + 2 + Extra(run) + Extra(0) + 2 > room
    BY <1>2, <1>3, <1>4, <1>5
  <2>2. anchor + run + 0 <= SrcEnd
    BY <1>2, <1>3
  <2>3. room < Bound(SrcEnd)
    BY <1>1, <1>3, <2>1, <2>2, NoRoom DEF Compressing
  <2>4. room' < Bound(Len(src'))
    BY <1>1, <2>3 DEF SrcEnd, Bound
  <2> QED BY <1>1, <1>5, <2>4 DEF Lz4Inv, Lz4TypeOK, Compressing, InBounds, BoundSuffices
<1>6. CASE ~(Len(stream) + 1 + run + Extra(run) + 1 > room)
  <2> DEFINE token == <<Token(run, 0)>>
             la    == LengthBytes(run)
             part  == Between(src, anchor, SrcEnd)
  <2>1. stream' = stream \o token \o la \o part /\ pc' = "decode" /\ ip' = 0 /\ size' = SrcEnd
    BY <1>1, <1>6
  <2>2. part \in Seq(Bytes) /\ Len(part) = run
    <3>1. src \in Seq(Bytes) /\ anchor \in Nat /\ SrcEnd \in Nat
            /\ anchor <= SrcEnd /\ SrcEnd <= SrcEnd
      BY <1>2
    <3> HIDE DEF run
    <3>2. run \in Nat /\ SrcEnd = anchor + run
      BY <1>3
    <3> QED BY <3>1, <3>2, PartOfSrc, Zenon
  <2> HIDE DEF part, run
  <2>3. token \in Seq(Bytes) /\ Len(token) = 1
    <3>1. Token(run, 0) \in Bytes
      BY <1>3, TokenIsByte
    <3> QED BY <3>1
  <2>4. la \in Seq(Bytes) /\ Len(la) <= Extra(run) + 1 /\ Len(la) \in Nat
    BY <1>3, LengthWritten
  <2> HIDE DEF token, la
  <2>5. stream' \in Seq(Bytes) /\ Len(stream') = Len(stream) + 1 + Len(la) + run
    <3> DEFINE one == stream \o token
               two == one \o la
    <3>1. one \in Seq(Bytes) /\ Len(one) = Len(stream) + 1
      BY <1>2, <2>3, Joined
    <3>2. stream' = two \o part
      BY <2>1
    <3> HIDE DEF one
    <3>3. two \in Seq(Bytes) /\ Len(two) = Len(stream) + 1 + Len(la)
      BY <1>2, <2>4, <3>1, Joined
    <3> HIDE DEF two
    <3> QED BY <1>2, <1>3, <2>2, <2>4, <3>2, <3>3, Joined
  <2>6. Len(stream') <= room
    BY <1>2, <1>3, <1>4, <1>6, <2>4, <2>5
  <2>7. out' = <<>>
    BY <1>1 DEF Lz4Inv, Compressing
  <2> QED BY <1>1, <1>2, <2>1, <2>5, <2>6, <2>7 DEF Lz4Inv, Lz4TypeOK, Compressing, InBounds, BoundSuffices
<1> QED BY <1>5, <1>6

----------------------------------------------------------------------------
(* lz4_decompress *)

LEMMA ByteRead ==
  ASSUME NEW b \in Seq(Bytes), NEW p \in 1 .. Len(b)
  PROVE  b[p] \in Nat
<1>1. b[p] \in Bytes
  OBVIOUS
<1> QED BY <1>1 DEF Bytes

LEMMA LengthRead ==
  ASSUME NEW b \in Seq(Bytes), NEW p \in Nat, p <= Len(b), NEW nibble \in Nat,
         NEW end \in LengthEnds(b, p, nibble)
  PROVE  /\ end \in Nat /\ p <= end /\ end <= Len(b)
         /\ LengthAt(b, p, nibble, end) \in Nat
<1>1. CASE nibble < RunMask
  BY <1>1, Sizes255 DEF LengthEnds, LengthAt
<1>2. CASE ~(nibble < RunMask)
  <2>1. end \in p + 1 .. Len(b) /\ Len(b) \in Nat
    BY <1>2 DEF LengthEnds
  <2>2. end \in Nat /\ p < end /\ end <= Len(b) /\ end \in 1 .. Len(b)
    BY <2>1
  <2>6. b[end] \in Nat
    BY <2>2, ByteRead
  <2> DEFINE n == end - p - 1
  <2>3. n \in Nat
    BY <2>2
  <2> HIDE DEF n
  <2>4. n * ByteMax \in Nat
    BY <2>3, Sizes255
  <2>5. LengthAt(b, p, nibble, end) = nibble + n * ByteMax + b[end]
    BY <1>2 DEF LengthAt, n
  <2> QED BY <2>2, <2>4, <2>5, <2>6
<1> QED BY <1>1, <1>2

LEMMA Copied ==
  ASSUME NEW S, NEW from \in Seq(S), NEW offset \in 1 .. Len(from), NEW length \in Nat
  PROVE  /\ CopyBytes(from, offset, length) \in Seq(S)
         /\ Len(CopyBytes(from, offset, length)) = Len(from) + length
<1>1. Len(from) \in Nat /\ Len(from) + length \in Nat /\ offset \in Nat \ {0} /\ offset <= Len(from)
  OBVIOUS
<1>2. ASSUME NEW i \in 1 .. Len(from) + length, ~(i <= Len(from))
      PROVE  Len(from) - offset + 1 + ((i - Len(from) - 1) % offset) \in 1 .. Len(from)
  <2> DEFINE r == (i - Len(from) - 1) % offset
  <2>1. r \in 0 .. offset - 1
    BY <1>1
  <2> HIDE DEF r
  <2>2. Len(from) - offset + 1 + r \in 1 .. Len(from)
    BY <1>1, <2>1
  <2> QED BY <2>2 DEF r
<1>3. \A i \in 1 .. Len(from) + length :
        (IF i <= Len(from) THEN from[i]
         ELSE from[Len(from) - offset + 1 + ((i - Len(from) - 1) % offset)]) \in S
  <2> TAKE i \in 1 .. Len(from) + length
  <2>1. CASE i <= Len(from)
    BY <1>1, <2>1
  <2>2. CASE ~(i <= Len(from))
    BY <1>2, <2>2
  <2> QED BY <2>1, <2>2
<1>4. \A n \in Nat : \A f \in [1 .. n -> S] : f \in Seq(S) /\ Len(f) = n
  OBVIOUS
<1>5. CopyBytes(from, offset, length) \in [1 .. Len(from) + length -> S]
  BY <1>3 DEF CopyBytes
<1> QED BY <1>1, <1>4, <1>5

Text == Bytes \cup {Garbage}

LEMMA MatchCopied ==
  ASSUME NEW from \in Seq(Text), NEW offset \in 1 .. Len(from), NEW length \in Nat,
         overlapped \in BOOLEAN, CopyMatch(from, offset, length)
  PROVE  out' \in Seq(Text) /\ Len(out') = Len(from) + length /\ overlapped' \in BOOLEAN
<1>1. CASE out' = CopyBytes(from, offset, length)
  <2>1. overlapped' \in BOOLEAN
    BY Zenon DEF CopyMatch
  <2> QED BY <1>1, <2>1, Copied
<1>2. CASE /\ offset < length /\ overlapped' = TRUE
           /\ out' = Between(CopyBytes(from, offset, offset), 0, Len(from) + offset)
                       \o [i \in 1 .. length - offset |-> Garbage]
  <2> DEFINE whole == CopyBytes(from, offset, offset)
             head  == Between(whole, 0, Len(from) + offset)
             tail  == [i \in 1 .. length - offset |-> Garbage]
  <2>1. offset \in Nat /\ length - offset \in Nat /\ Len(from) \in Nat /\ Len(from) + offset \in Nat
    BY <1>2
  <2>2. whole \in Seq(Text) /\ Len(whole) = Len(from) + offset
    BY <2>1, Copied
  <2> HIDE DEF whole
  <2>3. head \in Seq(Text) /\ Len(head) = Len(from) + offset
    <3> DEFINE q == Len(from) + offset
    <3>1. q \in Nat /\ 0 <= q /\ q <= Len(whole) /\ q - 0 = q
      BY <2>1, <2>2
    <3> HIDE DEF q
    <3>2. Between(whole, 0, q) \in Seq(Text) /\ Len(Between(whole, 0, q)) = q
      BY <2>2, <3>1, Part
    <3> QED BY <3>2 DEF q
  <2> HIDE DEF head
  <2>4. tail \in Seq(Text) /\ Len(tail) = length - offset
    BY <2>1 DEF Text
  <2>5. out' = head \o tail
    BY <1>2 DEF head, whole
  <2> HIDE DEF tail
  <2>6. out' \in Seq(Text) /\ Len(out') = Len(head) + Len(tail)
    BY <2>3, <2>4, <2>5, Joined
  <2>7. Len(out') = Len(from) + length
    BY <2>1, <2>3, <2>4, <2>6
  <2> QED BY <1>2, <2>6, <2>7
<1> QED BY <1>1, <1>2 DEF CopyMatch

LEMMA SequenceKeeps ==
  ASSUME Lz4Inv, Sequence
  PROVE  Lz4Inv'
<1>1. /\ pc = "decode" /\ ip < Len(stream) /\ UNCHANGED <<src, room, anchor, hash_table, stream, size>>
  BY DEF Sequence
<1>2. /\ stream \in Seq(Bytes) /\ Len(stream) \in Nat /\ ip \in Nat /\ size \in Nat
      /\ out \in Seq(Text) /\ Len(out) <= size /\ overlapped \in BOOLEAN
  BY DEF Lz4Inv, Lz4TypeOK, InBounds, Text
<1>3. ASSUME pc' \in {"decode", "corrupt", "done"}, ip' \in Nat, ip' <= Len(stream),
             overlapped' \in BOOLEAN,
             out' \in Seq(Text), Len(out') <= size
      PROVE  Lz4Inv'
  BY <1>1, <1>3 DEF Lz4Inv, Lz4TypeOK, Compressing, InBounds, BoundSuffices, Text, SrcEnd
<1>4. CASE Corrupt
  BY <1>1, <1>2, <1>3, <1>4 DEF Corrupt
<1> DEFINE token    == stream[ip + 1]
           literals == token \div (RunMask + 1)
           match    == token % (RunMask + 1)
<1>5. literals \in Nat /\ match \in Nat
  <2>1. token \in Nat /\ RunMask + 1 \in Nat \ {0}
    BY <1>1, <1>2, Sizes255 DEF Bytes
  <2> HIDE DEF token
  <2> QED BY <2>1, DivIs
<1>6. CASE ~Corrupt
  <2>1. PICK end \in LengthEnds(stream, ip + 1, literals) :
          LET length == LengthAt(stream, ip + 1, literals, end)
          IN  /\ ~(end + length > Len(stream) \/ Len(out) + length > size)
              /\ AfterLiterals(match, end + length, out \o Between(stream, end, end + length))
    BY <1>6 DEF Sequence
  <2> DEFINE length == LengthAt(stream, ip + 1, literals, end)
             p      == end + length
             copied == out \o Between(stream, end, p)
  <2>2. end \in Nat /\ length \in Nat
    <3> HIDE DEF literals
    <3> QED BY <1>1, <1>2, <1>5, LengthRead
  <2>3. p \in Nat /\ end <= p /\ p <= Len(stream) /\ Len(out) + length <= size /\ p - end = length
    <3>1. ~(end + length > Len(stream)) /\ ~(Len(out) + length > size)
      BY <2>1
    <3>2. Len(out) \in Nat
      BY <1>2
    <3> HIDE DEF length
    <3> QED BY <1>2, <2>2, <3>1, <3>2
  <2>4. AfterLiterals(match, p, copied)
    BY <2>1
  <2> HIDE DEF p, length, literals, match
  <2>5. copied \in Seq(Text) /\ Len(copied) = Len(out) + length
    <3>1. Between(stream, end, p) \in Seq(Bytes) /\ Len(Between(stream, end, p)) = length
      BY <1>2, <2>2, <2>3, Part
    <3>2. Between(stream, end, p) \in Seq(Text)
      BY <3>1 DEF Text
    <3> QED BY <1>2, <3>1, <3>2, Joined
  <2> HIDE DEF copied
  <2>6. Len(copied) \in Nat /\ Len(copied) <= size
    BY <2>3, <2>5
  <2>7. CASE Len(copied) = size
    BY <1>2, <1>3, <2>3, <2>4, <2>5, <2>7 DEF AfterLiterals
  <2>8. CASE Len(copied) # size
    <3> DEFINE offset == Offset(stream, p)
    <3>1. p + 2 <= Len(stream)
      BY <1>2, <1>6, <2>3, <2>4, <2>8 DEF AfterLiterals
    <3>2. PICK last \in LengthEnds(stream, p + 2, match) :
            LET n == MinMatch + LengthAt(stream, p + 2, match, last)
            IN  /\ ~(offset = 0 \/ offset > Len(copied)) /\ ~(Len(copied) + n > size)
                /\ CopyMatch(copied, offset, n) /\ ip' = last /\ UNCHANGED pc
      BY <1>2, <1>6, <2>3, <2>4, <2>8, <3>1 DEF AfterLiterals
    <3> DEFINE n == MinMatch + LengthAt(stream, p + 2, match, last)
    <3>3. last \in Nat /\ last <= Len(stream) /\ n \in Nat
      <4>1. LengthAt(stream, p + 2, match, last) \in Nat /\ last \in Nat /\ last <= Len(stream)
        BY <1>2, <1>5, <2>3, <3>1, LengthRead
      <4>2. MinMatch \in Nat
        BY MinMatchNat
      <4> QED BY <4>1, <4>2
    <3>4. offset \in 1 .. Len(copied)
      <4>1. stream[p + 1] \in Nat /\ stream[p + 2] \in Nat
        <5>1. p + 1 \in 1 .. Len(stream) /\ p + 2 \in 1 .. Len(stream)
          BY <1>2, <2>3, <3>1
        <5> QED BY <1>2, <5>1, ByteRead
      <4>2. offset \in Nat
        BY <4>1, Sizes255 DEF Offset
      <4>3. ~(offset = 0 \/ offset > Len(copied))
        BY <3>2
      <4> HIDE DEF offset
      <4> QED BY <2>6, <4>2, <4>3
    <3>5. ~(Len(copied) + n > size) /\ CopyMatch(copied, offset, n) /\ ip' = last /\ UNCHANGED pc
      BY <3>2
    <3> HIDE DEF offset, n
    <3>6. out' \in Seq(Text) /\ Len(out') = Len(copied) + n /\ overlapped' \in BOOLEAN
      BY <1>2, <2>5, <3>3, <3>4, <3>5, MatchCopied
    <3>7. Len(out') <= size
      BY <1>2, <2>6, <3>3, <3>5, <3>6
    <3> QED BY <1>1, <1>3, <3>3, <3>5, <3>6, <3>7
  <2> QED BY <2>7, <2>8
<1> QED BY <1>4, <1>6

----------------------------------------------------------------------------
(* Every step. *)

LEMMA InitLz4 == Lz4Init => Lz4Inv
<1> SUFFICES ASSUME Lz4Init PROVE Lz4Inv
  OBVIOUS
<1>1. /\ pc = "idle" /\ src = <<>> /\ room = 0 /\ ip = 0 /\ anchor = 0 /\ stream = <<>>
      /\ size = 0 /\ out = <<>> /\ overlapped = FALSE /\ hash_table = [h \in Hashes |-> 0]
  BY DEF Lz4Init, Idle
<1>2. hash_table \in [Hashes -> 0 .. PosMod - 1]
  BY <1>1, Sizes255
<1>3. <<>> \in Seq(Bytes) /\ <<>> \in Seq(Bytes \cup {Garbage}) /\ Len(<<>>) = 0
  OBVIOUS
<1>4. Lz4TypeOK
  BY <1>1, <1>2, <1>3 DEF Lz4TypeOK
<1> QED BY <1>1, <1>3, <1>4 DEF Lz4Inv, Compressing, InBounds, BoundSuffices

LEMMA CallKeeps ==
  ASSUME Lz4Inv, Call
  PROVE  Lz4Inv'
<1>1. pc = "idle" /\ src = <<>> /\ ip = 0 /\ anchor = 0 /\ stream = <<>> /\ out = <<>> /\ size \in Nat
  BY DEF Call, Lz4Inv, Lz4TypeOK
<1>2. CASE \E block \in Blocks : \E capacity \in Rooms(Len(block)) : Compress(block, capacity)
  <2>1. PICK block \in Blocks : \E capacity \in Rooms(Len(block)) : Compress(block, capacity)
    BY <1>2
  <2>2. PICK capacity \in Rooms(Len(block)) : Compress(block, capacity)
    BY <2>1
  <2>3. block \in Seq(Bytes) /\ capacity \in Nat /\ Len(block) \in Nat
    BY Lz4Assumption
  <2>4. /\ src' = block /\ room' = capacity /\ pc' \in {"scan", "last"}
        /\ UNCHANGED <<anchor, hash_table, stream, size, out, overlapped>>
        /\ ip' \in 0 .. Len(block)
    <3>1. MinMatch \in Nat /\ LastLiterals \in Nat
      BY Lz4Assumption
    <3> QED BY <1>1, <2>2, <2>3, <3>1 DEF Compress
  <2>5. Extra(0) \in Nat
    BY ExtraNat
  <2>6. Lz4TypeOK'
    BY <1>1, <2>3, <2>4 DEF Lz4Inv, Lz4TypeOK, SrcEnd
  <2>7. Compressing' => out' = <<>> /\ Len(stream') <= anchor' + Extra(anchor')
    BY <1>1, <2>4, <2>5
  <2>8. InBounds' /\ BoundSuffices'
    BY <1>1, <2>3, <2>4 DEF InBounds, BoundSuffices
  <2> QED BY <1>1, <2>3, <2>4, <2>6, <2>7, <2>8 DEF Lz4Inv
<1>3. CASE \E bytes \in Streams, original_size \in Sizes : Decompress(bytes, original_size)
  <2>1. PICK bytes \in Streams, original_size \in Sizes : Decompress(bytes, original_size)
    BY <1>3
  <2>2. bytes \in Seq(Bytes) /\ original_size \in Nat
    BY Lz4Assumption
  <2>3. /\ stream' = bytes /\ size' = original_size /\ pc' = "decode"
        /\ UNCHANGED <<src, room, ip, anchor, hash_table, out, overlapped>>
    BY <2>1 DEF Decompress
  <2>4. ip' <= Len(stream')
    BY <1>1, <2>2, <2>3
  <2> QED BY <1>1, <2>2, <2>3, <2>4 DEF Lz4Inv, Lz4TypeOK, Compressing, InBounds, BoundSuffices
<1> QED BY <1>2, <1>3 DEF Call

LEMMA NextLz4 == Lz4Inv /\ [Lz4Next]_lz4Vars => Lz4Inv'
<1> SUFFICES ASSUME Lz4Inv, [Lz4Next]_lz4Vars PROVE Lz4Inv'
  OBVIOUS
<1>1. CASE Call
  BY <1>1, CallKeeps
<1>2. CASE NoMatch
  <2> DEFINE h == Hash(Four(ip))
  <2>1. /\ pc = "scan" /\ ip < MfLimit /\ UNCHANGED <<src, room, size, out, overlapped>>
        /\ hash_table' = [hash_table EXCEPT ![h] = ip % PosMod]
        /\ ip' = ip + 1 /\ UNCHANGED <<pc, anchor, stream>>
    BY <1>2 DEF NoMatch, Scan
  <2>2. /\ src \in Seq(Bytes) /\ SrcEnd \in Nat /\ ip \in Nat /\ anchor \in Nat /\ anchor <= ip
        /\ hash_table \in [Hashes -> 0 .. PosMod - 1] /\ MinMatch = 4
    <3>1. /\ src \in Seq(Bytes) /\ ip \in Nat /\ anchor \in Nat /\ anchor <= ip
          /\ hash_table \in [Hashes -> 0 .. PosMod - 1]
      BY <2>1 DEF Lz4Inv, Lz4TypeOK
    <3>2. SrcEnd \in Nat
      BY <3>1 DEF SrcEnd
    <3>3. MinMatch = 4
      BY Lz4Assumption
    <3> QED BY <3>1, <3>2, <3>3
  <2>3. ip + MinMatch <= SrcEnd /\ ip + 1 <= SrcEnd
    BY <2>1, <2>2 DEF MfLimit
  <2>4. h \in Hashes
    BY <2>2, <2>3, HashOfFour
  <2> HIDE DEF h
  <2>5. hash_table' \in [Hashes -> 0 .. PosMod - 1]
    BY <2>1, <2>2, <2>4, TableSet
  <2>6. SrcEnd' = SrcEnd
    BY <2>1 DEF SrcEnd
  <2> QED BY <2>1, <2>2, <2>3, <2>5, <2>6
          DEF Lz4Inv, Lz4TypeOK, Compressing, InBounds, BoundSuffices
<1>3. CASE Match
  BY <1>3, MatchKeeps
<1>4. CASE ScanEnds
  BY <1>4 DEF ScanEnds, Lz4Inv, Lz4TypeOK, Compressing, InBounds, BoundSuffices, SrcEnd
<1>5. CASE LastRun
  BY <1>5, LastRunKeeps
<1>6. CASE Sequence
  BY <1>6, SequenceKeeps
<1>7. CASE StreamEnds
  BY <1>7 DEF StreamEnds, Lz4Inv, Lz4TypeOK, Compressing, InBounds, BoundSuffices, SrcEnd
<1>8. CASE Return
  <2>1. /\ pc' = "idle" /\ src' = <<>> /\ room' = 0 /\ ip' = 0 /\ anchor' = 0 /\ stream' = <<>>
        /\ size' = 0 /\ out' = <<>> /\ overlapped' = FALSE /\ hash_table' = [h \in Hashes |-> 0]
    BY <1>8 DEF Return
  <2>2. hash_table' \in [Hashes -> 0 .. PosMod - 1]
    BY <2>1, Sizes255
  <2>3. <<>> \in Seq(Bytes) /\ <<>> \in Seq(Bytes \cup {Garbage}) /\ Len(<<>>) = 0
    OBVIOUS
  <2>4. Lz4TypeOK'
    BY <2>1, <2>2, <2>3 DEF Lz4TypeOK
  <2> QED BY <2>1, <2>3, <2>4 DEF Lz4Inv, Compressing, InBounds, BoundSuffices
<1>9. CASE UNCHANGED lz4Vars
  BY <1>9 DEF lz4Vars, Lz4Inv, Lz4TypeOK, Compressing, InBounds, BoundSuffices, SrcEnd
<1> QED BY <1>1, <1>2, <1>3, <1>4, <1>5, <1>6, <1>7, <1>8, <1>9 DEF Lz4Next, Lz4Step

(* The positions and lengths of both loops stay in their ranges, in every reachable
   state of lz4_compress and lz4_decompress. *)
THEOREM Lz4Invariance == Lz4Spec => []Lz4Inv
<1> QED BY InitLz4, NextLz4, PTL DEF Lz4Spec

(* What both functions write are bytes, the pointers of the compressor stay in order and in
   its block (lz4_block.c:57-144), and that of the decompressor in its stream, however it is
   cut or damaged (lz4_block.c:151-219). *)
THEOREM Lz4TypeCorrect == Lz4Spec => []Lz4TypeOK
<1>1. Lz4Inv => Lz4TypeOK
  BY DEF Lz4Inv
<1> QED BY <1>1, Lz4Invariance, PTL

(* Neither function writes past the end of its destination, whatever it is given. *)
THEOREM NeverOverruns == Lz4Spec => []InBounds
<1>1. Lz4Inv => InBounds
  BY DEF Lz4Inv
<1> QED BY <1>1, Lz4Invariance, PTL

(* A destination of lz4_compress_bound bytes is never too small. *)
THEOREM BoundIsEnough == Lz4Spec => []BoundSuffices
<1>1. Lz4Inv => BoundSuffices
  BY DEF Lz4Inv
<1> QED BY <1>1, Lz4Invariance, PTL

----------------------------------------------------------------------------
(***************************************************************************)
(* What the two functions agree on: the places of a stream, and what is    *)
(* read there.  A match that reaches into what it writes repeats a period; *)
(* the first place where it would not does not exist (Least, Periodic).    *)
(***************************************************************************)
LEMMA Least ==
  ASSUME NEW T \in SUBSET Nat, T # {}
  PROVE  \E x \in T : \A y \in T : x <= y
<1> DEFINE R == OpToRel(<, Nat)
<1>1. IsWellFoundedOn(R, Nat)
  BY NatLessThanWellFounded
<1> HIDE DEF R
<1>2. PICK x \in T : \A y \in T : ~(<<y, x>> \in R)
  BY <1>1, WFMin
<1>3. \A y \in T : ~(y < x)
  BY <1>2 DEF R, OpToRel
<1> QED BY <1>3

LEMMA DivModIs ==
  ASSUME NEW b \in Nat \ {0}, NEW a \in Nat
  PROVE  /\ a \div b \in Nat /\ a % b \in 0 .. b - 1
         /\ a = b * (a \div b) + (a % b)
OBVIOUS

(* A quotient and a remainder are known by what they make. *)
LEMMA DivModUnique ==
  ASSUME NEW b \in Nat \ {0}, NEW q \in Nat, NEW r \in 0 .. b - 1
  PROVE  (b * q + r) \div b = q /\ (b * q + r) % b = r
<1> DEFINE a == b * q + r
<1>1. a \in Nat
  OBVIOUS
<1>2. a = b * q + r /\ b * q \in Nat
  OBVIOUS
<1> HIDE DEF a
<1> DEFINE d == a \div b
           m == a % b
<1>3. d \in Nat /\ m \in 0 .. b - 1 /\ a = b * d + m
  BY <1>1, DivModIs
<1> HIDE DEF d, m
<1>4. ~(d >= q + 1)
  <2>1. SUFFICES ASSUME d >= q + 1 PROVE FALSE
    OBVIOUS
  <2>2. b * d >= b * (q + 1)
    BY <1>3, <2>1
  <2>3. b * (q + 1) = b * q + b
    OBVIOUS
  <2> QED BY <1>2, <1>3, <2>2, <2>3
<1>5. ~(q >= d + 1)
  <2>1. SUFFICES ASSUME q >= d + 1 PROVE FALSE
    OBVIOUS
  <2>2. b * q >= b * (d + 1)
    BY <1>3, <2>1
  <2>3. b * (d + 1) = b * d + b
    BY <1>3
  <2> QED BY <1>2, <1>3, <2>2, <2>3
<1>6. d = q
  BY <1>3, <1>4, <1>5
<1>7. m = r
  BY <1>2, <1>3, <1>6
<1> QED BY <1>6, <1>7 DEF a, d, m

LEMMA ModBack ==
  ASSUME NEW o \in Nat \ {0}, NEW j \in Nat, j >= o
  PROVE  (j - o) % o = j % o
<1> DEFINE i == j - o
           q == i \div o
           r == i % o
<1>1. i \in Nat /\ j = i + o
  OBVIOUS
<1> HIDE DEF i
<1>2. q \in Nat /\ r \in 0 .. o - 1 /\ i = o * q + r
  BY <1>1, DivModIs
<1> HIDE DEF q, r
<1>3. j = o * (q + 1) + r
  <2>1. o * (q + 1) = o * q + o
    BY <1>2
  <2> QED BY <1>1, <1>2, <2>1
<1>4. j % o = r
  BY <1>2, <1>3, DivModUnique
<1> QED BY <1>4 DEF r, i

LEMMA ModSmall ==
  ASSUME NEW o \in Nat \ {0}, NEW j \in Nat, j < o
  PROVE  j % o = j
OBVIOUS

(* From L to L + n, f is what it was o places before. *)
Repeats(f, o, L, n) == \A p \in L .. L + n - 1 : f[p + 1] = f[p - o + 1]

(* The n places from L are the o places before L, over and over. *)
Loops(f, o, L, n) == \A j \in 0 .. n - 1 : f[L + j + 1] = f[L - o + 1 + (j % o)]

LEMMA Periodic ==
  ASSUME NEW f, NEW o \in Nat \ {0}, NEW L \in Nat, o <= L, NEW n \in Nat,
         Repeats(f, o, L, n)
  PROVE  Loops(f, o, L, n)
<1> DEFINE T == {x \in 0 .. n - 1 : f[L + x + 1] # f[L - o + 1 + (x % o)]}
<1>1. SUFFICES ASSUME T # {} PROVE FALSE
  BY DEF Loops
<1>2. PICK j \in T : \A k \in T : j <= k
  <2>1. T \in SUBSET Nat
    OBVIOUS
  <2> HIDE DEF T
  <2> QED BY <1>1, <2>1, Least
<1>3. j \in 0 .. n - 1 /\ f[L + j + 1] # f[L - o + 1 + (j % o)]
  OBVIOUS
<1>4. f[L + j + 1] = f[L + j - o + 1]
  <2>1. L + j \in L .. L + n - 1
    BY <1>3
  <2> QED BY <2>1 DEF Repeats
<1>5. CASE j < o
  <2>1. j \in Nat /\ j < o
    BY <1>3, <1>5
  <2>2. j % o = j
    BY <2>1, ModSmall
  <2>3. L - o + 1 + j = L + j - o + 1
    BY <2>1
  <2> QED BY <1>3, <1>4, <2>2, <2>3
<1>6. CASE j >= o
  <2> DEFINE k == j - o
  <2>1. k \in 0 .. n - 1 /\ ~(j <= k)
    BY <1>3, <1>6
  <2>2. k \notin T
    BY <1>2, <2>1
  <2>3. f[L + k + 1] = f[L - o + 1 + (k % o)]
    BY <2>1, <2>2
  <2>4. k % o = j % o
    <3>1. o \in Nat \ {0} /\ j \in Nat /\ j >= o
      BY <1>3, <1>6
    <3> HIDE DEF T
    <3> QED BY <3>1, ModBack
  <2>5. L + k + 1 = L + j - o + 1
    BY <1>3
  <2> HIDE DEF T, k
  <2> QED BY <1>3, <1>4, <2>3, <2>4, <2>5
<1> QED BY <1>3, <1>5, <1>6

----------------------------------------------------------------------------
(* The bytes x are at p of b. *)
Holds(b, p, x) == p + Len(x) <= Len(b) /\ \A k \in 1 .. Len(x) : b[p + k] = x[k]

LEMMA HoldsLast ==
  ASSUME NEW b \in Seq(Bytes), NEW x \in Seq(Bytes)
  PROVE  Holds(b \o x, Len(b), x)
BY DEF Holds

(* b is the beginning of c. *)
Begins(b, c) == Len(b) <= Len(c) /\ \A k \in 1 .. Len(b) : c[k] = b[k]

LEMMA HoldsMore ==
  ASSUME NEW b \in Seq(Bytes), NEW c \in Seq(Bytes), Begins(b, c),
         NEW x, Len(x) \in Nat, NEW p \in Nat, Holds(b, p, x)
  PROVE  Holds(c, p, x)
<1>1. \A k \in 1 .. Len(x) : p + k \in 1 .. Len(b)
  BY DEF Holds
<1> QED BY <1>1 DEF Holds, Begins

LEMMA BeginsJoined ==
  ASSUME NEW b \in Seq(Bytes), NEW x \in Seq(Bytes)
  PROVE  Begins(b, b \o x) /\ b \o x \in Seq(Bytes) /\ Len(b \o x) = Len(b) + Len(x)
BY DEF Begins

LEMMA BeginsOn ==
  ASSUME NEW b \in Seq(Bytes), NEW c \in Seq(Bytes), NEW d \in Seq(Bytes), Begins(b, c), Begins(c, d)
  PROVE  Begins(b, d)
BY DEF Begins

(* x, y and z follow b in c, and nothing else does. *)
Follow(c, b, x, y, z) ==
  /\ c \in Seq(Bytes) /\ Begins(b, c) /\ Len(c) = Len(b) + Len(x) + Len(y) + Len(z)
  /\ Holds(c, Len(b), x) /\ Holds(c, Len(b) + Len(x), y)
  /\ Holds(c, Len(b) + Len(x) + Len(y), z)

LEMMA ThreePieces ==
  ASSUME NEW b \in Seq(Bytes), NEW x \in Seq(Bytes), NEW y \in Seq(Bytes), NEW z \in Seq(Bytes)
  PROVE  Follow(b \o x \o y \o z, b, x, y, z)
<1> DEFINE one == b \o x
           two == one \o y
           c   == two \o z
<1>1. one \in Seq(Bytes) /\ Len(one) = Len(b) + Len(x) /\ Begins(b, one) /\ Holds(one, Len(b), x)
  BY BeginsJoined, HoldsLast
<1>2. c = two \o z /\ Len(b) \in Nat /\ Len(x) \in Nat /\ Len(y) \in Nat
  OBVIOUS
<1> HIDE DEF one
<1>3. two \in Seq(Bytes) /\ Len(two) = Len(one) + Len(y) /\ Begins(one, two) /\ Holds(two, Len(one), y)
  BY <1>1, BeginsJoined, HoldsLast
<1> HIDE DEF two
<1>4. c \in Seq(Bytes) /\ Len(c) = Len(two) + Len(z) /\ Begins(two, c) /\ Holds(c, Len(two), z)
  BY <1>3, BeginsJoined, HoldsLast
<1> HIDE DEF c
<1>5. Begins(b, two) /\ Begins(b, c) /\ Begins(one, c)
  BY <1>1, <1>3, <1>4, BeginsOn
<1>6. Holds(c, Len(b), x)
  BY <1>1, <1>2, <1>4, <1>5, HoldsMore
<1>7. Holds(c, Len(one), y)
  <2>1. Len(one) \in Nat
    BY <1>1
  <2> QED BY <1>2, <1>3, <1>4, <2>1, HoldsMore
<1>8. Follow(c, b, x, y, z)
  BY <1>1, <1>3, <1>4, <1>5, <1>6, <1>7 DEF Follow
<1> QED BY <1>8 DEF c, two, one

FollowFive(c, b, x, y, z, v, w) ==
  /\ c \in Seq(Bytes) /\ Begins(b, c)
  /\ Len(c) = Len(b) + Len(x) + Len(y) + Len(z) + Len(v) + Len(w)
  /\ Holds(c, Len(b), x) /\ Holds(c, Len(b) + Len(x), y)
  /\ Holds(c, Len(b) + Len(x) + Len(y), z)
  /\ Holds(c, Len(b) + Len(x) + Len(y) + Len(z), v)
  /\ Holds(c, Len(b) + Len(x) + Len(y) + Len(z) + Len(v), w)

LEMMA FivePieces ==
  ASSUME NEW b \in Seq(Bytes), NEW x \in Seq(Bytes), NEW y \in Seq(Bytes), NEW z \in Seq(Bytes),
         NEW v \in Seq(Bytes), NEW w \in Seq(Bytes)
  PROVE  FollowFive(b \o x \o y \o z \o v \o w, b, x, y, z, v, w)
<1> DEFINE three == b \o x \o y \o z
           four  == three \o v
           c     == four \o w
<1>1. /\ Len(b) \in Nat /\ Len(x) \in Nat /\ Len(y) \in Nat /\ Len(z) \in Nat /\ Len(v) \in Nat
  OBVIOUS
<1> HIDE DEF three
<1>2. /\ three \in Seq(Bytes) /\ Begins(b, three) /\ Len(three) = Len(b) + Len(x) + Len(y) + Len(z)
      /\ Holds(three, Len(b), x) /\ Holds(three, Len(b) + Len(x), y)
      /\ Holds(three, Len(b) + Len(x) + Len(y), z)
  <2>1. Follow(three, b, x, y, z)
    BY ThreePieces DEF three
  <2> QED BY <2>1 DEF Follow
<1>3. four \in Seq(Bytes) /\ Len(four) = Len(three) + Len(v) /\ Begins(three, four)
        /\ Holds(four, Len(three), v)
  BY <1>2, BeginsJoined, HoldsLast
<1> HIDE DEF four
<1>4. c \in Seq(Bytes) /\ Len(c) = Len(four) + Len(w) /\ Begins(four, c) /\ Holds(c, Len(four), w)
  <2>1. Begins(four, four \o w) /\ four \o w \in Seq(Bytes) /\ Len(four \o w) = Len(four) + Len(w)
    BY <1>3, BeginsJoined
  <2>2. Holds(four \o w, Len(four), w)
    BY <1>3, HoldsLast
  <2> QED BY <2>1, <2>2
<1> HIDE DEF c
<1>5. Begins(three, c) /\ Begins(b, c)
  BY <1>2, <1>3, <1>4, BeginsOn
<1>6. Len(b) + Len(x) \in Nat /\ Len(b) + Len(x) + Len(y) \in Nat /\ Len(three) \in Nat
  BY <1>2, <1>1
<1>7. /\ Holds(c, Len(b), x) /\ Holds(c, Len(b) + Len(x), y)
      /\ Holds(c, Len(b) + Len(x) + Len(y), z)
  BY <1>2, <1>1, <1>4, <1>5, <1>6, HoldsMore
<1>8. Holds(c, Len(three), v)
  BY <1>1, <1>3, <1>4, <1>6, HoldsMore
<1>9. FollowFive(c, b, x, y, z, v, w)
  BY <1>2, <1>3, <1>4, <1>5, <1>7, <1>8 DEF FollowFive
<1> QED BY <1>9 DEF c, four, three

LEMMA BetweenHeld ==
  ASSUME NEW b \in Seq(Bytes), NEW p \in Nat, NEW x \in Seq(Bytes), Holds(b, p, x)
  PROVE  Between(b, p, p + Len(x)) = x
<1>1. p + Len(x) \in Nat /\ p <= p + Len(x) /\ p + Len(x) <= Len(b) /\ (p + Len(x)) - p = Len(x)
        /\ Len(x) \in Nat
  BY DEF Holds
<1> DEFINE q == p + Len(x)
           y == Between(b, p, q)
<1>2. y \in Seq(Bytes) /\ Len(y) = Len(x)
  <2> HIDE DEF q
  <2> QED BY <1>1, Part DEF q
<1>3. \A k \in 1 .. Len(x) : y[k] = x[k]
  <2> TAKE k \in 1 .. Len(x)
  <2>1. y[k] = b[p + k]
    BY <1>1 DEF Between
  <2> QED BY <2>1 DEF Holds
<1> HIDE DEF y
<1>4. y = x
  BY <1>2, <1>3
<1> QED BY <1>4 DEF y

(* Where the bytes of a length are, the length is read, and nothing else. *)
LEMMA LengthHeld ==
  ASSUME NEW b \in Seq(Bytes), NEW p \in Nat, NEW n \in Nat, p <= Len(b),
         Holds(b, p, LengthBytes(n))
  PROVE  /\ LengthEnds(b, p, Nibble(n)) = {p + Len(LengthBytes(n))}
         /\ LengthAt(b, p, Nibble(n), p + Len(LengthBytes(n))) = n
<1>1. CASE n < RunMask
  <2>1. Nibble(n) = n /\ Len(LengthBytes(n)) = 0
    BY <1>1, Sizes255, LengthWritten DEF Nibble
  <2> QED BY <1>1, <2>1 DEF LengthEnds, LengthAt
<1>2. CASE ~(n < RunMask)
  <2> DEFINE rest == n - RunMask
             full == rest \div ByteMax
             low  == rest % ByteMax
             x    == LengthBytes(n)
  <2>1. rest \in Nat /\ n = RunMask + rest /\ RunMask \in Nat
    BY <1>2, Sizes255
  <2>2. full \in Nat /\ low \in 0 .. ByteMax - 1 /\ rest = ByteMax * full + low
    BY <2>1, Sizes255, DivModIs
  <2>3. x = [i \in 1 .. full |-> ByteMax] \o <<low>>
    BY <1>2 DEF LengthBytes
  <2>4. Nibble(n) = RunMask
    BY <1>2, Sizes255 DEF Nibble
  <2> HIDE DEF rest, full, low, x
  <2>5. Len(x) = full + 1 /\ x[full + 1] = low /\ \A i \in 1 .. full : x[i] = ByteMax
    BY <2>2, <2>3, Sizes255
  <2>6. /\ p + full + 1 <= Len(b)
        /\ b[p + full + 1] = low
        /\ \A i \in p + 1 .. p + full : b[i] = ByteMax
    <3>1. \A k \in 1 .. full + 1 : b[p + k] = x[k]
      BY <2>5 DEF Holds, x
    <3>2. p + full + 1 <= Len(b)
      BY <2>2, <2>5 DEF Holds, x
    <3>3. ASSUME NEW i \in p + 1 .. p + full PROVE b[i] = ByteMax
      <4> DEFINE k == i - p
      <4>1. k \in 1 .. full /\ k \in 1 .. full + 1 /\ i = p + k
        BY <2>2
      <4> HIDE DEF k
      <4> QED BY <2>5, <3>1, <4>1
    <3>4. full + 1 \in 1 .. full + 1 /\ p + (full + 1) = p + full + 1
      BY <2>2
    <3>5. b[p + full + 1] = low
      BY <2>5, <3>1, <3>4
    <3> QED BY <3>2, <3>3, <3>5
  <2>7. LengthEnds(b, p, Nibble(n)) = {p + full + 1}
    <3>1. low # ByteMax /\ Len(b) \in Nat
      BY <2>2, Sizes255
    <3>2. p + full + 1 \in LengthEnds(b, p, RunMask)
      BY <2>1, <2>2, <2>6, <3>1 DEF LengthEnds
    <3>3. ASSUME NEW q \in LengthEnds(b, p, RunMask)
          PROVE  q = p + full + 1
      <4>1. q \in p + 1 .. Len(b) /\ b[q] # ByteMax /\ \A i \in p + 1 .. q - 1 : b[i] = ByteMax
        BY <2>1 DEF LengthEnds
      <4>2. ~(q < p + full + 1)
        BY <2>2, <2>6, <4>1
      <4>3. ~(q > p + full + 1)
        BY <2>2, <2>6, <3>1, <4>1
      <4> QED BY <2>2, <4>1, <4>2, <4>3
    <3> QED BY <2>4, <3>2, <3>3
  <2>8. LengthAt(b, p, RunMask, p + full + 1) = n
    <3>1. (p + full + 1) - p - 1 = full
      BY <2>2
    <3>2. LengthAt(b, p, RunMask, p + full + 1) = RunMask + full * ByteMax + low
      BY <2>1, <2>6, <3>1 DEF LengthAt
    <3> DEFINE most == full * ByteMax
    <3>3. most = ByteMax * full /\ most \in Nat
      BY <2>2, Sizes255
    <3>4. rest = most + low
      BY <2>2, <3>3
    <3>5. LengthAt(b, p, RunMask, p + full + 1) = RunMask + most + low
      BY <3>2
    <3> HIDE DEF most
    <3> QED BY <2>1, <2>2, <3>3, <3>4, <3>5
  <2>9. p + Len(x) = p + full + 1
    BY <2>2, <2>5
  <2> QED BY <2>4, <2>7, <2>8, <2>9 DEF x
<1> QED BY <1>1, <1>2

LEMMA TokenRead ==
  ASSUME NEW literals \in Nat, NEW match \in Nat
  PROVE  /\ Token(literals, match) \div (RunMask + 1) = Nibble(literals)
         /\ Token(literals, match) % (RunMask + 1) = Nibble(match)
<1> DEFINE q == Nibble(literals)
           r == Nibble(match)
           b == RunMask + 1
<1>1. q \in Nat /\ r \in 0 .. b - 1 /\ b \in Nat \ {0}
  BY Sizes255 DEF Nibble
<1>2. Token(literals, match) = q * b + r
  BY DEF Token
<1> HIDE DEF q, r, b
<1>3. q * b + r = b * q + r
  BY <1>1
<1>4. Token(literals, match) \div b = q /\ Token(literals, match) % b = r
  BY <1>1, <1>2, <1>3, DivModUnique
<1> QED BY <1>4 DEF q, r, b

LEMMA OffsetHeld ==
  ASSUME NEW b \in Seq(Bytes), NEW p \in Nat, NEW offset \in 0 .. MaxDistance,
         Holds(b, p, OffsetBytes(offset))
  PROVE  Offset(b, p) = offset /\ p + 2 <= Len(b)
<1> DEFINE K == ByteMax + 1
           q == offset \div K
           r == offset % K
<1>1. K \in Nat \ {0} /\ offset \in Nat /\ offset < K * K
  <2>1. K \in Nat \ {0} /\ MaxDistance \in Nat /\ MaxDistance < K * K
    <3>1. K \in Nat \ {0}
      BY Sizes255
    <3>2. MaxDistance \in Nat
      BY Lz4Assumption, Zenon
    <3>3. MaxDistance < K * K
      BY Lz4Assumption, Zenon
    <3> QED BY <3>1, <3>2, <3>3, Zenon
  <2> HIDE DEF K
  <2> DEFINE n == K * K
  <2>2. n \in Nat /\ MaxDistance < n
    BY <2>1
  <2> HIDE DEF n
  <2>3. offset \in Nat /\ offset < n
    BY <2>1, <2>2
  <2> QED BY <2>1, <2>3 DEF n
<1>2. OffsetBytes(offset) = <<r, q % K>>
  BY DEF OffsetBytes
<1>3. Offset(b, p) = b[p + 1] + b[p + 2] * K
  BY DEF Offset
<1> HIDE DEF K
<1>4. q \in Nat /\ r \in 0 .. K - 1 /\ offset = K * q + r
  BY <1>1, DivModIs
<1> HIDE DEF q, r
<1>5. q < K
  <2>1. SUFFICES ASSUME q >= K PROVE FALSE
    BY <1>1, <1>4
  <2>2. K * q >= K * K
    BY <1>1, <1>4, <2>1
  <2> QED BY <1>1, <1>4, <2>2
<1>6. q % K = q
  BY <1>1, <1>4, <1>5
<1>7. b[p + 1] = r /\ b[p + 2] = q /\ p + 2 <= Len(b)
  BY <1>2, <1>6 DEF Holds
<1>8. q * K = K * q
  BY <1>1, <1>4
<1> QED BY <1>1, <1>3, <1>4, <1>7, <1>8

(* Copying a match byte by byte makes the text that the compressor found there, also when
   it reaches into what it makes: the text repeats itself every `offset' bytes. *)
LEMMA CopyIsText ==
  ASSUME NEW text \in Seq(Bytes), NEW i \in Nat, NEW offset \in 1 .. i, NEW n \in Nat,
         i + n <= Len(text),
         Repeats(text, offset, i, n)
  PROVE  CopyBytes(Between(text, 0, i), offset, n) = Between(text, 0, i + n)
<1> DEFINE from == Between(text, 0, i)
           whole == Between(text, 0, i + n)
           copy == CopyBytes(from, offset, n)
<1>1. from \in Seq(Bytes) /\ Len(from) = i /\ \A k \in 1 .. i : from[k] = text[k]
  BY DEF Between
<1>2. whole \in Seq(Bytes) /\ Len(whole) = i + n /\ \A k \in 1 .. i + n : whole[k] = text[k]
  BY DEF Between
<1>3. copy = [k \in 1 .. i + n |-> IF k <= i THEN from[k]
                                   ELSE from[i - offset + 1 + ((k - i - 1) % offset)]]
  BY <1>1 DEF CopyBytes
<1>4. \A j \in 0 .. n - 1 : text[i + j + 1] = text[i - offset + 1 + (j % offset)]
  <2>1. offset \in Nat \ {0} /\ offset <= i
    OBVIOUS
  <2>2. Loops(text, offset, i, n)
    BY <2>1, Periodic
  <2> QED BY <2>2 DEF Loops
<1> HIDE DEF from, whole
<1>5. ASSUME NEW k \in 1 .. i + n PROVE copy[k] = whole[k]
  <2>1. CASE k <= i
    BY <1>1, <1>2, <1>3, <2>1
  <2>2. CASE ~(k <= i)
    <3> DEFINE j == k - i - 1
               r == j % offset
    <3>1. j \in 0 .. n - 1 /\ i + j + 1 = k
      BY <2>2
    <3>2. r \in 0 .. offset - 1
      BY <3>1
    <3>3. copy[k] = from[i - offset + 1 + r]
      BY <1>3, <2>2
    <3>4. text[k] = text[i - offset + 1 + r]
      BY <1>4, <3>1
    <3> HIDE DEF j, r, copy
    <3>5. i - offset + 1 + r \in 1 .. i
      BY <3>2
    <3> QED BY <1>1, <1>2, <3>3, <3>4, <3>5
  <2> QED BY <2>1, <2>2
<1>6. copy \in Seq(Bytes) /\ Len(copy) = i + n
  BY <1>1, Copied
<1> HIDE DEF copy
<1>7. copy = whole
  BY <1>2, <1>5, <1>6
<1> QED BY <1>7 DEF copy, whole, from

----------------------------------------------------------------------------
(* The sequence for the literals from a to i of the text, and for the match with ref from i
   to e, is in the bytes from s to t of b. *)
SequenceAt(text, b, s, a, i, ref, e, t) ==
  LET literals == i - a
      match    == e - i - MinMatch
      p == s + 1 + Len(LengthBytes(literals))
      q == p + literals
  IN  /\ Holds(b, s, <<Token(literals, match)>>)
      /\ Holds(b, s + 1, LengthBytes(literals))
      /\ Holds(b, p, Between(text, a, i))
      /\ Holds(b, q, OffsetBytes(i - ref))
      /\ Holds(b, q + 2, LengthBytes(match))
      /\ t = q + 2 + Len(LengthBytes(match))

(* The match is one: what it stands for is in the text twice, near enough. *)
Matches(text, a, i, ref, e) ==
  /\ a <= i /\ ref < i /\ i - ref <= MaxDistance
  /\ i + MinMatch <= e /\ e <= Len(text)
  /\ Repeats(text, i - ref, i, e - i)

(* Between two points, a point being a place in the stream and one in the text. *)
Joins(text, b, x, y) ==
  \E i \in Nat, ref \in Nat :
    /\ Matches(text, x[2], i, ref, y[2])
    /\ SequenceAt(text, b, x[1], x[2], i, ref, y[2], y[1])

LastAt(text, b, x) ==
  LET run == Len(text) - x[2]
      p   == x[1] + 1 + Len(LengthBytes(run))
  IN  /\ Holds(b, x[1], <<Token(run, 0)>>)
      /\ Holds(b, x[1] + 1, LengthBytes(run))
      /\ Holds(b, p, Between(text, x[2], Len(text)))

(* The stream up to `last' is made of sequences that start at the points B. *)
IsChain(text, b, B, last) ==
  /\ B \subseteq (0 .. Len(b)) \X (0 .. Len(text))
  /\ <<0, 0>> \in B /\ last \in B
  /\ \A x \in B : x = last \/ \E y \in B : Joins(text, b, x, y)

LEMMA MatchParts ==
  ASSUME NEW text \in Seq(Bytes), NEW a \in Nat, NEW i \in Nat, NEW ref \in Nat, NEW e \in Nat,
         Matches(text, a, i, ref, e)
  PROVE  /\ i - a \in Nat /\ e - i - MinMatch \in Nat /\ i - ref \in Nat /\ i - ref \in 1 .. i
         /\ i - ref \in 0 .. MaxDistance
         /\ MinMatch = 4 /\ e - i \in Nat /\ a <= i /\ i < e /\ e <= Len(text) /\ Len(text) \in Nat
         /\ Between(text, a, i) \in Seq(Bytes) /\ Len(Between(text, a, i)) = i - a
<1>1. MinMatch = 4 /\ MaxDistance \in Nat
  BY Lz4Assumption
<1>2. /\ a <= i /\ ref < i /\ i - ref <= MaxDistance
      /\ i + MinMatch <= e /\ e <= Len(text) /\ Len(text) \in Nat
  BY DEF Matches
<1>3. a <= i /\ i <= Len(text)
  BY <1>1, <1>2
<1>4. Between(text, a, i) \in Seq(Bytes) /\ Len(Between(text, a, i)) = i - a
  BY <1>3, Part
<1>5. /\ i - a \in Nat /\ e - i - MinMatch \in Nat /\ i - ref \in Nat /\ i - ref \in 1 .. i
      /\ i - ref \in 0 .. MaxDistance /\ e - i \in Nat /\ i < e
  BY <1>1, <1>2
<1> QED BY <1>1, <1>2, <1>4, <1>5

(* More of the stream leaves the sequences before it in their place. *)
LEMMA JoinsMore ==
  ASSUME NEW text \in Seq(Bytes), NEW b \in Seq(Bytes), NEW c \in Seq(Bytes), Begins(b, c),
         NEW x \in Nat \X Nat, NEW y \in Nat \X Nat, Joins(text, b, x, y)
  PROVE  Joins(text, c, x, y)
<1>1. PICK i \in Nat, ref \in Nat :
        /\ Matches(text, x[2], i, ref, y[2])
        /\ SequenceAt(text, b, x[1], x[2], i, ref, y[2], y[1])
  BY DEF Joins
<1> DEFINE literals == i - x[2]
           match    == y[2] - i - MinMatch
           p == x[1] + 1 + Len(LengthBytes(literals))
           q == p + literals
<1>2. /\ literals \in Nat /\ match \in Nat /\ i - ref \in Nat
      /\ Len(Between(text, x[2], i)) \in Nat
      /\ x[1] \in Nat /\ x[2] \in Nat /\ y[2] \in Nat
  <2>1. x[1] \in Nat /\ x[2] \in Nat /\ y[2] \in Nat
    OBVIOUS
  <2> DEFINE a == x[2]
             e == y[2]
  <2>2. a \in Nat /\ e \in Nat /\ Matches(text, a, i, ref, e)
    BY <1>1, <2>1
  <2> HIDE DEF a, e
  <2>3. /\ i - a \in Nat /\ e - i - MinMatch \in Nat /\ i - ref \in Nat
        /\ Len(Between(text, a, i)) = i - a
    BY <2>2, MatchParts
  <2> QED BY <2>1, <2>3 DEF a, e
<1> HIDE DEF literals, match
<1>3. /\ Len(LengthBytes(literals)) \in Nat /\ Len(LengthBytes(match)) \in Nat
      /\ Len(OffsetBytes(i - ref)) \in Nat /\ Len(<<Token(literals, match)>>) \in Nat
  <2>1. i - ref \in Int
    BY <1>2
  <2>2. Len(OffsetBytes(i - ref)) = 2
    BY <2>1, OffsetIsBytes
  <2>3. Len(<<Token(literals, match)>>) \in Nat
    OBVIOUS
  <2>6. Len(OffsetBytes(i - ref)) \in Nat
    BY <2>2
  <2>4. Len(LengthBytes(literals)) \in Nat
    BY <1>2, LengthWritten
  <2>5. Len(LengthBytes(match)) \in Nat
    BY <1>2, LengthWritten
  <2> QED BY <2>3, <2>4, <2>5, <2>6, Zenon
<1>4. p \in Nat /\ q \in Nat /\ q + 2 \in Nat /\ x[1] + 1 \in Nat
  <2> DEFINE n == Len(LengthBytes(literals))
             s == x[1]
  <2>1. n \in Nat /\ s \in Nat /\ literals \in Nat
    BY <1>2, <1>3
  <2>2. p = s + 1 + n /\ q = p + literals
    OBVIOUS
  <2> HIDE DEF n, s, p, q
  <2>3. p \in Nat /\ q \in Nat /\ q + 2 \in Nat /\ s + 1 \in Nat
    BY <2>1, <2>2
  <2> QED BY <2>3, Zenon DEF s
<1>5. /\ Holds(b, x[1], <<Token(literals, match)>>)
      /\ Holds(b, x[1] + 1, LengthBytes(literals))
      /\ Holds(b, p, Between(text, x[2], i))
      /\ Holds(b, q, OffsetBytes(i - ref))
      /\ Holds(b, q + 2, LengthBytes(match))
      /\ y[1] = q + 2 + Len(LengthBytes(match))
  BY <1>1 DEF SequenceAt, literals, match
<1> HIDE DEF p, q
<1>6. /\ Holds(c, x[1], <<Token(literals, match)>>)
      /\ Holds(c, x[1] + 1, LengthBytes(literals))
      /\ Holds(c, p, Between(text, x[2], i))
      /\ Holds(c, q, OffsetBytes(i - ref))
      /\ Holds(c, q + 2, LengthBytes(match))
  BY <1>2, <1>3, <1>4, <1>5, HoldsMore
<1>7. SequenceAt(text, c, x[1], x[2], i, ref, y[2], y[1])
  BY <1>5, <1>6 DEF SequenceAt, p, q, literals, match
<1> QED BY <1>1, <1>7 DEF Joins

(* What is before a place of a text, and what is after it up to another. *)
LEMMA PrefixIs ==
  ASSUME NEW text \in Seq(Bytes)
  PROVE  Between(text, 0, Len(text)) = text
<1> DEFINE u == Between(text, 0, Len(text))
<1>1. Len(text) \in Nat
  OBVIOUS
<1>2. u \in Seq(Bytes) /\ Len(u) = Len(text) /\ \A k \in 1 .. Len(text) : u[k] = text[k]
  BY <1>1 DEF Between
<1> HIDE DEF u
<1>3. u = text
  BY <1>2
<1> QED BY <1>3 DEF u

LEMMA TwoParts ==
  ASSUME NEW text \in Seq(Bytes), NEW a \in Nat, NEW i \in Nat, a <= i, i <= Len(text)
  PROVE  Between(text, 0, a) \o Between(text, a, i) = Between(text, 0, i)
<1> DEFINE left  == Between(text, 0, a)
           right == Between(text, a, i)
           both  == Between(text, 0, i)
           u     == left \o right
<1>1. Len(text) \in Nat /\ a <= Len(text)
  OBVIOUS
<1>2. left \in Seq(Bytes) /\ Len(left) = a /\ \A k \in 1 .. a : left[k] = text[k]
  BY <1>1 DEF Between
<1>3. right \in Seq(Bytes) /\ Len(right) = i - a /\ \A k \in 1 .. i - a : right[k] = text[a + k]
  BY <1>1 DEF Between
<1>4. both \in Seq(Bytes) /\ Len(both) = i /\ \A k \in 1 .. i : both[k] = text[k]
  BY <1>1 DEF Between
<1> HIDE DEF left, right, both
<1>5. u \in Seq(Bytes) /\ Len(u) = i
  <2>1. u \in Seq(Bytes) /\ Len(u) = Len(left) + Len(right)
    BY <1>2, <1>3, Joined
  <2> HIDE DEF u
  <2> QED BY <1>2, <1>3, <2>1
<1>6. ASSUME NEW k \in 1 .. i PROVE u[k] = both[k]
  <2>1. CASE k <= a
    <3>1. k \in 1 .. a
      BY <2>1
    <3>2. u[k] = left[k]
      BY <1>2, <1>3, <3>1
    <3> QED BY <1>2, <1>4, <3>1, <3>2
  <2>2. CASE ~(k <= a)
    <3>1. k - a \in 1 .. i - a /\ a + (k - a) = k
      BY <2>2
    <3>2. u[k] = right[k - a]
      BY <1>2, <1>3, <2>2
    <3>3. right[k - a] = text[k]
      BY <1>3, <3>1
    <3> QED BY <1>4, <3>2, <3>3
  <2> QED BY <2>1, <2>2
<1> HIDE DEF u
<1>7. u = both
  BY <1>4, <1>5, <1>6
<1> QED BY <1>7 DEF u, left, right, both

LEMMA TokenHeld ==
  ASSUME NEW b \in Seq(Bytes), NEW p \in Nat, NEW token, Holds(b, p, <<token>>)
  PROVE  b[p + 1] = token /\ p + 1 <= Len(b)
<1>1. Len(<<token>>) = 1 /\ <<token>>[1] = token
  OBVIOUS
<1> DEFINE x == <<token>>
<1> HIDE DEF x
<1>2. Holds(b, p, x) /\ Len(x) = 1 /\ x[1] = token
  BY <1>1 DEF x
<1> QED BY <1>2 DEF Holds

(* A sequence of the decompressor undoes one of the compressor. *)
LEMMA SequenceUndoes ==
  ASSUME Lz4Inv, Sequence, ~overlapped', size = SrcEnd,
         NEW a \in Nat, out = Between(src, 0, a), Len(out) = a,
         NEW i \in Nat, NEW ref \in Nat, NEW e \in Nat, NEW t,
         Matches(src, a, i, ref, e), SequenceAt(src, stream, ip, a, i, ref, e, t)
  PROVE  pc' = "decode" /\ ip' = t /\ out' = Between(src, 0, e) /\ Len(out') = e
<1> DEFINE literals == i - a
           match    == e - i - MinMatch
           n1 == Len(LengthBytes(literals))
           n2 == Len(LengthBytes(match))
           p  == ip + 1 + n1
           q  == p + literals
<1>1. /\ pc = "decode" /\ src \in Seq(Bytes) /\ stream \in Seq(Bytes) /\ Len(stream) \in Nat /\ ip \in Nat
      /\ size = Len(src) /\ RunMask \in Nat /\ Bytes \subseteq Nat
  BY Sizes255 DEF Lz4Inv, Lz4TypeOK, Sequence, SrcEnd, Bytes
<1>2. /\ literals \in Nat /\ match \in Nat /\ i - ref \in 1 .. i /\ i - ref \in 0 .. MaxDistance
      /\ MinMatch = 4 /\ e - i \in Nat /\ a <= i /\ i < e /\ e <= Len(src) /\ Len(src) \in Nat
      /\ Between(src, a, i) \in Seq(Bytes) /\ Len(Between(src, a, i)) = literals
  BY <1>1, MatchParts
<1>3. n1 \in Nat /\ n2 \in Nat
  BY <1>2, LengthWritten
<1>4. /\ Holds(stream, ip, <<Token(literals, match)>>)
      /\ Holds(stream, ip + 1, LengthBytes(literals))
      /\ Holds(stream, p, Between(src, a, i))
      /\ Holds(stream, q, OffsetBytes(i - ref))
      /\ Holds(stream, q + 2, LengthBytes(match))
      /\ t = q + 2 + n2
  BY DEF SequenceAt
<1>5. p \in Nat /\ q \in Nat /\ ip + 1 \in Nat /\ q + 2 \in Nat /\ q = p + literals
  <2>1. p = ip + 1 + n1 /\ q = p + literals /\ ip \in Nat /\ n1 \in Nat /\ literals \in Nat
    BY <1>1, <1>2, <1>3
  <2> HIDE DEF literals, n1, p, q
  <2> QED BY <2>1
<1>6. match + MinMatch = e - i
  BY <1>2
<1> HIDE DEF literals, match, n1, n2, p, q
<1>7. stream[ip + 1] = Token(literals, match) /\ ip + 1 <= Len(stream)
  BY <1>1, <1>4, TokenHeld
<1>8. /\ stream[ip + 1] \div (RunMask + 1) = Nibble(literals)
      /\ stream[ip + 1] % (RunMask + 1) = Nibble(match)
  BY <1>2, <1>7, TokenRead
<1>9. /\ LengthEnds(stream, ip + 1, Nibble(literals)) = {p}
      /\ LengthAt(stream, ip + 1, Nibble(literals), p) = literals
  <2> DEFINE k == ip + 1
  <2>1. p = k + Len(LengthBytes(literals)) /\ k \in Nat /\ k <= Len(stream)
    BY <1>5, <1>7 DEF p, n1
  <2>2. Holds(stream, k, LengthBytes(literals))
    BY <1>4
  <2> HIDE DEF k
  <2>3. /\ LengthEnds(stream, k, Nibble(literals)) = {p}
        /\ LengthAt(stream, k, Nibble(literals), p) = literals
    BY <1>1, <1>2, <2>1, <2>2, LengthHeld
  <2> QED BY <2>3 DEF k
<1>10. q <= Len(stream) /\ Between(stream, p, q) = Between(src, a, i)
  <2>1. Between(stream, p, p + literals) = Between(src, a, i)
    BY <1>1, <1>2, <1>4, <1>5, BetweenHeld
  <2>2. p + literals <= Len(stream)
    BY <1>2, <1>4 DEF Holds
  <2> QED BY <1>5, <2>1, <2>2
<1>11. out \o Between(stream, p, q) = Between(src, 0, i)
  <2>1. a <= i /\ i <= Len(src) /\ i \in Nat
    BY <1>2
  <2>2. Between(src, 0, a) \o Between(src, a, i) = Between(src, 0, i)
    BY <1>1, <2>1, TwoParts
  <2> QED BY <1>10, <2>2
<1>12. Len(Between(src, 0, i)) = i /\ Between(src, 0, i) \in Seq(Bytes)
  BY <1>1, <1>2 DEF Between
<1>13. a + literals = i
  BY <1>2 DEF literals
<1>14. Offset(stream, q) = i - ref /\ q + 2 <= Len(stream)
  BY <1>1, <1>2, <1>4, <1>5, OffsetHeld
<1>15. /\ LengthEnds(stream, q + 2, Nibble(match)) = {t}
       /\ LengthAt(stream, q + 2, Nibble(match), t) = match
  <2> DEFINE k == q + 2
  <2>1. t = k + Len(LengthBytes(match)) /\ k \in Nat /\ k <= Len(stream)
    BY <1>4, <1>5, <1>14 DEF n2
  <2>2. Holds(stream, k, LengthBytes(match))
    BY <1>4
  <2> HIDE DEF k
  <2>3. /\ LengthEnds(stream, k, Nibble(match)) = {t}
        /\ LengthAt(stream, k, Nibble(match), t) = match
    BY <1>1, <1>2, <2>1, <2>2, LengthHeld
  <2> QED BY <2>3 DEF k
<1>16. AfterLiterals(Nibble(match), q, Between(src, 0, i))
  <2>1. IF LengthEnds(stream, ip + 1, Nibble(literals)) = {} THEN Corrupt
        ELSE \E end \in LengthEnds(stream, ip + 1, Nibble(literals)) :
               LET length == LengthAt(stream, ip + 1, Nibble(literals), end)
               IN  IF end + length > Len(stream) \/ Len(out) + length > size
                   THEN Corrupt
                   ELSE AfterLiterals(Nibble(match), end + length,
                                      out \o Between(stream, end, end + length))
    BY <1>8 DEF Sequence
  <2>2. IF p + literals > Len(stream) \/ Len(out) + literals > size
        THEN Corrupt
        ELSE AfterLiterals(Nibble(match), p + literals, out \o Between(stream, p, p + literals))
    BY <1>9, <2>1
  <2>3. ~(q > Len(stream)) /\ ~(Len(out) + literals > size)
    BY <1>1, <1>2, <1>5, <1>10, <1>13
  <2> QED BY <1>5, <1>11, <2>2, <2>3
<1>17. /\ CopyMatch(Between(src, 0, i), i - ref, e - i)
       /\ ip' = t /\ UNCHANGED pc
  <2>1. ~(i = size) /\ ~(q + 2 > Len(stream))
    BY <1>1, <1>2, <1>5, <1>14
  <2>2. /\ ~(i - ref = 0 \/ i - ref > i \/ {t} = {})
        /\ ~(i + (e - i) > size)
    BY <1>1, <1>2
  <2>3. IF i - ref = 0 \/ i - ref > i \/ {t} = {}
        THEN Corrupt
        ELSE \E end \in {t} :
               LET length == MinMatch + LengthAt(stream, q + 2, Nibble(match), end)
               IN  IF i + length > size
                   THEN Corrupt
                   ELSE CopyMatch(Between(src, 0, i), i - ref, length) /\ ip' = end /\ UNCHANGED pc
    BY <1>12, <1>14, <1>15, <1>16, <2>1 DEF AfterLiterals
  <2>4. MinMatch + match = e - i
    BY <1>2, <1>6
  <2> QED BY <1>15, <2>2, <2>3, <2>4
<1>18. out' = CopyBytes(Between(src, 0, i), i - ref, e - i)
  BY <1>17 DEF CopyMatch
<1>19. out' = Between(src, 0, i + (e - i))
  <2> DEFINE n      == e - i
             offset == i - ref
  <2>1. Repeats(src, offset, i, n)
    BY DEF Matches
  <2>2. i + n <= Len(src) /\ n \in Nat /\ offset \in 1 .. i
    BY <1>2
  <2>3. out' = CopyBytes(Between(src, 0, i), offset, n)
    BY <1>18
  <2> HIDE DEF n, offset
  <2>4. out' = Between(src, 0, i + n)
    BY <1>1, <2>1, <2>2, <2>3, CopyIsText
  <2> QED BY <2>4 DEF n
<1>20. i + (e - i) = e
  BY <1>2
<1>21. Len(Between(src, 0, e)) = e
  BY <1>1, <1>2 DEF Between
<1> QED BY <1>1, <1>17, <1>19, <1>20, <1>21

(* What lz4_compress writes for a match is a sequence. *)
LEMMA SequenceWritten ==
  ASSUME NEW text \in Seq(Bytes), NEW b \in Seq(Bytes), NEW c,
         NEW a \in Nat, NEW i \in Nat, NEW ref \in Nat, NEW e \in Nat,
         Matches(text, a, i, ref, e),
         c = b \o <<Token(i - a, e - i - MinMatch)>> \o LengthBytes(i - a) \o Between(text, a, i)
               \o OffsetBytes(i - ref) \o LengthBytes(e - i - MinMatch)
  PROVE  /\ c \in Seq(Bytes) /\ Begins(b, c)
         /\ SequenceAt(text, c, Len(b), a, i, ref, e, Len(c))
<1> DEFINE literals == i - a
           match    == e - i - MinMatch
           x == <<Token(literals, match)>>
           y == LengthBytes(literals)
           z == Between(text, a, i)
           v == OffsetBytes(i - ref)
           w == LengthBytes(match)
<1>1. literals \in Nat /\ match \in Nat /\ i - ref \in Int /\ z \in Seq(Bytes) /\ Len(z) = literals
  BY MatchParts
<1>2. c = b \o x \o y \o z \o v \o w
  OBVIOUS
<1> HIDE DEF literals, match
<1>3. x \in Seq(Bytes) /\ Len(x) = 1
  <2>1. Token(literals, match) \in Bytes
    BY <1>1, TokenIsByte
  <2> QED BY <2>1
<1>4. y \in Seq(Bytes) /\ w \in Seq(Bytes)
  BY <1>1, LengthWritten
<1>5. v \in Seq(Bytes) /\ Len(v) = 2
  BY <1>1, OffsetIsBytes
<1> HIDE DEF x, y, z, v, w
<1>6. FollowFive(c, b, x, y, z, v, w)
  <2>1. FollowFive(b \o x \o y \o z \o v \o w, b, x, y, z, v, w)
    BY <1>1, <1>3, <1>4, <1>5, FivePieces
  <2> QED BY <1>2, <2>1
<1> DEFINE n == Len(b)
           n1 == Len(y)
           n2 == Len(w)
<1>7. n \in Nat /\ n1 \in Nat /\ n2 \in Nat
  BY <1>4
<1>8. /\ Len(c) = n + 1 + n1 + literals + 2 + n2
      /\ Holds(c, n, x) /\ Holds(c, n + 1, y) /\ Holds(c, n + 1 + n1, z)
      /\ Holds(c, n + 1 + n1 + literals, v) /\ Holds(c, n + 1 + n1 + literals + 2, w)
  BY <1>1, <1>3, <1>5, <1>6 DEF FollowFive
<1> HIDE DEF n, n1, n2
<1>9. SequenceAt(text, c, n, a, i, ref, e, Len(c))
  BY <1>8 DEF SequenceAt, literals, match, x, y, z, v, w, n1, n2
<1> QED BY <1>6, <1>9 DEF FollowFive, n

LEMMA LastWritten ==
  ASSUME NEW text \in Seq(Bytes), NEW b \in Seq(Bytes), NEW c,
         NEW a \in Nat, a <= Len(text),
         c = b \o <<Token(Len(text) - a, 0)>> \o LengthBytes(Len(text) - a)
               \o Between(text, a, Len(text))
  PROVE  c \in Seq(Bytes) /\ Begins(b, c) /\ LastAt(text, c, <<Len(b), a>>)
<1> DEFINE run == Len(text) - a
           x == <<Token(run, 0)>>
           y == LengthBytes(run)
           z == Between(text, a, Len(text))
<1>1. run \in Nat /\ z \in Seq(Bytes)
  BY Part
<1>2. c = b \o x \o y \o z
  OBVIOUS
<1> HIDE DEF run
<1>3. x \in Seq(Bytes) /\ Len(x) = 1
  <2>1. Token(run, 0) \in Bytes
    BY <1>1, TokenIsByte
  <2> QED BY <2>1
<1>4. y \in Seq(Bytes)
  BY <1>1, LengthWritten
<1> HIDE DEF x, y, z
<1>5. Follow(c, b, x, y, z)
  BY <1>1, <1>2, <1>3, <1>4, ThreePieces
<1>6. Holds(c, Len(b), x) /\ Holds(c, Len(b) + 1, y) /\ Holds(c, Len(b) + 1 + Len(y), z)
  BY <1>3, <1>5 DEF Follow
<1>7. LastAt(text, c, <<Len(b), a>>)
  BY <1>6 DEF LastAt, x, y, z, run
<1> QED BY <1>5, <1>7 DEF Follow

LEMMA Halves ==
  ASSUME NEW text \in Seq(Bytes), NEW a \in Nat, a <= Len(text)
  PROVE  Between(text, 0, a) \o Between(text, a, Len(text)) = text
<1> DEFINE n == Len(text)
           whole == Between(text, 0, n)
<1>1. n \in Nat /\ a <= n /\ n <= Len(text)
  OBVIOUS
<1>2. whole = text
  BY PrefixIs
<1> HIDE DEF n
<1>3. Between(text, 0, a) \o Between(text, a, n) = Between(text, 0, n)
  BY <1>1, TwoParts
<1> QED BY <1>2, <1>3 DEF whole, n

(* The last turn of the decompressor's loop undoes the end of the compressor. *)
LEMMA LastUndoes ==
  ASSUME Lz4Inv, Sequence, size = SrcEnd,
         NEW a \in Nat, a <= SrcEnd, out = Between(src, 0, a), Len(out) = a,
         LastAt(src, stream, <<ip, a>>)
  PROVE  pc' = "done" /\ out' = src
<1> DEFINE run == Len(src) - a
           n1 == Len(LengthBytes(run))
           p  == ip + 1 + n1
           q  == p + run
<1>1. /\ pc = "decode" /\ src \in Seq(Bytes) /\ stream \in Seq(Bytes) /\ Len(stream) \in Nat /\ ip \in Nat
      /\ size = Len(src) /\ RunMask \in Nat /\ Len(src) \in Nat
  BY Sizes255 DEF Lz4Inv, Lz4TypeOK, Sequence, SrcEnd
<1>2. /\ run \in Nat /\ a + run = size /\ Between(src, a, Len(src)) \in Seq(Bytes)
      /\ Len(Between(src, a, Len(src))) = run
  <2>1. a <= Len(src) /\ Len(src) <= Len(src)
    BY <1>1 DEF SrcEnd
  <2> DEFINE n == Len(src)
  <2>2. n \in Nat /\ a <= n /\ n <= Len(src)
    BY <1>1, <2>1
  <2> HIDE DEF n
  <2>3. Between(src, a, n) \in Seq(Bytes) /\ Len(Between(src, a, n)) = n - a
    BY <1>1, <2>2, Part
  <2> QED BY <1>1, <2>1, <2>3 DEF n
<1>3. n1 \in Nat
  BY <1>2, LengthWritten
<1>4. /\ Holds(stream, ip, <<Token(run, 0)>>)
      /\ Holds(stream, ip + 1, LengthBytes(run))
      /\ Holds(stream, p, Between(src, a, Len(src)))
  BY DEF LastAt
<1>5. p \in Nat /\ q \in Nat /\ ip + 1 \in Nat /\ q = p + run
  BY <1>1, <1>2, <1>3
<1> HIDE DEF run, n1, p, q
<1>6. stream[ip + 1] = Token(run, 0) /\ ip + 1 <= Len(stream)
  BY <1>1, <1>4, TokenHeld
<1>7. stream[ip + 1] \div (RunMask + 1) = Nibble(run)
  BY <1>2, <1>6, TokenRead
<1>8. /\ LengthEnds(stream, ip + 1, Nibble(run)) = {p}
      /\ LengthAt(stream, ip + 1, Nibble(run), p) = run
  <2> DEFINE k == ip + 1
  <2>1. p = k + Len(LengthBytes(run)) /\ k \in Nat /\ k <= Len(stream)
    BY <1>5, <1>6 DEF p, n1
  <2>2. Holds(stream, k, LengthBytes(run))
    BY <1>4
  <2> HIDE DEF k
  <2>3. /\ LengthEnds(stream, k, Nibble(run)) = {p}
        /\ LengthAt(stream, k, Nibble(run), p) = run
    BY <1>1, <1>2, <2>1, <2>2, LengthHeld
  <2> QED BY <2>3 DEF k
<1>9. q <= Len(stream) /\ Between(stream, p, q) = Between(src, a, Len(src))
  <2>1. Between(stream, p, p + run) = Between(src, a, Len(src))
    BY <1>1, <1>2, <1>4, <1>5, BetweenHeld
  <2>2. p + run <= Len(stream)
    BY <1>2, <1>4 DEF Holds
  <2> QED BY <1>5, <2>1, <2>2
<1>10. out \o Between(stream, p, q) = src
  <2>1. a <= Len(src)
    BY DEF SrcEnd
  <2>2. Between(src, 0, a) \o Between(src, a, Len(src)) = src
    BY <1>1, <2>1, Halves
  <2> QED BY <1>9, <2>2
<1>11. \E nibble : AfterLiterals(nibble, q, src)
  <2> DEFINE nibble == stream[ip + 1] % (RunMask + 1)
  <2>1. IF LengthEnds(stream, ip + 1, Nibble(run)) = {} THEN Corrupt
        ELSE \E end \in LengthEnds(stream, ip + 1, Nibble(run)) :
               LET length == LengthAt(stream, ip + 1, Nibble(run), end)
               IN  IF end + length > Len(stream) \/ Len(out) + length > size
                   THEN Corrupt
                   ELSE AfterLiterals(nibble, end + length,
                                      out \o Between(stream, end, end + length))
    BY <1>7 DEF Sequence
  <2>2. IF p + run > Len(stream) \/ Len(out) + run > size
        THEN Corrupt
        ELSE AfterLiterals(nibble, p + run, out \o Between(stream, p, p + run))
    BY <1>8, <2>1
  <2>3. ~(q > Len(stream)) /\ ~(Len(out) + run > size)
    BY <1>1, <1>2, <1>5, <1>9
  <2> HIDE DEF nibble
  <2>4. AfterLiterals(nibble, q, src)
    BY <1>5, <1>10, <2>2, <2>3
  <2> QED BY <2>4
<1> QED BY <1>1, <1>11 DEF AfterLiterals

----------------------------------------------------------------------------
(* Chains. *)

LEMMA ChainMore ==
  ASSUME NEW text \in Seq(Bytes), NEW b \in Seq(Bytes), NEW c \in Seq(Bytes), Begins(b, c),
         NEW B, NEW last, IsChain(text, b, B, last)
  PROVE  IsChain(text, c, B, last)
<1>1. B \subseteq (0 .. Len(b)) \X (0 .. Len(text)) /\ Len(b) <= Len(c)
        /\ Len(b) \in Nat /\ Len(c) \in Nat
  BY DEF IsChain, Begins
<1>2. B \subseteq (0 .. Len(c)) \X (0 .. Len(text)) /\ B \subseteq Nat \X Nat
  BY <1>1
<1>3. ASSUME NEW x \in B, NEW y \in B, Joins(text, b, x, y)
      PROVE  Joins(text, c, x, y)
  <2>1. x \in Nat \X Nat /\ y \in Nat \X Nat
    BY <1>2
  <2> QED BY <1>3, <2>1, JoinsMore
<1> QED BY <1>2, <1>3 DEF IsChain

LEMMA ChainGrows ==
  ASSUME NEW text \in Seq(Bytes), NEW b \in Seq(Bytes), NEW c \in Seq(Bytes), Begins(b, c),
         NEW B, NEW last, IsChain(text, b, B, last),
         NEW y \in (0 .. Len(c)) \X (0 .. Len(text)), Joins(text, c, last, y)
  PROVE  IsChain(text, c, B \cup {y}, y)
<1>1. IsChain(text, c, B, last)
  BY ChainMore
<1> QED BY <1>1 DEF IsChain

(***************************************************************************)
(* The invariant.  What lz4_compress has written so far is a chain of      *)
(* sequences up to anchor; the positions in its table are behind ip, so    *)
(* that a match reaches back.  lz4_decompress is at a point of the chain,  *)
(* and has written the text up to there.                                   *)
(***************************************************************************)
Decodes ==
  /\ size = SrcEnd
  /\ out = Between(src, 0, Len(out))
  /\ \E B, last : /\ IsChain(src, stream, B, last)
                  /\ LastAt(src, stream, last)
                  /\ <<ip, Len(out)>> \in B

ChainInv ==
  /\ pc = "idle" => \A h \in Hashes : hash_table[h] = 0
  /\ pc = "scan" => \A h \in Hashes : hash_table[h] < ip
  /\ Compressing => src # <<>> /\ \E B : IsChain(src, stream, B, <<Len(stream), anchor>>)
  /\ src # <<>> /\ ~overlapped =>
       /\ pc # "corrupt"
       /\ pc = "done" => out = src
       /\ pc = "decode" => Decodes

(* At a point of the chain there is a token. *)
LEMMA PointIsInside ==
  ASSUME NEW text, NEW b \in Seq(Bytes), NEW B, NEW last, NEW x \in B,
         IsChain(text, b, B, last), LastAt(text, b, last)
  PROVE  x[1] < Len(b)
<1>1. ASSUME NEW p \in Nat, NEW token, Holds(b, p, <<token>>)
      PROVE  p < Len(b)
  BY <1>1 DEF Holds
<1>2. x[1] \in Nat
  BY DEF IsChain
<1>3. CASE x = last
  BY <1>1, <1>2, <1>3 DEF LastAt
<1>4. CASE \E y \in B : Joins(text, b, x, y)
  BY <1>1, <1>2, <1>4 DEF Joins, SequenceAt
<1> QED BY <1>3, <1>4 DEF IsChain

LEMMA ModLe ==
  ASSUME NEW p \in Nat
  PROVE  p % PosMod \in Nat /\ p % PosMod <= p
<1> DEFINE q == p \div PosMod
           r == p % PosMod
<1>1. PosMod \in Nat \ {0} /\ q \in Nat /\ r \in 0 .. PosMod - 1 /\ p = PosMod * q + r
  BY Sizes255, DivModIs
<1> HIDE DEF q, r
<1>2. PosMod * q \in Nat
  BY <1>1
<1> DEFINE k == PosMod * q
<1>3. k \in Nat /\ p = k + r
  BY <1>1, <1>2
<1> HIDE DEF k
<1> QED BY <1>1, <1>3 DEF r

(* What lz4_compress has found repeats the text. *)
LEMMA MatchFound ==
  ASSUME src \in Seq(Bytes), NEW a \in Nat, a <= ip, ip \in Nat,
         NEW ref \in Nat, ref < ip, NEW end \in Nat, end <= SrcEnd,
         Found(ref), IsMatchEnd(ref, end)
  PROVE  Matches(src, a, ip, ref, end)
<1>1. MinMatch = 4
  BY Lz4Assumption
<1>2. end >= ip + 4 /\ SrcEnd = Len(src) /\ Len(src) \in Nat
  BY <1>1 DEF IsMatchEnd, SrcEnd
<1>3. Four(ip) = Four(ref) /\ ip - ref <= MaxDistance
  BY DEF Found
<1>4. ASSUME NEW k \in 1 .. 4
      PROVE  src[ip + k] = src[ref + k]
  <2>1. ASSUME NEW p \in Nat, p + 4 <= Len(src)
        PROVE  Four(p)[k] = src[p + k]
    BY <1>1, <2>1 DEF Four, Between
  <2>2. ip + 4 <= Len(src) /\ ref + 4 <= Len(src)
    BY <1>2
  <2> QED BY <1>3, <2>1, <2>2
<1>5. ASSUME NEW p \in ip .. ip + (end - ip) - 1
      PROVE  src[p + 1] = src[p - (ip - ref) + 1]
  <2>1. CASE p < ip + 4
    <3> DEFINE k == p - ip + 1
    <3>1. k \in 1 .. 4 /\ ip + k = p + 1 /\ ref + k = p - (ip - ref) + 1
      BY <2>1
    <3> HIDE DEF k
    <3>2. src[ip + k] = src[ref + k]
      BY <1>4, <3>1
    <3> QED BY <3>1, <3>2
  <2>2. CASE ~(p < ip + 4)
    <3>1. p \in ip + MinMatch .. end - 1 /\ p - ip + ref + 1 = p - (ip - ref) + 1
      BY <1>1, <2>2
    <3>2. src[p + 1] = src[p - ip + ref + 1]
      BY <3>1 DEF IsMatchEnd
    <3> QED BY <3>1, <3>2
  <2> QED BY <2>1, <2>2
<1> QED BY <1>1, <1>2, <1>3, <1>5 DEF Matches, Repeats

----------------------------------------------------------------------------
(* Every step keeps the chain. *)

LEMMA FirstPoint ==
  ASSUME NEW text \in Seq(Bytes)
  PROVE  IsChain(text, <<>>, {<<0, 0>>}, <<0, 0>>)
BY DEF IsChain

LEMMA InitChain == Lz4Init => ChainInv
<1> SUFFICES ASSUME Lz4Init PROVE ChainInv
  OBVIOUS
<1>1. pc = "idle" /\ src = <<>> /\ hash_table = [h \in Hashes |-> 0]
  BY DEF Lz4Init, Idle
<1> QED BY <1>1 DEF ChainInv, Compressing

LEMMA CallChain ==
  ASSUME Lz4Inv, ChainInv, Call
  PROVE  ChainInv'
<1>1. /\ pc = "idle" /\ src = <<>> /\ stream = <<>> /\ anchor = 0
      /\ \A h \in Hashes : hash_table[h] = 0
  BY DEF Call, Lz4Inv, ChainInv
<1>2. CASE \E block \in Blocks : \E capacity \in Rooms(Len(block)) : Compress(block, capacity)
  <2>1. PICK block \in Blocks : \E capacity \in Rooms(Len(block)) : Compress(block, capacity)
    BY <1>2
  <2>2. /\ block # <<>> /\ src' = block /\ pc' \in {"scan", "last"} /\ (pc' = "scan" => ip' = 1)
        /\ UNCHANGED <<anchor, hash_table, stream>>
    BY <2>1 DEF Compress
  <2>3. block \in Seq(Bytes)
    BY Lz4Assumption
  <2>4. IsChain(src', stream', {<<0, 0>>}, <<Len(stream'), anchor'>>)
    <3>1. stream' = <<>> /\ anchor' = 0 /\ Len(<<>>) = 0
      BY <1>1, <2>2
    <3>2. <<Len(stream'), anchor'>> = <<0, 0>>
      BY <3>1
    <3> QED BY <2>2, <2>3, <3>1, <3>2, FirstPoint
  <2>5. \A h \in Hashes : hash_table'[h] = 0
    BY <1>1, <2>2
  <2> QED BY <2>2, <2>4, <2>5 DEF ChainInv, Compressing
<1>3. CASE \E bytes \in Streams, original_size \in Sizes : Decompress(bytes, original_size)
  <2>1. pc' = "decode" /\ src' = <<>>
    BY <1>1, <1>3 DEF Decompress
  <2> QED BY <2>1 DEF ChainInv, Compressing
<1> QED BY <1>2, <1>3 DEF Call

LEMMA TableLe ==
  ASSUME NEW table \in [Hashes -> 0 .. PosMod - 1], NEW h \in Hashes, NEW p \in Nat, NEW limit \in Nat,
         \A g \in Hashes : table[g] < limit, p < limit
  PROVE  \A g \in Hashes : [table EXCEPT ![h] = p % PosMod][g] < limit
<1>1. p % PosMod \in Nat /\ p % PosMod <= p
  BY ModLe
<1> DEFINE r == p % PosMod
<1>2. r < limit
  BY <1>1
<1> HIDE DEF r
<1>3. \A g \in Hashes : [table EXCEPT ![h] = r][g] < limit
  BY <1>2
<1> QED BY <1>3 DEF r

LEMMA NoMatchChain ==
  ASSUME Lz4Inv, ChainInv, NoMatch
  PROVE  ChainInv'
<1> DEFINE h == Hash(Four(ip))
<1>1. /\ pc = "scan" /\ ip < MfLimit /\ UNCHANGED <<src, room, size, out, overlapped>>
      /\ hash_table' = [hash_table EXCEPT ![h] = ip % PosMod]
      /\ ip' = ip + 1 /\ UNCHANGED <<pc, anchor, stream>>
  BY DEF NoMatch, Scan
<1>2. /\ src \in Seq(Bytes) /\ ip \in Nat /\ MinMatch = 4 /\ SrcEnd \in Nat
      /\ hash_table \in [Hashes -> 0 .. PosMod - 1]
  <2>1. src \in Seq(Bytes) /\ ip \in Nat /\ hash_table \in [Hashes -> 0 .. PosMod - 1]
    BY DEF Lz4Inv, Lz4TypeOK
  <2>2. SrcEnd \in Nat
    BY <2>1 DEF SrcEnd
  <2>3. MinMatch = 4
    BY Lz4Assumption
  <2> QED BY <2>1, <2>2, <2>3
<1>3. h \in Hashes
  <2>1. ip + MinMatch <= SrcEnd
    BY <1>1, <1>2 DEF MfLimit
  <2> QED BY <1>2, <2>1, HashOfFour
<1> HIDE DEF h
<1>4. \A g \in Hashes : hash_table[g] < ip
  BY <1>1 DEF ChainInv
<1>5. \A g \in Hashes : hash_table[g] < ip + 1
  <2>1. \A g \in Hashes : hash_table[g] \in Int
    BY <1>2, Sizes255
  <2> QED BY <1>2, <1>4, <2>1
<1>6. \A g \in Hashes : hash_table'[g] < ip'
  <2> DEFINE limit == ip + 1
  <2>1. limit \in Nat /\ ip < limit /\ \A g \in Hashes : hash_table[g] < limit
    BY <1>2, <1>5
  <2> HIDE DEF limit
  <2>2. \A g \in Hashes : [hash_table EXCEPT ![h] = ip % PosMod][g] < limit
    BY <1>2, <1>3, <2>1, TableLe
  <2> QED BY <1>1, <2>2 DEF limit
<1> QED BY <1>1, <1>6 DEF ChainInv, Compressing

LEMMA ScanEndsChain ==
  ASSUME Lz4Inv, ChainInv, ScanEnds
  PROVE  ChainInv'
BY DEF ScanEnds, ChainInv, Compressing

LEMMA ReturnChain ==
  ASSUME Return
  PROVE  ChainInv'
<1>1. pc' = "idle" /\ src' = <<>> /\ hash_table' = [h \in Hashes |-> 0]
  BY DEF Return
<1> QED BY <1>1 DEF ChainInv, Compressing

LEMMA StreamEndsChain ==
  ASSUME Lz4Inv, ChainInv, StreamEnds
  PROVE  ChainInv'
<1>1. pc = "decode" /\ ip >= Len(stream) /\ pc' = "done" /\ UNCHANGED <<src, overlapped>>
  BY DEF StreamEnds
<1>2. ~(src # <<>> /\ ~overlapped)
  <2>1. SUFFICES ASSUME src # <<>>, ~overlapped PROVE FALSE
    OBVIOUS
  <2>2. PICK B, last : /\ IsChain(src, stream, B, last) /\ LastAt(src, stream, last)
                       /\ <<ip, Len(out)>> \in B
    BY <1>1, <2>1 DEF ChainInv, Decodes
  <2>3. stream \in Seq(Bytes) /\ Len(stream) \in Nat /\ ip \in Nat
    BY DEF Lz4Inv, Lz4TypeOK
  <2>4. <<ip, Len(out)>>[1] < Len(stream)
    <3> DEFINE x == <<ip, Len(out)>>
    <3>1. x \in B
      BY <2>2
    <3> HIDE DEF x
    <3>2. x[1] < Len(stream)
      BY <2>2, <2>3, <3>1, PointIsInside
    <3> QED BY <3>2 DEF x
  <2> QED BY <1>1, <2>3, <2>4
<1> QED BY <1>1, <1>2 DEF ChainInv, Compressing

(* lz4_decompress starts at the first point, having written nothing. *)
LEMMA LastRunChain ==
  ASSUME Lz4Inv, ChainInv, LastRun
  PROVE  ChainInv'
<1>1. pc = "last" /\ UNCHANGED <<src, hash_table, out, overlapped>> /\ src # <<>> /\ out = <<>>
  BY DEF LastRun, ChainInv, Lz4Inv, Compressing
<1>2. CASE pc' = "no_room"
  BY <1>1, <1>2 DEF ChainInv, Compressing
<1>3. CASE pc' # "no_room"
  <2>1. /\ stream' = stream \o <<Token(SrcEnd - anchor, 0)>> \o LengthBytes(SrcEnd - anchor)
                            \o Between(src, anchor, SrcEnd)
        /\ pc' = "decode" /\ ip' = 0 /\ size' = SrcEnd
    BY <1>3 DEF LastRun
  <2>2. /\ src \in Seq(Bytes) /\ stream \in Seq(Bytes) /\ anchor \in Nat /\ anchor <= Len(src)
        /\ SrcEnd = Len(src)
    <3>1. src \in Seq(Bytes) /\ stream \in Seq(Bytes) /\ anchor \in Nat
            /\ anchor <= ip /\ ip <= SrcEnd /\ ip \in Nat
      BY <1>1 DEF Lz4Inv, Lz4TypeOK
    <3> QED BY <3>1 DEF SrcEnd
  <2> DEFINE last == <<Len(stream), anchor>>
  <2>3. PICK B : IsChain(src, stream, B, last)
    BY <1>1 DEF ChainInv, Compressing
  <2>4. stream' \in Seq(Bytes) /\ Begins(stream, stream') /\ LastAt(src, stream', last)
    BY <2>1, <2>2, LastWritten
  <2> HIDE DEF last
  <2>5. IsChain(src, stream', B, last)
    BY <2>2, <2>3, <2>4, ChainMore
  <2>6. <<0, 0>> \in B /\ Len(<<>>) = 0 /\ Between(src, 0, 0) = <<>>
    BY <2>2, <2>5 DEF IsChain, Between
  <2>7. /\ IsChain(src', stream', B, last) /\ LastAt(src', stream', last)
        /\ <<ip', Len(out')>> \in B /\ out' = Between(src', 0, Len(out'))
    BY <1>1, <2>1, <2>4, <2>5, <2>6
  <2>8. Decodes'
    BY <1>1, <2>1, <2>7 DEF Decodes, SrcEnd
  <2> QED BY <2>1, <2>8 DEF ChainInv, Compressing
<1> QED BY <1>2, <1>3

(* Once memcpy was given buffers that overlap, it was. *)
LEMMA OverlapStays ==
  ASSUME Sequence
  PROVE  (overlapped => overlapped') /\ pc' \in {"decode", "corrupt", "done"}
<1>1. pc = "decode"
  BY DEF Sequence
<1>2. Corrupt => (overlapped => overlapped') /\ pc' = "corrupt"
  BY DEF Corrupt
<1>3. ASSUME NEW from, NEW offset, NEW length, CopyMatch(from, offset, length)
      PROVE  overlapped => overlapped'
  BY <1>3, Zenon DEF CopyMatch
<1>4. ASSUME NEW nibble, NEW p, NEW copied, AfterLiterals(nibble, p, copied)
      PROVE  (overlapped => overlapped') /\ pc' \in {"decode", "corrupt", "done"}
  <2>1. CASE Len(copied) = size
    BY <1>4, <2>1 DEF AfterLiterals
  <2>2. CASE Corrupt
    BY <1>2, <2>2
  <2>3. CASE Len(copied) # size /\ ~Corrupt
    <3>1. \E length : CopyMatch(copied, Offset(stream, p), length) /\ UNCHANGED pc
      BY <1>4, <2>3 DEF AfterLiterals
    <3> QED BY <1>1, <1>3, <3>1
  <2> QED BY <2>1, <2>2, <2>3
<1>5. Corrupt \/ \E nibble, p, copied : AfterLiterals(nibble, p, copied)
  BY DEF Sequence
<1> QED BY <1>2, <1>4, <1>5

(* A turn of lz4_decompress goes from a point to the next, or ends the text. *)
LEMMA SequenceChain ==
  ASSUME Lz4Inv, ChainInv, Sequence
  PROVE  ChainInv'
<1>1. /\ pc = "decode" /\ pc' \in {"decode", "corrupt", "done"}
      /\ UNCHANGED <<src, stream, size>> /\ (overlapped => overlapped')
  BY OverlapStays DEF Sequence
<1>2. CASE src = <<>> \/ overlapped'
  BY <1>1, <1>2 DEF ChainInv, Compressing
<1>3. CASE src # <<>> /\ ~overlapped'
  <2>1. Decodes
    BY <1>1, <1>3 DEF ChainInv
  <2> DEFINE a == Len(out)
             x == <<ip, a>>
  <2>2. PICK B, last : /\ IsChain(src, stream, B, last) /\ LastAt(src, stream, last) /\ x \in B
    BY <2>1 DEF Decodes
  <2>3. /\ size = SrcEnd /\ out = Between(src, 0, a) /\ a \in Nat /\ Len(out) = a
        /\ SrcEnd = Len(src) /\ x[1] = ip /\ x[2] = a
    BY <2>1 DEF Decodes, Lz4Inv, Lz4TypeOK, SrcEnd
  <2> HIDE DEF a
  <2>4. CASE x = last
    <3>1. a <= SrcEnd
      BY <2>2, <2>3 DEF IsChain
    <3>2. LastAt(src, stream, <<ip, a>>)
      BY <2>2, <2>4
    <3>3. pc' = "done" /\ out' = src
      BY <2>3, <3>1, <3>2, LastUndoes
    <3> QED BY <1>1, <3>3 DEF ChainInv, Compressing
  <2>5. CASE x # last
    <3>1. PICK y \in B : Joins(src, stream, x, y)
      BY <2>2, <2>5 DEF IsChain
    <3> DEFINE e == y[2]
               t == y[1]
    <3>2. y = <<t, e>> /\ e \in Nat
      BY <2>2, <3>1 DEF IsChain
    <3> HIDE DEF e, t
    <3>3. PICK i \in Nat, ref \in Nat :
            Matches(src, a, i, ref, e) /\ SequenceAt(src, stream, ip, a, i, ref, e, t)
      BY <2>3, <3>1 DEF Joins, e, t
    <3>4. pc' = "decode" /\ ip' = t /\ out' = Between(src, 0, e) /\ Len(out') = e
      BY <1>3, <2>3, <3>2, <3>3, SequenceUndoes
    <3>5. <<ip', Len(out')>> \in B
      BY <3>2, <3>4
    <3>6. Decodes'
      <4>1. /\ size' = SrcEnd' /\ out' = Between(src', 0, Len(out'))
            /\ IsChain(src', stream', B, last) /\ LastAt(src', stream', last)
        BY <1>1, <2>2, <2>3, <3>4 DEF SrcEnd
      <4> QED BY <3>5, <4>1 DEF Decodes
    <3> QED BY <3>4, <3>6 DEF ChainInv, Compressing
  <2> QED BY <2>4, <2>5
<1> QED BY <1>2, <1>3

(* A match of lz4_compress adds a point. *)
LEMMA MatchChain ==
  ASSUME Lz4Inv, ChainInv, Match
  PROVE  ChainInv'
<1> DEFINE h   == Hash(Four(ip))
           ref == hash_table[h]
<1>1. PICK end \in ip + MinMatch .. SrcEnd :
        /\ IsMatchEnd(ref, end) /\ MatchAt(ref, end)
        /\ hash_table' =
             IF end < MfLimit /\ pc' = "scan"
             THEN [hash_table EXCEPT ![h] = ip % PosMod,
                                     ![Hash(Four(end - 2))] = (end - 2) % PosMod]
             ELSE [hash_table EXCEPT ![h] = ip % PosMod]
  BY DEF Match, Scan
<1>2. /\ pc = "scan" /\ ip < MfLimit /\ UNCHANGED <<src, room, size, out, overlapped>>
      /\ Found(ref) /\ src # <<>>
  BY DEF Match, Scan, ChainInv, Compressing
<1>3. /\ src \in Seq(Bytes) /\ stream \in Seq(Bytes)
      /\ SrcEnd = Len(src) /\ SrcEnd \in Nat /\ Len(stream) \in Nat
      /\ ip \in Nat /\ anchor \in Nat /\ anchor <= ip
      /\ hash_table \in [Hashes -> 0 .. PosMod - 1]
  BY <1>2 DEF Lz4Inv, Lz4TypeOK, SrcEnd
<1>4. MinMatch = 4
  BY Lz4Assumption
<1>5. end \in Nat /\ ip + 4 <= end /\ end <= SrcEnd
  BY <1>1, <1>3, <1>4
<1>6. h \in Hashes
  BY <1>2, <1>3, <1>4, HashOfFour DEF MfLimit
<1>7. ref \in Nat /\ ref < ip /\ \A g \in Hashes : hash_table[g] < ip
  BY <1>2, <1>3, <1>6, Sizes255 DEF ChainInv
<1> HIDE DEF ref
<1>8. Matches(src, anchor, ip, ref, end)
  BY <1>1, <1>2, <1>3, <1>5, <1>7, MatchFound
<1>9. CASE pc' = "no_room"
  BY <1>2, <1>9 DEF ChainInv, Compressing
<1>10. CASE pc' # "no_room"
  <2>1. /\ stream' = stream \o <<Token(ip - anchor, end - ip - MinMatch)>>
                            \o LengthBytes(ip - anchor) \o Between(src, anchor, ip)
                            \o OffsetBytes(ip - ref) \o LengthBytes(end - ip - MinMatch)
        /\ ip' = end /\ anchor' = end /\ pc' = "scan"
    BY <1>1, <1>2, <1>10 DEF MatchAt
  <2>2. \A g \in Hashes : hash_table'[g] < end
    <3> HIDE DEF h
    <3> DEFINE table == [hash_table EXCEPT ![h] = ip % PosMod]
    <3>1. table \in [Hashes -> 0 .. PosMod - 1]
      BY <1>3, <1>6, TableSet
    <3>2. \A g \in Hashes : table[g] < end
      <4>1. \A g \in Hashes : hash_table[g] < end
        <5>1. \A g \in Hashes : hash_table[g] \in Int
          BY <1>3, Sizes255
        <5> QED BY <1>3, <1>5, <1>7, <5>1
      <4>2. ip < end
        BY <1>3, <1>5
      <4> QED BY <1>3, <1>5, <1>6, <4>1, <4>2, TableLe
    <3>3. CASE end < MfLimit
      <4> DEFINE q == end - 2
                 k == Hash(Four(q))
      <4>1. q \in Nat /\ q + MinMatch <= SrcEnd /\ q < end
        BY <1>3, <1>4, <1>5, <3>3 DEF MfLimit
      <4>2. k \in Hashes
        BY <1>3, <4>1, HashOfFour
      <4>3. [hash_table EXCEPT ![h] = ip % PosMod, ![k] = q % PosMod] = [table EXCEPT ![k] = q % PosMod]
        BY Zenon
      <4>4. hash_table' = [table EXCEPT ![k] = q % PosMod]
        BY <1>1, <2>1, <3>3, <4>3, Zenon
      <4> HIDE DEF table, q, k
      <4>5. \A g \in Hashes : [table EXCEPT ![k] = q % PosMod][g] < end
        BY <1>5, <3>1, <3>2, <4>1, <4>2, TableLe
      <4> QED BY <4>4, <4>5
    <3>4. CASE ~(end < MfLimit)
      BY <1>1, <3>2, <3>4
    <3> QED BY <3>3, <3>4
  <2> DEFINE x == <<Len(stream), anchor>>
             y == <<Len(stream'), end>>
  <2>3. PICK B : IsChain(src, stream, B, x)
    BY <1>2 DEF ChainInv, Compressing
  <2>4. /\ stream' \in Seq(Bytes) /\ Begins(stream, stream')
        /\ SequenceAt(src, stream', Len(stream), anchor, ip, ref, end, Len(stream'))
    BY <1>3, <1>5, <1>7, <1>8, <2>1, SequenceWritten
  <2>5. Joins(src, stream', x, y)
    BY <1>3, <1>7, <1>8, <2>4 DEF Joins
  <2>6. y \in (0 .. Len(stream')) \X (0 .. Len(src))
    BY <1>3, <1>5, <2>4
  <2> HIDE DEF x, y
  <2>7. IsChain(src, stream', B \cup {y}, y)
    BY <1>3, <2>3, <2>4, <2>5, <2>6, ChainGrows
  <2>8. IsChain(src', stream', B \cup {y}, <<Len(stream'), anchor'>>)
    BY <1>2, <2>1, <2>7 DEF y
  <2> QED BY <1>2, <2>1, <2>2, <2>8 DEF ChainInv, Compressing
<1> QED BY <1>9, <1>10

LEMMA NextChain == Lz4Inv /\ ChainInv /\ [Lz4Next]_lz4Vars => ChainInv'
<1> SUFFICES ASSUME Lz4Inv, ChainInv, [Lz4Next]_lz4Vars PROVE ChainInv'
  OBVIOUS
<1>1. CASE UNCHANGED lz4Vars
  BY <1>1 DEF lz4Vars, ChainInv, Compressing, Decodes, SrcEnd
<1>2. CASE Lz4Next
  BY <1>2, CallChain, NoMatchChain, MatchChain, ScanEndsChain, LastRunChain, SequenceChain,
     StreamEndsChain, ReturnChain DEF Lz4Next, Lz4Step
<1> QED BY <1>1, <1>2

(* What lz4_compress has written is, in every reachable state, a chain of sequences that stand
   for what it has read, and lz4_decompress is at one of its points (lz4_block.c:57-219). *)
THEOREM ChainInvariance == Lz4Spec => []ChainInv
<1>1. Lz4Inv /\ Lz4Inv' /\ ChainInv /\ [Lz4Next]_lz4Vars => ChainInv'
  BY NextChain
<1> QED BY <1>1, InitChain, Lz4Invariance, PTL DEF Lz4Spec

(* What was compressed decompresses to itself, for every block, every destination and every
   hash function, as long as memcpy was not given buffers that overlap. *)
THEOREM DecompressUndoes == Lz4Spec => []RoundTrip
<1>1. ChainInv => RoundTrip
  BY DEF ChainInv, RoundTrip
<1> QED BY <1>1, ChainInvariance, PTL
=============================================================================
