---------------------------- MODULE MCLz4Block ----------------------------
(* Instances of Lz4Block: blocks of two byte values, with a hash that collides, table
   positions that wrap, and lengths of several bytes. *)
EXTENDS Lz4Block, FiniteSets, SequencesExt

CONSTANTS MaxBlock, MaxStream

MCHash(v)  == (v[1] + v[2] + v[4]) % 2
MCHashes   == 0 .. 1
MCBlocks   == UNION {[1 .. n -> {0, 1}] : n \in 0 .. MaxBlock}
MCStreams  == UNION {[1 .. n -> Bytes] : n \in 0 .. MaxStream}
MCRooms(n) == {n, Bound(n)}
MCSizes    == {1, 6}
=============================================================================
