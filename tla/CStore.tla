------------------------------- MODULE CStore -------------------------------
(***************************************************************************)
(* main/compressed_store.c: the LZ4 block store behind every uploaded ROM, *)
(* with its cache of decompressed blocks.  One instance, one caller at a   *)
(* time; one step is one iteration of the loop of cstore_read,             *)
(* cstore_write, cstore_erase or cstore_flush.                             *)
(*                                                                         *)
(* Abstractions.  A byte is the set of its 1 bits, so 0xFF is Bits and `&' *)
(* is intersection.  LZ4 is lossless: comp_data maps the offset of a chunk *)
(* to the bytes it decompresses to, and Lz4Size gives the length           *)
(* lz4_compress returns (0 when it gives up).  The payload of a write is   *)
(* laid out on the sector grid: call.src[b][o] is the byte for offset o of *)
(* block b.  The counters reported as statistics are left out.             *)
(***************************************************************************)
EXTENDS Naturals, Sequences

CONSTANTS
  Bits,        (* The bit positions of a byte.                             *)
  BlockSize,   (* CSTORE_BLOCK_SIZE                                        *)
  ChipSize,    (* cs->chip_size                                            *)
  CacheLines,  (* CSTORE_CACHE_LINES                                       *)
  TickMod,     (* Values of a uint32_t: tick counts modulo TickMod.        *)
  Lz4Size(_),  (* What lz4_compress returns for the bytes of a block.      *)
  Images,      (* The images cstore_create may be given, padded with 0xFF. *)
  Calls        (* The calls the rest of the program may make.              *)

Byte        == SUBSET Bits
FF          == Bits
NumBlocks   == (ChipSize + BlockSize - 1) \div BlockSize
Blocks      == 0 .. NumBlocks - 1
Offsets     == 0 .. BlockSize - 1
Lines       == 0 .. CacheLines - 1
Content     == [Offsets -> Byte]
ErasedBlock == [o \in Offsets |-> FF]
Idle        == [op |-> "none"]

(* The last block of a chip that is not a whole number of blocks is short. *)
BlockLen(b) ==
  IF b * BlockSize + BlockSize > ChipSize
  THEN ChipSize - b * BlockSize
  ELSE BlockSize

ReadCalls  == [op : {"read"}, addr : Nat, len : Nat \ {0}]
WriteCalls == [op : {"write"}, addr : Nat, len : Nat \ {0},
               src : [Blocks -> Content], flash : BOOLEAN]
EraseCalls == [op : {"erase"}, addr : Nat, len : Nat \ {0}]
FlushCalls == [op : {"flush"}, addr : {0}, len : {CacheLines}]

ASSUME SizesAssumption ==
  /\ BlockSize \in Nat \ {0} /\ ChipSize \in Nat \ {0}
  /\ CacheLines \in Nat \ {0}
  /\ TickMod \in Nat \ {0}

ASSUME ImagesAssumption ==
  /\ Images \subseteq [Blocks -> Content]
  /\ \A image \in Images, b \in Blocks, o \in Offsets :
       o >= BlockLen(b) => image[b][o] = FF

ASSUME CallsAssumption ==
  Calls \subseteq ReadCalls \cup WriteCalls \cup EraseCalls \cup FlushCalls

VARIABLES
  store,  (* [blocks, comp_data, comp_data_used, comp_data_size] of cs     *)
  cache,  (* cs->cache, a record per line                                  *)
  tick,   (* cs->tick                                                      *)
  call,   (* The call in progress and what its loop has left to do         *)
  dst     (* The bytes the last cstore_read has delivered                  *)

vars == <<store, cache, tick, call, dst>>

----------------------------------------------------------------------------
(* Compression.  A chunk is the first BlockLen(b) bytes of a block. *)

ChunkOf(b, d) == [o \in 0 .. BlockLen(b) - 1 |-> d[o]]

IsErasedBlock(b, d) == \A o \in 0 .. BlockLen(b) - 1 : d[o] = FF

(* Mutant: an incompressible block keeps the size LZ4 gave it. *)
StoredSize_NoRawFallback(b, d) == Lz4Size(ChunkOf(b, d))

StoredSize(b, d) ==
  LET n == Lz4Size(ChunkOf(b, d))
  IN  IF n \in 1 .. BlockLen(b) - 1 THEN n ELSE BlockLen(b)

CompSize(b, d) == IF IsErasedBlock(b, d) THEN 0 ELSE StoredSize(b, d)

(* cs->blocks[b] and the chunk it points to, as the bytes a load delivers. *)
Fetch(st, b) ==
  IF st.blocks[b].comp_size = 0
  THEN ErasedBlock
  ELSE [o \in Offsets |-> IF o < BlockLen(b)
                          THEN st.comp_data[st.blocks[b].offset][o]
                          ELSE FF]


HasRoom(st, n) == st.comp_data_used + n <= st.comp_data_size

Appended(st, b, d) ==
  LET at == st.comp_data_used
      n  == StoredSize(b, d)
  IN  [st EXCEPT
         !.blocks[b]      = [offset |-> at, comp_size |-> n],
         !.comp_data      = [p \in (DOMAIN st.comp_data) \cup {at} |->
                               IF p = at THEN ChunkOf(b, d) ELSE st.comp_data[p]],
         !.comp_data_used = at + n]

(***************************************************************************)
(* flush_cache_line: the compressed form of line ln is appended when the   *)
(* buffer has room; otherwise it is not stored anywhere.                   *)
(***************************************************************************)
FlushCacheLine(st, ln) ==
  LET b == ln.block_idx
  IN  IF ~ln.dirty \/ ~ln.valid THEN st
      ELSE IF IsErasedBlock(b, ln.data)
           THEN [st EXCEPT !.blocks[b].comp_size = 0]
      ELSE IF HasRoom(st, StoredSize(b, ln.data))
           THEN Appended(st, b, ln.data)
      ELSE st

----------------------------------------------------------------------------
(* The cache. *)

NextTick == (tick + 1) % TickMod
MaxTick  == TickMod - 1

(* Mutant: cache_find stops one line early. *)
CachedAt_SkipsLastLine(b) ==
  {l \in Lines : l # CacheLines - 1 /\ cache[l].valid /\ cache[l].block_idx = b}

CachedAt(b) == {l \in Lines : cache[l].valid /\ cache[l].block_idx = b}
FreeLines   == {l \in Lines : ~cache[l].valid}

Lowest(l, S) == l \in S /\ \A k \in S : l <= k

(* Mutant: the comparison is the wrong way round. *)
Oldest_Newest(l) ==
  \A k \in Lines : \/ cache[l].access_tick > cache[k].access_tick
                   \/ cache[l].access_tick = cache[k].access_tick /\ l <= k

(* cache_evict_lru: the scan keeps a line only when its tick is below UINT32_MAX
   and below that of every line before it. *)
Oldest(l) ==
  /\ cache[l].access_tick < MaxTick
  /\ \A k \in Lines : \/ cache[l].access_tick < cache[k].access_tick
                      \/ cache[l].access_tick = cache[k].access_tick /\ l <= k

CacheEvictLru(l) ==
  IF FreeLines # {}
  THEN Lowest(l, FreeLines)
  ELSE \/ Oldest(l)
       \/ l = 0 /\ \A k \in Lines : cache[k].access_tick = MaxTick

(* cache_load_block(b) settles on line l: the line found, or the line evicted. *)
LoadsInto(b, l) ==
  IF CachedAt(b) # {} THEN Lowest(l, CachedAt(b)) ELSE CacheEvictLru(l)

LoadedStore(b, l) ==
  IF CachedAt(b) # {} THEN store ELSE FlushCacheLine(store, cache[l])

LoadedLine(b, l) ==
  IF CachedAt(b) # {}
  THEN [cache[l] EXCEPT !.access_tick = NextTick]
  ELSE [valid |-> TRUE, dirty |-> FALSE, block_idx |-> b,
        access_tick |-> NextTick, data |-> Fetch(LoadedStore(b, l), b)]

CacheLoadBlock(b, l) ==
  /\ LoadsInto(b, l)
  /\ store' = LoadedStore(b, l)
  /\ tick' = NextTick

----------------------------------------------------------------------------
(* Calls.  The loop of a call works on the block its address has reached. *)

Block(a)  == a \div BlockSize
Offset(a) == a % BlockSize

Chunk ==
  IF call.len < BlockSize - Offset(call.addr)
  THEN call.len
  ELSE BlockSize - Offset(call.addr)

Pending(op) == call.op = op /\ call.len > 0
InChip      == call.addr < ChipSize

Advance(n) ==
  call' = IF call.len = n
          THEN Idle
          ELSE [call EXCEPT !.addr = @ + n, !.len = @ - n]

(***************************************************************************)
(* cstore_create.  Its two passes over the image append the chunks of the  *)
(* blocks that are not erased one after the other; off is where each block *)
(* starts, off[NumBlocks] the total.  The buffer is exactly that large.    *)
(***************************************************************************)
(* Mutant: write_pos is not advanced past a block stored raw. *)
Layouts_RawNotCounted(image) ==
  {off \in [0 .. NumBlocks -> 0 .. NumBlocks * BlockSize] :
     /\ off[0] = 0
     /\ \A b \in Blocks :
          off[b + 1] = off[b] + (IF CompSize(b, image[b]) = BlockLen(b)
                                 THEN 0 ELSE CompSize(b, image[b]))
     /\ \A b, c \in 0 .. NumBlocks : b <= c => off[b] <= off[c]}

Layouts(image) ==
  {off \in [0 .. NumBlocks -> 0 .. NumBlocks * BlockSize] :
     /\ off[0] = 0
     /\ \A b \in Blocks : off[b + 1] = off[b] + CompSize(b, image[b])
     /\ \A b, c \in 0 .. NumBlocks : b <= c => off[b] <= off[c]}

(* Mutant: the buffer is given room for one more block. *)
BufferSize_SpareBlock(off) == off[NumBlocks] + BlockSize

BufferSize(off) == off[NumBlocks]

CStoreCreate(image, off) ==
  LET live  == {b \in Blocks : CompSize(b, image[b]) # 0}
      at(p) == CHOOSE b \in live : off[b] = p
  IN  [blocks |-> [b \in Blocks |->
                     [offset    |-> IF b \in live THEN off[b] ELSE 0,
                      comp_size |-> CompSize(b, image[b])]],
       comp_data |-> [p \in {off[b] : b \in live} |-> ChunkOf(at(p), image[at(p)])],
       comp_data_used |-> off[NumBlocks],
       comp_data_size |-> BufferSize(off)]

(* calloc zeroes a line; NumBlocks stands for the block_idx UINT32_MAX. *)
EmptyLine == [valid |-> FALSE, dirty |-> FALSE, block_idx |-> NumBlocks,
              access_tick |-> 0, data |-> [o \in Offsets |-> {}]]

Init ==
  /\ \E image \in Images : \E off \in Layouts(image) : store = CStoreCreate(image, off)
  /\ cache = [l \in Lines |-> EmptyLine]
  /\ tick = 0
  /\ call = Idle
  /\ dst = <<>>

StartCall ==
  /\ call = Idle
  /\ \E c \in Calls : call' = c
  /\ dst' = <<>>
  /\ UNCHANGED <<store, cache, tick>>

(* cstore_read, one block of it; cstore_read_byte is a read of length 1. *)
ReadBlock ==
  LET b == Block(call.addr)
      o == Offset(call.addr)
      n == Chunk
  IN  /\ Pending("read") /\ InChip
      /\ \E l \in Lines :
           /\ CacheLoadBlock(b, l)
           /\ cache' = [cache EXCEPT ![l] = LoadedLine(b, l)]
           /\ dst' = dst \o [k \in 1 .. n |-> LoadedLine(b, l).data[o + k - 1]]
      /\ Advance(n)

ReadBeyondChip ==
  /\ Pending("read") /\ ~InChip
  /\ dst' = dst \o [k \in 1 .. call.len |-> FF]
  /\ call' = Idle
  /\ UNCHANGED <<store, cache, tick>>

(* Mutant: a program sets bits as well as clearing them. *)
Programmed_SetsBits(b, o, n, d) ==
  [i \in Offsets |-> IF i < o \/ i >= o + n THEN d[i] ELSE call.src[b][i]]

(* The bytes o .. o+n-1 of d, programmed or overwritten from the payload. *)
Programmed(b, o, n, d) ==
  [i \in Offsets |-> IF i < o \/ i >= o + n THEN d[i]
                     ELSE IF call.flash THEN d[i] \cap call.src[b][i]
                     ELSE call.src[b][i]]

(* Mutant: the line is not marked dirty. *)
WriteBlock_NotDirty ==
  LET b == Block(call.addr)
  IN  /\ Pending("write") /\ InChip
      /\ \E l \in Lines :
           /\ CacheLoadBlock(b, l)
           /\ cache' = [cache EXCEPT ![l] =
                [LoadedLine(b, l) EXCEPT !.data = Programmed(b, Offset(call.addr), Chunk, @)]]
      /\ Advance(Chunk)
      /\ UNCHANGED dst

WriteBlock ==
  LET b == Block(call.addr)
      o == Offset(call.addr)
      n == Chunk
  IN  /\ Pending("write") /\ InChip
      /\ \E l \in Lines :
           /\ CacheLoadBlock(b, l)
           /\ cache' = [cache EXCEPT ![l] =
                [LoadedLine(b, l) EXCEPT !.data = Programmed(b, o, n, @), !.dirty = TRUE]]
      /\ Advance(n)
      /\ UNCHANGED dst

(* cstore_erase of a whole block: nothing is loaded, a cached copy is wiped. *)
EraseWholeBlock ==
  LET b == Block(call.addr)
  IN  /\ Pending("erase") /\ InChip
      /\ Offset(call.addr) = 0 /\ call.len >= BlockSize
      /\ store' = [store EXCEPT !.blocks[b].comp_size = 0]
      /\ cache' = [l \in Lines |-> IF Lowest(l, CachedAt(b))
                                   THEN [cache[l] EXCEPT !.data = ErasedBlock, !.dirty = FALSE]
                                   ELSE cache[l]]
      /\ Advance(BlockSize)
      /\ UNCHANGED <<tick, dst>>

ErasePartOfBlock ==
  LET b == Block(call.addr)
      o == Offset(call.addr)
      n == Chunk
  IN  /\ Pending("erase") /\ InChip
      /\ ~(o = 0 /\ call.len >= BlockSize)
      /\ \E l \in Lines :
           /\ CacheLoadBlock(b, l)
           /\ cache' = [cache EXCEPT ![l] =
                [LoadedLine(b, l) EXCEPT
                   !.data  = [i \in Offsets |-> IF i < o \/ i >= o + n THEN @[i] ELSE FF],
                   !.dirty = TRUE]]
      /\ Advance(n)
      /\ UNCHANGED dst

(* cstore_write and cstore_erase return at the end of the chip. *)
StopBeyondChip ==
  /\ Pending("write") \/ Pending("erase")
  /\ ~InChip
  /\ call' = Idle
  /\ UNCHANGED <<store, cache, tick, dst>>

(* cstore_flush, one cache line of it: call.addr is the loop variable. *)
FlushLine ==
  LET l == call.addr
  IN  /\ Pending("flush")
      /\ store' = FlushCacheLine(store, cache[l])
      /\ cache' = [cache EXCEPT ![l].dirty = @ /\ ~cache[l].valid]
      /\ Advance(1)
      /\ UNCHANGED <<tick, dst>>

Step ==
  \/ ReadBlock \/ ReadBeyondChip
  \/ WriteBlock
  \/ EraseWholeBlock \/ ErasePartOfBlock
  \/ StopBeyondChip
  \/ FlushLine

Next == StartCall \/ Step

Spec == Init /\ [][Next]_vars

----------------------------------------------------------------------------
(* Properties. *)

ValidLines == {l \in Lines : cache[l].valid}
LiveBlocks == {b \in Blocks : store.blocks[b].comp_size # 0}

(* Type invariant.  Its part that says something of the code: a block that is
   not erased points at a chunk of its own length, stored in no more bytes than
   the block has (cstore_create, flush_cache_line). *)
ChunkOK(st, b) ==
  LET bi == st.blocks[b]
  IN  /\ bi.comp_size <= BlockLen(b)
      /\ bi.comp_size # 0 =>
           /\ bi.offset \in DOMAIN st.comp_data
           /\ st.comp_data[bi.offset] \in [0 .. BlockLen(b) - 1 -> Byte]

StoreOK(st) ==
  /\ st = [blocks         |-> st.blocks,
           comp_data      |-> st.comp_data,
           comp_data_used |-> st.comp_data_used,
           comp_data_size |-> st.comp_data_size]
  /\ st.blocks \in [Blocks -> [offset : Nat, comp_size : Nat]]
  /\ st.comp_data_used \in Nat /\ st.comp_data_size \in Nat
  /\ \A b \in Blocks : ChunkOK(st, b)

LineType == [valid : BOOLEAN, dirty : BOOLEAN, block_idx : 0 .. NumBlocks,
             access_tick : 0 .. MaxTick, data : Content]

CallType ==
  ReadCalls \cup WriteCalls \cup EraseCalls
    \cup [op : {"flush"}, addr : Lines, len : 1 .. CacheLines] \cup {Idle}

TypeOK ==
  /\ StoreOK(store)
  /\ cache \in [Lines -> LineType]
  /\ \A l \in ValidLines : cache[l].block_idx \in Blocks
  /\ tick \in 0 .. MaxTick
  /\ call \in CallType
  /\ dst \in Seq(Byte)

(* No block is in two cache lines: a write would reach one copy and a read the
   other (cache_find, cache_load_block). *)
OneLinePerBlock ==
  \A l, m \in ValidLines : cache[l].block_idx = cache[m].block_idx => l = m

(* The buffer is allocated to the exact size of the first compression, so the
   append of flush_cache_line never has room: whatever is programmed into a
   block lives in the cache only. *)
NoRoomForFlush ==
  \A l \in ValidLines :
    LET ln == cache[l]
        n  == StoredSize(ln.block_idx, ln.data)
    IN  ~IsErasedBlock(ln.block_idx, ln.data)
          => store.comp_data_used + n > store.comp_data_size

(* The chunks of two blocks that are not erased share no byte of comp_data, and
   each lies in the used part of the buffer (cstore_create, flush_cache_line). *)
ChunksDisjoint ==
  \A b \in LiveBlocks :
    LET first(x) == store.blocks[x].offset
        last(x)  == first(x) + store.blocks[x].comp_size
    IN  /\ last(b) <= store.comp_data_used
        /\ \A c \in LiveBlocks \ {b} : last(b) <= first(c) \/ last(c) <= first(b)

(* A line that is not dirty holds what a reload of its block would deliver. *)
CleanLinesMatchStore ==
  \A l \in ValidLines :
    ~cache[l].dirty => cache[l].data = Fetch(store, cache[l].block_idx)

(* What a reader of block b is given: its line, or the chunk in the store. *)
Visible(b) ==
  IF CachedAt(b) # {}
  THEN cache[CHOOSE l \in Lines : Lowest(l, CachedAt(b))].data
  ELSE Fetch(store, b)

VF == INSTANCE VolatileFlash WITH
        mem     <- [b \in Blocks |-> Visible(b)],
        durable <- [b \in Blocks |-> Fetch(store, b)]

(* Cache, compression and buffer together behave as the flash device of
   VolatileFlash: reads deliver what was programmed, a program or an erase
   touches its own bytes, and other sectors change only by falling back. *)
Refines == VF!Spec

(* What the comment in flush_cache_line says of a block that cannot be stored,
   "Keep the block cached and dirty - reads still work from cache": the content
   of a block changes only when that block is written or erased. *)
NoLostWrite ==
  [][\A b \in Blocks :
       \/ Visible(b)' = Visible(b)
       \/ call.op \in {"write", "erase"} /\ InChip /\ Block(call.addr) = b]_vars
=============================================================================
