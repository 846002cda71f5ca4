---------------------------- MODULE CStoreProofs ----------------------------
(***************************************************************************)
(* Theorems about CStore, for every block size, chip size, number of cache *)
(* lines, compressor and set of calls.                                     *)
(***************************************************************************)
EXTENDS CStoreLRU, Integers, FiniteSetTheorems, TLAPS

(***************************************************************************)
(* The inductive invariant.  A flush never appends because the buffer is   *)
(* full from the start, so chunks never move; a flush call counts lines.   *)
(***************************************************************************)
BufferFull  == store.comp_data_used = store.comp_data_size
FlushCounts == call.op = "flush" => call.addr + call.len = CacheLines

IInv == TypeOK /\ OneLinePerBlock /\ BufferFull /\ FlushCounts

----------------------------------------------------------------------------
LEMMA NumBlocksNat == NumBlocks \in Nat
<1>1. BlockSize \in Nat \ {0} /\ ChipSize + BlockSize - 1 \in Nat
  BY SizesAssumption
<1> DEFINE n == ChipSize + BlockSize - 1
<1> HIDE DEF n
<1>2. n \in Nat => n \div BlockSize \in Nat
  BY <1>1
<1> QED BY <1>1, <1>2 DEF n, NumBlocks

(* The sizes: every block has at least one byte and at most BlockSize. *)
LEMMA BlockLenBounds ==
  ASSUME NEW b \in Blocks
  PROVE  BlockLen(b) \in 1 .. BlockSize
<1> DEFINE n == ChipSize + BlockSize - 1
<1>1. BlockSize \in Nat \ {0} /\ ChipSize \in Nat \ {0}
  BY SizesAssumption
<1>2. n \in Nat /\ NumBlocks = n \div BlockSize
  BY <1>1 DEF NumBlocks
<1>3. NumBlocks \in Nat /\ NumBlocks * BlockSize <= n
  <2> HIDE DEF n
  <2> QED BY <1>1, <1>2
<1>4. b \in Nat /\ b + 1 <= NumBlocks
  BY <1>3 DEF Blocks
<1>5. (b + 1) * BlockSize <= NumBlocks * BlockSize
  BY <1>1, <1>3, <1>4, Z3
<1>6. (b + 1) * BlockSize = b * BlockSize + BlockSize
  BY <1>1, <1>4, Z3
<1>7. b * BlockSize \in Nat
  BY <1>1, <1>4
<1> DEFINE start == b * BlockSize
<1>8. start \in Nat /\ start + BlockSize <= ChipSize + BlockSize - 1
  BY <1>1, <1>3, <1>5, <1>6, <1>7
<1>9. BlockLen(b) = IF start + BlockSize > ChipSize THEN ChipSize - start ELSE BlockSize
  BY DEF BlockLen
<1> HIDE DEF start
<1> QED BY <1>1, <1>8, <1>9

(* The block and the offset an address on the chip stands for. *)
LEMMA AddressSplits ==
  ASSUME NEW a \in Nat
  PROVE  /\ Block(a) \in Nat
         /\ Offset(a) \in Offsets
         /\ a < ChipSize => Block(a) \in Blocks
<1>1. BlockSize \in Nat \ {0} /\ ChipSize \in Nat \ {0}
  BY SizesAssumption
<1>2. a \div BlockSize \in Nat /\ a % BlockSize \in 0 .. BlockSize - 1
  BY <1>1
<1>3. ASSUME a < ChipSize
      PROVE  a \div BlockSize \in 0 .. NumBlocks - 1
  BY <1>1, <1>3, Z3 DEF NumBlocks
<1> QED BY <1>2, <1>3 DEF Block, Offset, Offsets, Blocks

(* What a loop of a call works on is a piece of one block, and not empty. *)
LEMMA ChunkBounds ==
  ASSUME call.addr \in Nat, call.len \in Nat \ {0}
  PROVE  /\ Chunk \in 1 .. BlockSize
         /\ Chunk <= call.len
         /\ Offset(call.addr) + Chunk <= BlockSize
<1>1. BlockSize \in Nat \ {0} /\ Offset(call.addr) \in 0 .. BlockSize - 1
  BY SizesAssumption, AddressSplits DEF Offsets
<1> QED BY <1>1 DEF Chunk

(* A block is never stored in more bytes than it has, nor in none. *)
LEMMA SizeBounds ==
  ASSUME NEW b \in Blocks, NEW d
  PROVE  /\ StoredSize(b, d) \in 1 .. BlockLen(b)
         /\ CompSize(b, d) \in 0 .. BlockLen(b)
BY BlockLenBounds, SizesAssumption DEF StoredSize, CompSize

LEMMA FetchType ==
  ASSUME NEW st, StoreOK(st), NEW b \in Blocks
  PROVE  Fetch(st, b) \in Content
<1>1. BlockLen(b) \in 1 .. BlockSize /\ BlockSize \in Nat
  BY BlockLenBounds, SizesAssumption
<1>2. CASE st.blocks[b].comp_size = 0
  BY <1>2 DEF Fetch, Content, ErasedBlock, Byte, FF
<1>3. CASE st.blocks[b].comp_size # 0
  <2> DEFINE chunk == st.comp_data[st.blocks[b].offset]
  <2>1. chunk \in [0 .. BlockLen(b) - 1 -> Byte]
    BY <1>3 DEF StoreOK, ChunkOK
  <2>2. \A o \in Offsets : o < BlockLen(b) => chunk[o] \in Byte
    BY <1>1, <2>1 DEF Offsets
  <2>3. FF \in Byte
    BY DEF FF, Byte
  <2>4. Fetch(st, b) = [o \in Offsets |-> IF o < BlockLen(b) THEN chunk[o] ELSE FF]
    BY <1>3 DEF Fetch
  <2> HIDE DEF chunk
  <2> QED BY <2>2, <2>3, <2>4 DEF Content
<1> QED BY <1>2, <1>3

(* Erasing a block keeps the store well formed and its buffer as it was. *)
LEMMA EraseStoreOK ==
  ASSUME NEW st, StoreOK(st), NEW b \in Blocks
  PROVE  LET st1 == [st EXCEPT !.blocks[b].comp_size = 0]
         IN  /\ StoreOK(st1)
             /\ st1.comp_data_used = st.comp_data_used
             /\ st1.comp_data_size = st.comp_data_size
             /\ st1.comp_data = st.comp_data
             /\ st1.blocks = [st.blocks EXCEPT ![b].comp_size = 0]
<1> DEFINE bl  == [st.blocks EXCEPT ![b].comp_size = 0]
           st1 == [st EXCEPT !.blocks[b].comp_size = 0]
<1>1. st1 = [blocks         |-> bl,
             comp_data      |-> st.comp_data,
             comp_data_used |-> st.comp_data_used,
             comp_data_size |-> st.comp_data_size]
  <2> DEFINE r == [blocks         |-> st.blocks,
                   comp_data      |-> st.comp_data,
                   comp_data_used |-> st.comp_data_used,
                   comp_data_size |-> st.comp_data_size]
  <2>1. [r EXCEPT !.blocks[b].comp_size = 0]
          = [blocks         |-> bl,
             comp_data      |-> st.comp_data,
             comp_data_used |-> st.comp_data_used,
             comp_data_size |-> st.comp_data_size]
    OBVIOUS
  <2>2. st = r
    BY DEF StoreOK
  <2> HIDE DEF r, bl
  <2>3. [st EXCEPT !.blocks[b].comp_size = 0] = [r EXCEPT !.blocks[b].comp_size = 0]
    BY <2>2, Zenon
  <2> QED BY <2>1, <2>3, Zenon
<1>2. bl \in [Blocks -> [offset : Nat, comp_size : Nat]]
  BY DEF StoreOK
<1>3. \A c \in Blocks : /\ bl[c].offset = st.blocks[c].offset
                        /\ bl[c].comp_size = IF c = b THEN 0 ELSE st.blocks[c].comp_size
  BY DEF StoreOK
<1>4. \A c \in Blocks : ChunkOK(st1, c)
  <2> SUFFICES ASSUME NEW c \in Blocks PROVE ChunkOK(st1, c)
    OBVIOUS
  <2>1. ChunkOK(st, c) /\ BlockLen(c) \in 1 .. BlockSize /\ BlockSize \in Nat
    BY BlockLenBounds, SizesAssumption DEF StoreOK
  <2>2. st1.blocks = bl /\ st1.comp_data = st.comp_data
    BY <1>1
  <2> QED BY <1>3, <2>1, <2>2 DEF ChunkOK
<1> HIDE DEF bl, st1
<1>5. StoreOK(st1)
  BY <1>1, <1>2, <1>4 DEF StoreOK
<1> QED BY <1>1, <1>5 DEF bl, st1

----------------------------------------------------------------------------
(* flush_cache_line: the buffer being full, a line is dropped, or found all
   0xFF and its block marked erased; it is never appended. *)
LEMMA FlushNeverAppends ==
  ASSUME IInv, NEW l \in Lines
  PROVE  LET b == cache[l].block_idx
         IN  \/ FlushCacheLine(store, cache[l]) = store
             \/ /\ cache[l].valid /\ b \in Blocks
                /\ IsErasedBlock(b, cache[l].data)
                /\ FlushCacheLine(store, cache[l]) = [store EXCEPT !.blocks[b].comp_size = 0]
<1> DEFINE ln == cache[l]
           b  == ln.block_idx
<1>1. CASE ~ln.dirty \/ ~ln.valid
  BY <1>1 DEF FlushCacheLine
<1>2. CASE ln.dirty /\ ln.valid
  <2>1. b \in Blocks
    BY <1>2 DEF IInv, TypeOK, ValidLines
  <2>2. ~HasRoom(store, StoredSize(b, ln.data))
    <3>1. StoredSize(b, ln.data) \in 1 .. BlockLen(b) /\ BlockLen(b) \in Nat
      BY <2>1, SizeBounds, BlockLenBounds
    <3>2. store.comp_data_used \in Nat /\ store.comp_data_used = store.comp_data_size
      BY DEF IInv, TypeOK, StoreOK, BufferFull
    <3> QED BY <3>1, <3>2 DEF HasRoom
  <2> QED BY <1>2, <2>1, <2>2 DEF FlushCacheLine
<1> QED BY <1>1, <1>2

LEMMA FlushStoreOK ==
  ASSUME IInv, NEW l \in Lines
  PROVE  LET st1 == FlushCacheLine(store, cache[l])
         IN  StoreOK(st1) /\ st1.comp_data_used = st1.comp_data_size
<1> DEFINE b == cache[l].block_idx
<1>1. StoreOK(store) /\ store.comp_data_used = store.comp_data_size
  BY DEF IInv, TypeOK, BufferFull
<1>2. CASE FlushCacheLine(store, cache[l]) = store
  BY <1>1, <1>2
<1>3. CASE /\ b \in Blocks
           /\ FlushCacheLine(store, cache[l]) = [store EXCEPT !.blocks[b].comp_size = 0]
  <2> HIDE DEF b
  <2> QED BY <1>1, <1>3, EraseStoreOK
<1> QED BY <1>2, <1>3, FlushNeverAppends

(* cache_load_block: the line it returns is valid and holds block b, and no
   other line does; the store stays well formed. *)
LEMMA LoadFacts ==
  ASSUME IInv, NEW b \in Blocks, NEW l \in Lines, LoadsInto(b, l)
  PROVE  /\ LoadedLine(b, l) \in LineType
         /\ LoadedLine(b, l).valid
         /\ LoadedLine(b, l).block_idx = b
         /\ \A m \in ValidLines : cache[m].block_idx = b => m = l
         /\ StoreOK(LoadedStore(b, l))
         /\ LoadedStore(b, l).comp_data_used = LoadedStore(b, l).comp_data_size
         /\ NextTick \in 0 .. MaxTick
<1>1. cache[l] \in LineType /\ StoreOK(store) /\ BufferFull
  BY DEF IInv, TypeOK
<1>2. NextTick \in 0 .. MaxTick
  <2>1. tick \in Nat /\ TickMod \in Nat \ {0}
    BY SizesAssumption DEF IInv, TypeOK, MaxTick
  <2> QED BY <2>1 DEF NextTick, MaxTick
<1>3. CASE CachedAt(b) # {}
  <2>1. l \in CachedAt(b)
    BY <1>3 DEF LoadsInto, Lowest
  <2>2. cache[l].valid /\ cache[l].block_idx = b
    BY <2>1 DEF CachedAt
  <2>3. LoadedLine(b, l) = [cache[l] EXCEPT !.access_tick = NextTick]
    BY <1>3 DEF LoadedLine
  <2>4. LoadedLine(b, l) \in LineType /\ LoadedLine(b, l).valid
          /\ LoadedLine(b, l).block_idx = b
    BY <1>1, <1>2, <2>2, <2>3 DEF LineType
  <2>5. \A m \in ValidLines : cache[m].block_idx = b => m = l
    BY <2>2 DEF IInv, OneLinePerBlock, ValidLines
  <2> QED BY <1>1, <1>2, <1>3, <2>4, <2>5 DEF LoadedStore, BufferFull
<1>4. CASE CachedAt(b) = {}
  <2>1. StoreOK(LoadedStore(b, l))
          /\ LoadedStore(b, l).comp_data_used = LoadedStore(b, l).comp_data_size
    BY <1>4, FlushStoreOK DEF LoadedStore
  <2>2. Fetch(LoadedStore(b, l), b) \in Content
    BY <2>1, FetchType
  <2>3. LoadedLine(b, l) = [valid |-> TRUE, dirty |-> FALSE, block_idx |-> b,
                            access_tick |-> NextTick,
                            data |-> Fetch(LoadedStore(b, l), b)]
    BY <1>4 DEF LoadedLine
  <2>4. b \in 0 .. NumBlocks
    BY NumBlocksNat DEF Blocks
  <2>5. LoadedLine(b, l) \in LineType /\ LoadedLine(b, l).valid
          /\ LoadedLine(b, l).block_idx = b
    BY <1>2, <2>2, <2>3, <2>4 DEF LineType
  <2>6. \A m \in ValidLines : cache[m].block_idx # b
    BY <1>4 DEF CachedAt, ValidLines
  <2> QED BY <1>2, <2>1, <2>5, <2>6
<1> QED BY <1>3, <1>4

(* Putting a line that holds block b where b was loaded keeps the cache sound. *)
LEMMA PutKeepsCache ==
  ASSUME IInv, NEW b \in Blocks, NEW l \in Lines, LoadsInto(b, l),
         NEW ln \in LineType, ln.valid, ln.block_idx = b,
         cache' = [cache EXCEPT ![l] = ln]
  PROVE  /\ cache' \in [Lines -> LineType]
         /\ (\A m \in ValidLines : cache[m].block_idx \in Blocks)'
         /\ OneLinePerBlock'
<1>1. cache \in [Lines -> LineType] /\ \A m \in ValidLines : cache[m].block_idx \in Blocks
  BY DEF IInv, TypeOK
<1>2. \A m \in Lines : cache'[m] = IF m = l THEN ln ELSE cache[m]
  BY <1>1
<1>3. \A m \in ValidLines : cache[m].block_idx = b => m = l
  BY LoadFacts
<1>4. ValidLines' = ValidLines \cup {l}
  BY <1>2 DEF ValidLines
<1>5. (\A m \in ValidLines : cache[m].block_idx \in Blocks)'
  BY <1>1, <1>2, <1>4 DEF ValidLines
<1>6. OneLinePerBlock'
  BY <1>2, <1>3, <1>4 DEF OneLinePerBlock, ValidLines, IInv
<1> QED BY <1>1, <1>5, <1>6

(* The rest of a call is a call, and the next one is of the same kind. *)
LEMMA AdvanceKeepsCall ==
  ASSUME IInv, call # Idle, NEW n \in Nat \ {0}, n <= call.len, Advance(n),
         call.op = "flush" => n = 1
  PROVE  call' \in CallType /\ FlushCounts'
<1>1. call \in CallType /\ FlushCounts
  BY DEF IInv, TypeOK
<1>2. CASE call.len = n
  BY <1>2 DEF Advance, CallType, FlushCounts, Idle
<1>3. CASE call.len # n
  <2>1. call' = [call EXCEPT !.addr = @ + n, !.len = @ - n]
    BY <1>3 DEF Advance
  <2>2. CASE call \in ReadCalls
    <3>1. call.addr + n \in Nat /\ call.len - n \in Nat \ {0}
      BY <1>3, <2>2 DEF ReadCalls
    <3>2. call' = [op |-> "read", addr |-> call.addr + n, len |-> call.len - n]
      BY <2>1, <2>2 DEF ReadCalls
    <3>3. call' \in ReadCalls /\ call'.op = "read"
      BY <2>2, <3>1, <3>2 DEF ReadCalls
    <3> QED BY <3>3 DEF CallType, FlushCounts
  <2>3. CASE call \in WriteCalls
    <3>1. call.addr + n \in Nat /\ call.len - n \in Nat \ {0}
      BY <1>3, <2>3 DEF WriteCalls
    <3>2. call' = [op |-> "write", addr |-> call.addr + n, len |-> call.len - n,
                      src |-> call.src, flash |-> call.flash]
      BY <2>1, <2>3 DEF WriteCalls
    <3>3. call' \in WriteCalls /\ call'.op = "write"
      BY <2>3, <3>1, <3>2 DEF WriteCalls
    <3> QED BY <3>3 DEF CallType, FlushCounts
  <2>4. CASE call \in EraseCalls
    <3>1. call.addr + n \in Nat /\ call.len - n \in Nat \ {0}
      BY <1>3, <2>4 DEF EraseCalls
    <3>2. call' = [op |-> "erase", addr |-> call.addr + n, len |-> call.len - n]
      BY <2>1, <2>4 DEF EraseCalls
    <3>3. call' \in EraseCalls /\ call'.op = "erase"
      BY <2>4, <3>1, <3>2 DEF EraseCalls
    <3> QED BY <3>3 DEF CallType, FlushCounts
  <2>5. CASE call \in [op : {"flush"}, addr : Lines, len : 1 .. CacheLines]
    <3>1. /\ call.op = "flush" /\ call.addr \in 0 .. CacheLines - 1
          /\ call.len \in 1 .. CacheLines /\ CacheLines \in Nat \ {0}
          /\ call.addr + call.len = CacheLines /\ n = 1
      BY <1>1, <2>5, SizesAssumption DEF Lines, FlushCounts
    <3>2. /\ call'.op = "flush" /\ call'.addr = call.addr + 1 /\ call'.len = call.len - 1
          /\ call' = [op |-> "flush", addr |-> call.addr + 1, len |-> call.len - 1]
      BY <2>1, <2>5, <3>1
    <3>3. call.addr + 1 \in Lines /\ call.len - 1 \in 1 .. CacheLines
      BY <1>3, <3>1 DEF Lines
    <3> QED BY <3>1, <3>2, <3>3 DEF CallType, FlushCounts
  <2> QED BY <1>1, <2>2, <2>3, <2>4, <2>5 DEF CallType
<1> QED BY <1>2, <1>3

----------------------------------------------------------------------------
(* cstore_create: chunks are laid out one after the other, so two blocks that
   are not erased start at different offsets. *)
LEMMA LayoutInjective ==
  ASSUME NEW image, NEW off \in Layouts(image), NEW b \in Blocks, NEW c \in Blocks,
         CompSize(b, image[b]) # 0, CompSize(c, image[c]) # 0, off[b] = off[c]
  PROVE  b = c
<1>1. /\ off \in [0 .. NumBlocks -> 0 .. NumBlocks * BlockSize]
      /\ \A x \in Blocks : off[x + 1] = off[x] + CompSize(x, image[x])
      /\ \A x, y \in 0 .. NumBlocks : x <= y => off[x] <= off[y]
  BY DEF Layouts
<1>2. NumBlocks \in Nat /\ BlockSize \in Nat /\ NumBlocks * BlockSize \in Nat
  BY NumBlocksNat, SizesAssumption
<1>3. ASSUME NEW x \in Blocks, NEW y \in Blocks, x < y, CompSize(x, image[x]) # 0
      PROVE  off[x] < off[y]
  <2>1. x \in 0 .. NumBlocks /\ x + 1 \in 0 .. NumBlocks /\ y \in 0 .. NumBlocks /\ x + 1 <= y
    BY <1>2, <1>3 DEF Blocks
  <2>2. CompSize(x, image[x]) \in Nat
    BY SizeBounds, BlockLenBounds, SizesAssumption
  <2>3. off[x] \in Nat /\ off[y] \in Nat /\ off[x + 1] \in Nat
    BY <1>1, <1>2, <2>1
  <2>4. off[x + 1] <= off[y] /\ off[x + 1] = off[x] + CompSize(x, image[x])
    BY <1>1, <2>1
  <2> QED BY <1>3, <2>2, <2>3, <2>4
<1>4. b \in Int /\ c \in Int /\ b \in 0 .. NumBlocks /\ c \in 0 .. NumBlocks
  BY <1>2 DEF Blocks
<1>5. off[b] \in Int
  BY <1>1, <1>2, <1>4
<1>6. ~(b < c) /\ ~(c < b)
  BY <1>3, <1>5
<1> QED BY <1>4, <1>6

LEMMA CreateStoreOK ==
  ASSUME NEW image \in Images, NEW off \in Layouts(image)
  PROVE  /\ StoreOK(CStoreCreate(image, off))
         /\ CStoreCreate(image, off).comp_data_used = CStoreCreate(image, off).comp_data_size
<1> DEFINE live  == {b \in Blocks : CompSize(b, image[b]) # 0}
           at(p) == CHOOSE b \in live : off[b] = p
           st    == CStoreCreate(image, off)
<1>1. /\ NumBlocks \in Nat /\ BlockSize \in Nat /\ NumBlocks * BlockSize \in Nat
      /\ off \in [0 .. NumBlocks -> 0 .. NumBlocks * BlockSize]
  BY NumBlocksNat, SizesAssumption DEF Layouts
<1>2. \A b \in 0 .. NumBlocks : off[b] \in Nat
  BY <1>1
<1>3. /\ st.blocks = [b \in Blocks |-> [offset    |-> IF b \in live THEN off[b] ELSE 0,
                                        comp_size |-> CompSize(b, image[b])]]
      /\ st.comp_data = [p \in {off[b] : b \in live} |-> ChunkOf(at(p), image[at(p)])]
      /\ st.comp_data_used = off[NumBlocks]
      /\ st.comp_data_size = off[NumBlocks]
      /\ st = [blocks |-> st.blocks, comp_data |-> st.comp_data,
               comp_data_used |-> st.comp_data_used, comp_data_size |-> st.comp_data_size]
  BY DEF CStoreCreate, BufferSize
<1>4. \A b \in Blocks : CompSize(b, image[b]) \in Nat /\ CompSize(b, image[b]) <= BlockLen(b)
  BY SizeBounds, BlockLenBounds, SizesAssumption
<1>5. st.blocks \in [Blocks -> [offset : Nat, comp_size : Nat]]
  <2>1. \A b \in Blocks : off[b] \in Nat
    BY <1>1, <1>2 DEF Blocks
  <2> QED BY <1>3, <1>4, <2>1
<1>6. off[NumBlocks] \in Nat
  BY <1>1, <1>2
<1>7. ASSUME NEW b \in Blocks
      PROVE  ChunkOK(st, b)
  <2>1. st.blocks[b].comp_size <= BlockLen(b)
    BY <1>3, <1>4
  <2>2. CASE CompSize(b, image[b]) # 0
    <3>1. b \in live /\ st.blocks[b].offset = off[b]
      BY <1>3, <2>2
    <3>2. off[b] \in DOMAIN st.comp_data
      BY <1>3, <3>1
    <3>3. at(off[b]) = b
      BY <3>1, LayoutInjective
    <3>4. st.comp_data[off[b]] = ChunkOf(b, image[b])
      <4>1. off[b] \in {off[c] : c \in live}
        BY <3>1
      <4>2. st.comp_data[off[b]] = ChunkOf(at(off[b]), image[at(off[b])])
        <5> HIDE DEF at, st, live
        <5> QED BY <1>3, <4>1
      <4> HIDE DEF at, st, live
      <4> QED BY <3>3, <4>2
    <3>5. ChunkOf(b, image[b]) \in [0 .. BlockLen(b) - 1 -> Byte]
      <4>1. image[b] \in [Offsets -> Byte]
        BY ImagesAssumption DEF Content
      <4>2. \A o \in 0 .. BlockLen(b) - 1 : o \in Offsets
        BY BlockLenBounds, SizesAssumption DEF Offsets
      <4> QED BY <4>1, <4>2 DEF ChunkOf
    <3> HIDE DEF st
    <3> QED BY <2>1, <3>1, <3>2, <3>4, <3>5 DEF ChunkOK
  <2>3. CASE CompSize(b, image[b]) = 0
    <3>1. st.blocks[b].comp_size = 0
      BY <1>3, <2>3
    <3> HIDE DEF st
    <3> QED BY <2>1, <3>1 DEF ChunkOK
  <2> QED BY <2>2, <2>3
<1> HIDE DEF st
<1>8. StoreOK(st) /\ st.comp_data_used = st.comp_data_size
  BY <1>3, <1>5, <1>6, <1>7 DEF StoreOK
<1> QED BY <1>8 DEF st

LEMMA InitIInv == Init => IInv
<1> SUFFICES ASSUME Init PROVE IInv
  OBVIOUS
<1>1. StoreOK(store) /\ BufferFull
  BY CreateStoreOK DEF Init, BufferFull
<1>2. EmptyLine \in LineType /\ ~EmptyLine.valid
  <2>1. NumBlocks \in 0 .. NumBlocks /\ 0 \in 0 .. MaxTick
    BY NumBlocksNat, SizesAssumption DEF MaxTick
  <2>2. [o \in Offsets |-> {}] \in Content
    BY DEF Content, Byte
  <2> QED BY <2>1, <2>2 DEF EmptyLine, LineType
<1>3. cache \in [Lines -> LineType] /\ \A l \in Lines : ~cache[l].valid
  BY <1>2 DEF Init
<1>4. tick \in 0 .. MaxTick /\ call \in CallType /\ dst \in Seq(Byte)
  BY SizesAssumption DEF Init, CallType, MaxTick
<1>5. TypeOK
  BY <1>1, <1>3, <1>4 DEF TypeOK, ValidLines
<1>6. OneLinePerBlock
  BY <1>3 DEF OneLinePerBlock, ValidLines
<1>7. FlushCounts
  BY DEF Init, FlushCounts, Idle
<1> QED BY <1>1, <1>5, <1>6, <1>7 DEF IInv

----------------------------------------------------------------------------
(* A step that loads a block, changes its line and moves the call on. *)
LEMMA LoadStepKeepsIInv ==
  ASSUME IInv, NEW b \in Blocks, NEW l \in Lines, CacheLoadBlock(b, l),
         NEW ln \in LineType, ln.valid, ln.block_idx = b,
         cache' = [cache EXCEPT ![l] = ln],
         call' \in CallType, FlushCounts', dst' \in Seq(Byte)
  PROVE  IInv'
<1>1. LoadsInto(b, l) /\ store' = LoadedStore(b, l) /\ tick' = NextTick
  BY DEF CacheLoadBlock
<1>2. StoreOK(store') /\ store'.comp_data_used = store'.comp_data_size
        /\ tick' \in 0 .. MaxTick
  BY <1>1, LoadFacts
<1>3. /\ cache' \in [Lines -> LineType]
      /\ (\A m \in ValidLines : cache[m].block_idx \in Blocks)'
      /\ OneLinePerBlock'
  BY <1>1, PutKeepsCache
<1> QED BY <1>2, <1>3 DEF IInv, TypeOK, BufferFull

(* What a pending call and its block look like. *)
LEMMA PendingFacts ==
  ASSUME IInv, NEW op, Pending(op), op # "none", op # "flush"
  PROVE  /\ call # Idle /\ call.op = op
         /\ call.addr \in Nat /\ call.len \in Nat \ {0}
         /\ InChip => Block(call.addr) \in Blocks
         /\ Offset(call.addr) \in Offsets
         /\ Chunk \in Nat \ {0} /\ Chunk <= call.len
         /\ Offset(call.addr) + Chunk <= BlockSize
         /\ BlockSize \in Nat \ {0}
<1>1. call \in CallType /\ call.op = op
  BY DEF IInv, TypeOK, Pending
<1>2. call.addr \in Nat /\ call.len \in Nat \ {0} /\ call # Idle
  BY <1>1 DEF CallType, ReadCalls, WriteCalls, EraseCalls, Idle
<1>3. Chunk \in 1 .. BlockSize /\ Chunk <= call.len /\ Offset(call.addr) + Chunk <= BlockSize
  BY <1>2, ChunkBounds
<1> QED BY <1>1, <1>2, <1>3, AddressSplits, SizesAssumption DEF InChip

LEMMA ProgrammedType ==
  ASSUME IInv, Pending("write"), NEW b \in Blocks, NEW o, NEW n, NEW d \in Content
  PROVE  Programmed(b, o, n, d) \in Content
<1>1. call \in WriteCalls
  BY DEF IInv, TypeOK, CallType, Pending, ReadCalls, WriteCalls, EraseCalls, Idle
<1>2. call.src[b] \in Content
  BY <1>1 DEF WriteCalls
<1>3. \A i \in Offsets : d[i] \in Byte /\ call.src[b][i] \in Byte /\ d[i] \cap call.src[b][i] \in Byte
  BY <1>2 DEF Content, Byte
<1> QED BY <1>3 DEF Programmed, Content

LEMMA StartCallKeepsIInv == IInv /\ StartCall => IInv'
<1> SUFFICES ASSUME IInv, StartCall PROVE IInv'
  OBVIOUS
<1>1. call' \in ReadCalls \cup WriteCalls \cup EraseCalls \cup FlushCalls
  BY CallsAssumption DEF StartCall
<1>2. call' \in CallType /\ FlushCounts'
  <2>1. CASE call' \in FlushCalls
    BY <2>1, SizesAssumption DEF FlushCalls, CallType, FlushCounts, Lines
  <2>2. CASE call' \in ReadCalls \cup WriteCalls \cup EraseCalls
    BY <2>2 DEF ReadCalls, WriteCalls, EraseCalls, CallType, FlushCounts
  <2> QED BY <1>1, <2>1, <2>2
<1>3. UNCHANGED <<store, cache, tick>> /\ dst' \in Seq(Byte)
  BY DEF StartCall
<1> QED BY <1>2, <1>3 DEF IInv, TypeOK, ValidLines, OneLinePerBlock, BufferFull

LEMMA ReadBlockKeepsIInv == IInv /\ ReadBlock => IInv'
<1> DEFINE b == Block(call.addr)
           o == Offset(call.addr)
           n == Chunk
<1> SUFFICES ASSUME IInv, ReadBlock PROVE IInv'
  OBVIOUS
<1>1. Pending("read") /\ InChip /\ Advance(n)
  BY DEF ReadBlock
<1>2. PICK l \in Lines :
        /\ CacheLoadBlock(b, l)
        /\ cache' = [cache EXCEPT ![l] = LoadedLine(b, l)]
        /\ dst' = dst \o [k \in 1 .. n |-> LoadedLine(b, l).data[o + k - 1]]
  BY DEF ReadBlock
<1>3. b \in Blocks /\ o \in Offsets /\ n \in Nat \ {0} /\ n <= call.len
        /\ o + n <= BlockSize /\ call # Idle /\ call.op = "read" /\ BlockSize \in Nat
  BY <1>1, PendingFacts
<1>4. LoadsInto(b, l)
  BY <1>2 DEF CacheLoadBlock
<1> HIDE DEF b, o, n
<1>5. LoadedLine(b, l) \in LineType /\ LoadedLine(b, l).valid /\ LoadedLine(b, l).block_idx = b
  BY <1>3, <1>4, LoadFacts
<1>6. call' \in CallType /\ FlushCounts'
  BY <1>1, <1>3, AdvanceKeepsCall
<1>7. dst' \in Seq(Byte)
  <2> DEFINE f == [k \in 1 .. n |-> LoadedLine(b, l).data[o + k - 1]]
  <2>1. LoadedLine(b, l).data \in Content
    BY <1>5 DEF LineType
  <2>2. \A k \in 1 .. n : o + k - 1 \in Offsets
    BY <1>3 DEF Offsets
  <2>3. f \in Seq(Byte)
    BY <1>3, <2>1, <2>2 DEF Content
  <2>4. dst \in Seq(Byte)
    BY DEF IInv, TypeOK
  <2> QED BY <1>2, <2>3, <2>4
<1> QED BY <1>2, <1>3, <1>5, <1>6, <1>7, LoadStepKeepsIInv

LEMMA ReadBeyondChipKeepsIInv == IInv /\ ReadBeyondChip => IInv'
<1> SUFFICES ASSUME IInv, ReadBeyondChip PROVE IInv'
  OBVIOUS
<1>1. Pending("read")
  BY DEF ReadBeyondChip
<1>2. call.len \in Nat
  BY <1>1, PendingFacts
<1>3. [k \in 1 .. call.len |-> FF] \in Seq(Byte)
  BY <1>2 DEF FF, Byte
<1>4. dst' \in Seq(Byte)
  <2> DEFINE f == [k \in 1 .. call.len |-> FF]
  <2>1. dst \in Seq(Byte) /\ dst' = dst \o f
    BY DEF ReadBeyondChip, IInv, TypeOK
  <2> HIDE DEF f
  <2> QED BY <1>3, <2>1 DEF f
<1>5. UNCHANGED <<store, cache, tick>> /\ call' = Idle
  BY DEF ReadBeyondChip
<1> QED BY <1>4, <1>5 DEF IInv, TypeOK, ValidLines, OneLinePerBlock, BufferFull,
                         CallType, FlushCounts, Idle

LEMMA WriteBlockKeepsIInv == IInv /\ WriteBlock => IInv'
<1> DEFINE b == Block(call.addr)
           o == Offset(call.addr)
           n == Chunk
<1> SUFFICES ASSUME IInv, WriteBlock PROVE IInv'
  OBVIOUS
<1>1. Pending("write") /\ InChip /\ Advance(n) /\ dst' = dst
  BY DEF WriteBlock
<1>2. PICK l \in Lines :
        /\ CacheLoadBlock(b, l)
        /\ cache' = [cache EXCEPT ![l] =
             [LoadedLine(b, l) EXCEPT !.data = Programmed(b, o, n, @), !.dirty = TRUE]]
  BY DEF WriteBlock
<1>3. b \in Blocks /\ n \in Nat \ {0} /\ n <= call.len /\ call # Idle /\ call.op = "write"
  BY <1>1, PendingFacts
<1>4. LoadsInto(b, l)
  BY <1>2 DEF CacheLoadBlock
<1> HIDE DEF b, o, n
<1> DEFINE line == LoadedLine(b, l)
           ln   == [line EXCEPT !.data = Programmed(b, o, n, @), !.dirty = TRUE]
<1>5. line \in LineType /\ line.valid /\ line.block_idx = b
  BY <1>3, <1>4, LoadFacts
<1>6. Programmed(b, o, n, line.data) \in Content
  BY <1>1, <1>3, <1>5, ProgrammedType DEF LineType
<1>7. ln \in LineType /\ ln.valid /\ ln.block_idx = b
  <2> HIDE DEF line
  <2> QED BY <1>5, <1>6 DEF LineType
<1>8. call' \in CallType /\ FlushCounts'
  BY <1>1, <1>3, AdvanceKeepsCall
<1>9. dst' \in Seq(Byte) /\ cache' = [cache EXCEPT ![l] = ln]
  BY <1>1, <1>2 DEF IInv, TypeOK
<1> HIDE DEF ln
<1> QED BY <1>2, <1>3, <1>7, <1>8, <1>9, LoadStepKeepsIInv

LEMMA ErasePartOfBlockKeepsIInv == IInv /\ ErasePartOfBlock => IInv'
<1> DEFINE b == Block(call.addr)
           o == Offset(call.addr)
           n == Chunk
           wiped(d) == [i \in Offsets |-> IF i < o \/ i >= o + n THEN d[i] ELSE FF]
<1> SUFFICES ASSUME IInv, ErasePartOfBlock PROVE IInv'
  OBVIOUS
<1>1. Pending("erase") /\ InChip /\ Advance(n) /\ dst' = dst
  BY DEF ErasePartOfBlock
<1>2. PICK l \in Lines :
        /\ CacheLoadBlock(b, l)
        /\ cache' = [cache EXCEPT ![l] =
             [LoadedLine(b, l) EXCEPT !.data = wiped(@), !.dirty = TRUE]]
  BY DEF ErasePartOfBlock
<1>3. b \in Blocks /\ n \in Nat \ {0} /\ n <= call.len /\ call # Idle /\ call.op = "erase"
  BY <1>1, PendingFacts
<1>4. LoadsInto(b, l)
  BY <1>2 DEF CacheLoadBlock
<1> HIDE DEF b, o, n
<1> DEFINE line == LoadedLine(b, l)
           ln   == [line EXCEPT !.data = wiped(@), !.dirty = TRUE]
<1>5. line \in LineType /\ line.valid /\ line.block_idx = b
  BY <1>3, <1>4, LoadFacts
<1>6. wiped(line.data) \in Content
  <2>1. line.data \in Content
    BY <1>5 DEF LineType
  <2> HIDE DEF line
  <2> QED BY <2>1 DEF Content, FF, Byte
<1>7. ln \in LineType /\ ln.valid /\ ln.block_idx = b
  <2> HIDE DEF line, wiped
  <2> QED BY <1>5, <1>6 DEF LineType
<1>8. call' \in CallType /\ FlushCounts'
  BY <1>1, <1>3, AdvanceKeepsCall
<1>9. dst' \in Seq(Byte) /\ cache' = [cache EXCEPT ![l] = ln]
  BY <1>1, <1>2 DEF IInv, TypeOK
<1> HIDE DEF ln
<1> QED BY <1>2, <1>3, <1>7, <1>8, <1>9, LoadStepKeepsIInv

LEMMA EraseWholeBlockKeepsIInv == IInv /\ EraseWholeBlock => IInv'
<1> DEFINE b == Block(call.addr)
           wiped(l) == IF Lowest(l, CachedAt(b))
                       THEN [cache[l] EXCEPT !.data = ErasedBlock, !.dirty = FALSE]
                       ELSE cache[l]
<1> SUFFICES ASSUME IInv, EraseWholeBlock PROVE IInv'
  OBVIOUS
<1>1. /\ Pending("erase") /\ InChip /\ Advance(BlockSize) /\ call.len >= BlockSize
      /\ store' = [store EXCEPT !.blocks[b].comp_size = 0]
      /\ cache' = [l \in Lines |-> wiped(l)]
      /\ tick' = tick /\ dst' = dst
  BY DEF EraseWholeBlock
<1>2. b \in Blocks /\ call # Idle /\ call.op = "erase" /\ BlockSize \in Nat \ {0}
        /\ call.len \in Nat
  BY <1>1, PendingFacts
<1>3. call' \in CallType /\ FlushCounts'
  BY <1>1, <1>2, AdvanceKeepsCall
<1> HIDE DEF b
<1>4. StoreOK(store') /\ store'.comp_data_used = store'.comp_data_size
  BY <1>1, <1>2, EraseStoreOK DEF IInv, TypeOK, BufferFull
<1>5. \A l \in Lines : /\ wiped(l) \in LineType
                       /\ wiped(l).valid = cache[l].valid
                       /\ wiped(l).block_idx = cache[l].block_idx
  <2>1. ErasedBlock \in Content
    BY DEF ErasedBlock, Content, FF, Byte
  <2> QED BY <2>1 DEF IInv, TypeOK, LineType
<1> HIDE DEF wiped
<1>6. cache' \in [Lines -> LineType]
  BY <1>1, <1>5
<1>7. \A l \in Lines : /\ cache'[l].valid = cache[l].valid
                       /\ cache'[l].block_idx = cache[l].block_idx
  BY <1>1, <1>5
<1>8. ValidLines' = ValidLines
  BY <1>7 DEF ValidLines
<1>9. OneLinePerBlock' /\ (\A l \in ValidLines : cache[l].block_idx \in Blocks)'
  BY <1>7, <1>8 DEF OneLinePerBlock, ValidLines, IInv, TypeOK
<1> QED BY <1>1, <1>3, <1>4, <1>6, <1>9 DEF IInv, TypeOK, BufferFull

LEMMA StopBeyondChipKeepsIInv == IInv /\ StopBeyondChip => IInv'
BY DEF IInv, StopBeyondChip, TypeOK, ValidLines, OneLinePerBlock, BufferFull,
       CallType, FlushCounts, Idle

LEMMA FlushLineKeepsIInv == IInv /\ FlushLine => IInv'
<1> DEFINE l == call.addr
<1> SUFFICES ASSUME IInv, FlushLine PROVE IInv'
  OBVIOUS
<1>1. /\ Pending("flush") /\ Advance(1)
      /\ store' = FlushCacheLine(store, cache[l])
      /\ cache' = [cache EXCEPT ![l].dirty = @ /\ ~cache[l].valid]
      /\ tick' = tick /\ dst' = dst
  BY DEF FlushLine
<1>2. l \in Lines /\ call.len \in 1 .. CacheLines /\ call.op = "flush" /\ call # Idle
  BY <1>1 DEF IInv, TypeOK, CallType, Pending, ReadCalls, WriteCalls, EraseCalls, Idle
<1>3. call' \in CallType /\ FlushCounts'
  <2>1. 1 <= call.len
    BY <1>2, SizesAssumption
  <2> QED BY <1>1, <1>2, <2>1, AdvanceKeepsCall
<1> HIDE DEF l
<1>4. StoreOK(store') /\ store'.comp_data_used = store'.comp_data_size
  BY <1>1, <1>2, FlushStoreOK
<1>5. cache \in [Lines -> LineType] /\ \A m \in ValidLines : cache[m].block_idx \in Blocks
  BY DEF IInv, TypeOK
<1>6. cache[l] \in LineType
  BY <1>2, <1>5
<1>7. [cache[l] EXCEPT !.dirty = @ /\ ~cache[l].valid] \in LineType
  BY <1>6 DEF LineType
<1>8. cache' \in [Lines -> LineType]
  BY <1>1, <1>5, <1>7
<1>9. \A m \in Lines : /\ cache'[m].valid = cache[m].valid
                       /\ cache'[m].block_idx = cache[m].block_idx
  BY <1>1, <1>5, <1>6 DEF LineType
<1>10. ValidLines' = ValidLines
  BY <1>9 DEF ValidLines
<1>11. OneLinePerBlock' /\ (\A m \in ValidLines : cache[m].block_idx \in Blocks)'
  BY <1>5, <1>9, <1>10 DEF OneLinePerBlock, ValidLines, IInv
<1> QED BY <1>1, <1>3, <1>4, <1>8, <1>11 DEF IInv, TypeOK, BufferFull

LEMMA NextKeepsIInv == IInv /\ [Next]_vars => IInv'
<1>1. IInv /\ UNCHANGED vars => IInv'
  BY DEF vars, IInv, TypeOK, ValidLines, OneLinePerBlock, BufferFull, FlushCounts
<1> QED BY <1>1, StartCallKeepsIInv, ReadBlockKeepsIInv, ReadBeyondChipKeepsIInv,
           WriteBlockKeepsIInv, EraseWholeBlockKeepsIInv, ErasePartOfBlockKeepsIInv,
           StopBeyondChipKeepsIInv, FlushLineKeepsIInv DEF Next, Step

(* IInv holds in every reachable state of the compressed store, under any calls. *)
THEOREM Invariance == Spec => []IInv
<1> QED BY InitIInv, NextKeepsIInv, PTL DEF Spec

(* Type correctness of the store and its cache, chunks included. *)
THEOREM TypeCorrect == Spec => []TypeOK
<1>1. IInv => TypeOK
  BY DEF IInv
<1> QED BY <1>1, Invariance, PTL

(* The cache never holds two copies of a block (cache_find, cache_load_block). *)
THEOREM CacheCoherent == Spec => []OneLinePerBlock
<1>1. IInv => OneLinePerBlock
  BY DEF IInv
<1> QED BY <1>1, Invariance, PTL

(* A programmed block is never stored: no compressor makes room for it. *)
THEOREM FlushHasNoRoom == Spec => []NoRoomForFlush
<1>1. ASSUME IInv PROVE NoRoomForFlush
  <2> SUFFICES ASSUME NEW l \in ValidLines
               PROVE  store.comp_data_used + StoredSize(cache[l].block_idx, cache[l].data)
                        > store.comp_data_size
    BY DEF NoRoomForFlush
  <2>1. cache[l].block_idx \in Blocks
    BY <1>1 DEF IInv, TypeOK
  <2> DEFINE n == StoredSize(cache[l].block_idx, cache[l].data)
  <2>2. n \in Nat \ {0}
    BY <2>1, SizeBounds, BlockLenBounds, SizesAssumption
  <2>3. store.comp_data_used \in Nat /\ store.comp_data_used = store.comp_data_size
    BY <1>1 DEF IInv, TypeOK, StoreOK, BufferFull
  <2> HIDE DEF n
  <2>4. store.comp_data_used + n > store.comp_data_size
    BY <2>2, <2>3
  <2> QED BY <2>4 DEF n
<1> QED BY <1>1, Invariance, PTL

----------------------------------------------------------------------------
(* The blocks table after a step: as it was, or one entry marked erased. *)
Erased(b) == store' = [store EXCEPT !.blocks[b].comp_size = 0]

(* What a load does to the blocks table: only the block of the evicted line can
   be marked erased, and only when its line is dropped. *)
LEMMA LoadShrinks ==
  ASSUME IInv, NEW b \in Blocks, NEW l \in Lines, CacheLoadBlock(b, l)
  PROVE  \/ store' = store
         \/ /\ CachedAt(b) = {} /\ cache[l].valid
            /\ cache[l].block_idx \in Blocks /\ Erased(cache[l].block_idx)
<1>1. store' = LoadedStore(b, l)
  BY DEF CacheLoadBlock
<1>2. CASE CachedAt(b) # {}
  BY <1>1, <1>2 DEF LoadedStore
<1>3. CASE CachedAt(b) = {}
  BY <1>1, <1>3, FlushNeverAppends DEF LoadedStore, Erased
<1> QED BY <1>2, <1>3

(* No step moves a chunk or the end of the used part: the table only shrinks. *)
LEMMA StoreOnlyShrinks ==
  ASSUME IInv, [Next]_vars
  PROVE  store' = store \/ \E b \in Blocks : Erased(b)
<1>1. CASE UNCHANGED vars \/ StartCall \/ ReadBeyondChip \/ StopBeyondChip
  BY <1>1 DEF vars, StartCall, ReadBeyondChip, StopBeyondChip
<1>2. CASE ReadBlock
  <2>1. Pending("read") /\ InChip /\ \E l \in Lines : CacheLoadBlock(Block(call.addr), l)
    BY <1>2 DEF ReadBlock
  <2> QED BY <2>1, PendingFacts, LoadShrinks
<1>3. CASE WriteBlock
  <2>1. Pending("write") /\ InChip /\ \E l \in Lines : CacheLoadBlock(Block(call.addr), l)
    BY <1>3 DEF WriteBlock
  <2> QED BY <2>1, PendingFacts, LoadShrinks
<1>4. CASE ErasePartOfBlock
  <2>1. Pending("erase") /\ InChip /\ \E l \in Lines : CacheLoadBlock(Block(call.addr), l)
    BY <1>4 DEF ErasePartOfBlock
  <2> QED BY <2>1, PendingFacts, LoadShrinks
<1>5. CASE EraseWholeBlock
  <2>1. Pending("erase") /\ InChip /\ Erased(Block(call.addr))
    BY <1>5 DEF EraseWholeBlock, Erased
  <2> QED BY <2>1, PendingFacts
<1>6. CASE FlushLine
  <2>1. store' = FlushCacheLine(store, cache[call.addr]) /\ call.addr \in Lines
    BY <1>6 DEF FlushLine, IInv, TypeOK, CallType, Pending, ReadCalls, WriteCalls, EraseCalls, Idle
  <2> QED BY <2>1, FlushNeverAppends DEF Erased
<1> QED BY <1>1, <1>2, <1>3, <1>4, <1>5, <1>6 DEF Next, Step

(* A table that shrinks keeps its chunks apart. *)
LEMMA ShrinkKeepsChunks ==
  ASSUME IInv, ChunksDisjoint, NEW b \in Blocks, Erased(b)
  PROVE  ChunksDisjoint'
<1>1. /\ store'.comp_data_used = store.comp_data_used
      /\ store'.blocks = [store.blocks EXCEPT ![b].comp_size = 0]
  BY EraseStoreOK DEF IInv, TypeOK, Erased
<1>2. store.blocks \in [Blocks -> [offset : Nat, comp_size : Nat]]
  BY DEF IInv, TypeOK, StoreOK
<1>3. \A c \in Blocks : /\ store'.blocks[c].offset = store.blocks[c].offset
                        /\ store'.blocks[c].comp_size
                             = IF c = b THEN 0 ELSE store.blocks[c].comp_size
  BY <1>1, <1>2
<1>4. LiveBlocks' = LiveBlocks \ {b}
  BY <1>3 DEF LiveBlocks
<1>5. \A c \in LiveBlocks' : /\ c \in LiveBlocks /\ c # b
                             /\ store'.blocks[c].offset = store.blocks[c].offset
                             /\ store'.blocks[c].comp_size = store.blocks[c].comp_size
  BY <1>3, <1>4 DEF LiveBlocks
<1> QED BY <1>1, <1>4, <1>5 DEF ChunksDisjoint

(* cstore_create writes the chunks one after the other. *)
LEMMA InitChunksDisjoint == Init => ChunksDisjoint
<1> SUFFICES ASSUME NEW image \in Images, NEW off \in Layouts(image),
                    store = CStoreCreate(image, off)
             PROVE  ChunksDisjoint
  BY DEF Init
<1> DEFINE size(b) == CompSize(b, image[b])
<1>1. /\ off \in [0 .. NumBlocks -> 0 .. NumBlocks * BlockSize]
      /\ \A x \in Blocks : off[x + 1] = off[x] + size(x)
      /\ \A x, y \in 0 .. NumBlocks : x <= y => off[x] <= off[y]
  BY DEF Layouts
<1>2. NumBlocks \in Nat /\ BlockSize \in Nat /\ NumBlocks * BlockSize \in Nat
  BY NumBlocksNat, SizesAssumption
<1>3. /\ LiveBlocks = {b \in Blocks : size(b) # 0}
      /\ \A b \in LiveBlocks : /\ store.blocks[b].offset = off[b]
                               /\ store.blocks[b].comp_size = size(b)
      /\ store.comp_data_used = off[NumBlocks]
  BY DEF CStoreCreate, LiveBlocks
<1> HIDE DEF size
<1>4. ASSUME NEW x \in Blocks, NEW y \in 0 .. NumBlocks, x < y
      PROVE  off[x] + size(x) <= off[y]
  <2>1. x \in 0 .. NumBlocks /\ x + 1 \in 0 .. NumBlocks /\ x + 1 <= y
    BY <1>2, <1>4 DEF Blocks
  <2> QED BY <1>1, <2>1
<1>5. ASSUME NEW b \in LiveBlocks
      PROVE  off[b] + size(b) <= off[NumBlocks]
  <2>1. b \in Blocks /\ b < NumBlocks /\ NumBlocks \in 0 .. NumBlocks
    BY <1>2, <1>3 DEF Blocks
  <2> QED BY <1>4, <2>1
<1>6. ASSUME NEW b \in LiveBlocks, NEW c \in LiveBlocks \ {b}
      PROVE  off[b] + size(b) <= off[c] \/ off[c] + size(c) <= off[b]
  <2>1. /\ b \in Blocks /\ c \in Blocks /\ b \in 0 .. NumBlocks /\ c \in 0 .. NumBlocks
        /\ (b < c \/ c < b)
    BY <1>2, <1>3 DEF Blocks
  <2> QED BY <1>4, <2>1
<1> QED BY <1>3, <1>5, <1>6 DEF ChunksDisjoint

(* A chunk never overlaps another, whatever is programmed and erased: the bytes
   a load decompresses are those of its own block (cstore_create,
   flush_cache_line). *)
THEOREM ChunksStayApart == Spec => []ChunksDisjoint
<1>1. IInv /\ ChunksDisjoint /\ [Next]_vars => ChunksDisjoint'
  <2>1. store' = store /\ ChunksDisjoint => ChunksDisjoint'
    BY DEF ChunksDisjoint, LiveBlocks
  <2> QED BY <2>1, StoreOnlyShrinks, ShrinkKeepsChunks
<1> QED BY <1>1, InitChunksDisjoint, Invariance, PTL DEF Spec

----------------------------------------------------------------------------
(* A clean line is a copy of what a reload would deliver: true as long as no
   flush marks lines clean that have nowhere to go. *)
CInv == call.op # "flush" /\ CleanLinesMatchStore

(* Marking one block erased changes what a reload of that block delivers only. *)
LEMMA FetchElsewhere ==
  ASSUME IInv, NEW b \in Blocks, Erased(b), NEW c \in Blocks
  PROVE  Fetch(store', c) = IF c = b THEN ErasedBlock ELSE Fetch(store, c)
<1>1. /\ store'.comp_data = store.comp_data
      /\ store'.blocks = [store.blocks EXCEPT ![b].comp_size = 0]
  BY EraseStoreOK DEF IInv, TypeOK, Erased
<1>2. store.blocks \in [Blocks -> [offset : Nat, comp_size : Nat]]
  BY DEF IInv, TypeOK, StoreOK
<1>3. /\ store'.blocks[c].offset = store.blocks[c].offset
      /\ store'.blocks[c].comp_size = IF c = b THEN 0 ELSE store.blocks[c].comp_size
  BY <1>1, <1>2
<1> QED BY <1>1, <1>3 DEF Fetch

(* The line cache_load_block returns is dirty as it was, or fresh and a copy. *)
LEMMA LoadedLineIsCopy ==
  ASSUME IInv, CInv, NEW b \in Blocks, NEW l \in Lines, CacheLoadBlock(b, l),
         ~LoadedLine(b, l).dirty
  PROVE  LoadedLine(b, l).data = Fetch(store', b)
<1>1. LoadsInto(b, l) /\ store' = LoadedStore(b, l) /\ cache[l] \in LineType
  BY DEF CacheLoadBlock, IInv, TypeOK
<1>2. CASE CachedAt(b) # {}
  <2>1. l \in ValidLines /\ cache[l].block_idx = b
    BY <1>1, <1>2 DEF LoadsInto, Lowest, CachedAt, ValidLines
  <2>2. LoadedLine(b, l).dirty = cache[l].dirty /\ LoadedLine(b, l).data = cache[l].data
    BY <1>1, <1>2 DEF LoadedLine, LineType
  <2> QED BY <1>1, <1>2, <2>1, <2>2 DEF LoadedStore, CInv, CleanLinesMatchStore
<1>3. CASE CachedAt(b) = {}
  BY <1>1, <1>3 DEF LoadedLine
<1> QED BY <1>2, <1>3

(* The lines a load does not touch stay copies: the block that may be marked
   erased is that of the dropped line, and in no other line. *)
LEMMA LoadKeepsCopies ==
  ASSUME IInv, CInv, NEW b \in Blocks, NEW l \in Lines, CacheLoadBlock(b, l),
         NEW ln \in LineType, ln.block_idx = b, ~ln.dirty => ln.data = Fetch(store', b),
         cache' = [cache EXCEPT ![l] = ln]
  PROVE  CleanLinesMatchStore'
<1>1. \A m \in Lines : cache'[m] = IF m = l THEN ln ELSE cache[m]
  BY DEF IInv, TypeOK
<1>2. ASSUME NEW m \in Lines, cache'[m].valid, ~cache'[m].dirty
      PROVE  cache'[m].data = Fetch(store', cache'[m].block_idx)
  <2>1. CASE m = l
    BY <1>1, <1>2, <2>1
  <2>2. CASE m # l
    <3>1. cache'[m] = cache[m] /\ m \in ValidLines /\ cache[m].block_idx \in Blocks
      BY <1>1, <1>2, <2>2 DEF ValidLines, IInv, TypeOK
    <3>2. cache[m].data = Fetch(store, cache[m].block_idx)
      BY <1>2, <3>1 DEF CInv, CleanLinesMatchStore
    <3>3. CASE store' = store
      BY <3>1, <3>2, <3>3
    <3>4. CASE /\ cache[l].valid /\ cache[l].block_idx \in Blocks
               /\ Erased(cache[l].block_idx)
      <4>1. cache[m].block_idx # cache[l].block_idx
        BY <2>2, <3>1, <3>4 DEF IInv, OneLinePerBlock, ValidLines
      <4> QED BY <3>1, <3>2, <3>4, <4>1, FetchElsewhere
    <3> QED BY <3>3, <3>4, LoadShrinks
  <2> QED BY <2>1, <2>2
<1> QED BY <1>2 DEF CleanLinesMatchStore, ValidLines

LEMMA ReadKeepsCopies == IInv /\ CInv /\ ReadBlock => CleanLinesMatchStore'
<1> DEFINE b == Block(call.addr)
<1> SUFFICES ASSUME IInv, CInv, ReadBlock PROVE CleanLinesMatchStore'
  OBVIOUS
<1>1. Pending("read") /\ InChip
  BY DEF ReadBlock
<1>2. PICK l \in Lines :
        CacheLoadBlock(b, l) /\ cache' = [cache EXCEPT ![l] = LoadedLine(b, l)]
  BY DEF ReadBlock
<1>3. b \in Blocks
  BY <1>1, PendingFacts
<1> HIDE DEF b
<1>4. LoadedLine(b, l) \in LineType /\ LoadedLine(b, l).block_idx = b
  BY <1>2, <1>3, LoadFacts DEF CacheLoadBlock
<1> QED BY <1>2, <1>3, <1>4, LoadedLineIsCopy, LoadKeepsCopies

(* A line that was changed is dirty, so it need not be a copy. *)
LEMMA DirtyLineKeepsCopies ==
  ASSUME IInv, CInv, NEW b \in Blocks, NEW l \in Lines, CacheLoadBlock(b, l),
         NEW d \in Content,
         cache' = [cache EXCEPT ![l] = [LoadedLine(b, l) EXCEPT !.data = d, !.dirty = TRUE]]
  PROVE  CleanLinesMatchStore'
<1> DEFINE line == LoadedLine(b, l)
           ln   == [line EXCEPT !.data = d, !.dirty = TRUE]
<1>1. line \in LineType /\ line.block_idx = b
  BY LoadFacts DEF CacheLoadBlock
<1>2. ln \in LineType /\ ln.block_idx = b /\ ln.dirty
  <2> HIDE DEF line
  <2> QED BY <1>1 DEF LineType
<1> HIDE DEF line
<1>3. cache' = [cache EXCEPT ![l] = ln]
  BY DEF line
<1> HIDE DEF ln
<1> QED BY <1>2, <1>3, LoadKeepsCopies

LEMMA WriteKeepsCopies == IInv /\ CInv /\ WriteBlock => CleanLinesMatchStore'
<1> DEFINE b == Block(call.addr)
           o == Offset(call.addr)
           n == Chunk
<1> SUFFICES ASSUME IInv, CInv, WriteBlock PROVE CleanLinesMatchStore'
  OBVIOUS
<1>1. Pending("write") /\ InChip
  BY DEF WriteBlock
<1>2. PICK l \in Lines :
        /\ CacheLoadBlock(b, l)
        /\ cache' = [cache EXCEPT ![l] =
             [LoadedLine(b, l) EXCEPT !.data = Programmed(b, o, n, @), !.dirty = TRUE]]
  BY DEF WriteBlock
<1>3. b \in Blocks
  BY <1>1, PendingFacts
<1> HIDE DEF b, o, n
<1> DEFINE d == Programmed(b, o, n, LoadedLine(b, l).data)
<1>4. LoadedLine(b, l) \in LineType
  BY <1>2, <1>3, LoadFacts DEF CacheLoadBlock
<1>5. d \in Content
  BY <1>1, <1>3, <1>4, ProgrammedType DEF LineType
<1>6. cache' = [cache EXCEPT ![l] = [LoadedLine(b, l) EXCEPT !.data = d, !.dirty = TRUE]]
  BY <1>2
<1>7. CacheLoadBlock(b, l)
  BY <1>2
<1> HIDE DEF d
<1> QED BY <1>3, <1>5, <1>6, <1>7, DirtyLineKeepsCopies

LEMMA ErasePartKeepsCopies == IInv /\ CInv /\ ErasePartOfBlock => CleanLinesMatchStore'
<1> DEFINE b == Block(call.addr)
           o == Offset(call.addr)
           n == Chunk
           wiped(d) == [i \in Offsets |-> IF i < o \/ i >= o + n THEN d[i] ELSE FF]
<1> SUFFICES ASSUME IInv, CInv, ErasePartOfBlock PROVE CleanLinesMatchStore'
  OBVIOUS
<1>1. Pending("erase") /\ InChip
  BY DEF ErasePartOfBlock
<1>2. PICK l \in Lines :
        /\ CacheLoadBlock(b, l)
        /\ cache' = [cache EXCEPT ![l] =
             [LoadedLine(b, l) EXCEPT !.data = wiped(@), !.dirty = TRUE]]
  BY DEF ErasePartOfBlock
<1>3. b \in Blocks
  BY <1>1, PendingFacts
<1> HIDE DEF b, o, n
<1> DEFINE d == wiped(LoadedLine(b, l).data)
<1>4. LoadedLine(b, l).data \in Content
  BY <1>2, <1>3, LoadFacts DEF CacheLoadBlock, LineType
<1>5. d \in Content
  BY <1>4 DEF Content, FF, Byte
<1>6. cache' = [cache EXCEPT ![l] = [LoadedLine(b, l) EXCEPT !.data = d, !.dirty = TRUE]]
  BY <1>2
<1>7. CacheLoadBlock(b, l)
  BY <1>2
<1> HIDE DEF d
<1> QED BY <1>3, <1>5, <1>6, <1>7, DirtyLineKeepsCopies

(* cstore_erase of a whole block wipes the copy too. *)
LEMMA EraseKeepsCopies == IInv /\ CInv /\ EraseWholeBlock => CleanLinesMatchStore'
<1> DEFINE b == Block(call.addr)
<1> SUFFICES ASSUME IInv, CInv, EraseWholeBlock,
                    NEW l \in Lines, cache'[l].valid, ~cache'[l].dirty
             PROVE  cache'[l].data = Fetch(store', cache'[l].block_idx)
  BY DEF CleanLinesMatchStore, ValidLines
<1>1. /\ Pending("erase") /\ InChip /\ Erased(b)
      /\ cache'[l] = IF Lowest(l, CachedAt(b))
                     THEN [cache[l] EXCEPT !.data = ErasedBlock, !.dirty = FALSE]
                     ELSE cache[l]
  BY DEF EraseWholeBlock, Erased
<1>2. b \in Blocks
  BY <1>1, PendingFacts
<1> HIDE DEF b
<1>3. cache[l] \in LineType
  BY DEF IInv, TypeOK
<1>4. CASE Lowest(l, CachedAt(b))
  <2>1. cache[l].block_idx = b
    BY <1>4 DEF Lowest, CachedAt
  <2>2. cache'[l].data = ErasedBlock /\ cache'[l].block_idx = b
    BY <1>1, <1>3, <1>4, <2>1 DEF LineType
  <2> QED BY <1>1, <1>2, <2>2, FetchElsewhere
<1>5. CASE ~Lowest(l, CachedAt(b))
  <2>1. cache'[l] = cache[l]
    BY <1>1, <1>5
  <2>2. l \in ValidLines /\ cache[l].block_idx \in Blocks
    BY <2>1 DEF ValidLines, IInv, TypeOK
  <2>3. cache[l].block_idx # b
    <3>1. ASSUME cache[l].block_idx = b PROVE Lowest(l, CachedAt(b))
      <4>1. l \in CachedAt(b) /\ \A k \in CachedAt(b) : k = l
        BY <2>2, <3>1 DEF CachedAt, ValidLines, IInv, OneLinePerBlock
      <4>2. l \in Int
        BY DEF Lines
      <4> QED BY <4>1, <4>2 DEF Lowest
    <3> QED BY <1>5, <3>1
  <2>4. cache[l].data = Fetch(store, cache[l].block_idx)
    BY <2>1, <2>2 DEF CInv, CleanLinesMatchStore
  <2> QED BY <1>1, <1>2, <2>1, <2>2, <2>3, <2>4, FetchElsewhere
<1> QED BY <1>4, <1>5

(* Any step but one of a flush keeps clean lines copies. *)
LEMMA StepKeepsCopies ==
  IInv /\ CInv /\ [Next]_vars => CleanLinesMatchStore'
<1> SUFFICES ASSUME IInv, CInv, [Next]_vars PROVE CleanLinesMatchStore'
  OBVIOUS
<1>1. ~FlushLine
  BY DEF FlushLine, Pending, CInv
<1>2. CASE UNCHANGED <<store, cache>>
  BY <1>2 DEF CInv, CleanLinesMatchStore, ValidLines
<1>3. CASE ReadBlock \/ WriteBlock \/ EraseWholeBlock \/ ErasePartOfBlock
  BY <1>3, ReadKeepsCopies, WriteKeepsCopies, EraseKeepsCopies, ErasePartKeepsCopies
<1> QED BY <1>1, <1>2, <1>3 DEF Next, Step, vars, StartCall, ReadBeyondChip, StopBeyondChip

(* Until a flush is called, dropping a clean line loses nothing (cache_evict_lru,
   cache_load_block). *)
THEOREM CleanLinesAreCopies == LruSpec => []CopiesUntilFlush
<1> DEFINE FInv == flushed \/ CInv
<1>1. LruInit => IInv /\ FInv
  BY InitIInv DEF LruInit, Init, CInv, CleanLinesMatchStore, ValidLines, EmptyLine, Idle
<1>2. [LruNext]_lruVars => [Next]_vars
  BY DEF LruNext, Loading, NotLoading, Next, Step, lruVars, vars
<1>3. IInv /\ FInv /\ [LruNext]_lruVars => FInv'
  <2> SUFFICES ASSUME IInv, CInv, [LruNext]_lruVars, ~flushed' PROVE CInv'
    BY DEF LruNext, lruVars
  <2>1. call'.op # "flush"
    BY DEF LruNext, lruVars, CInv
  <2> QED BY <1>2, <2>1, StepKeepsCopies DEF CInv
<1>4. FInv => CopiesUntilFlush
  BY DEF CInv, CopiesUntilFlush
<1> HIDE DEF FInv
<1> QED BY <1>1, <1>2, <1>3, <1>4, NextKeepsIInv, PTL DEF LruSpec
----------------------------------------------------------------------------
(***************************************************************************)
(* CStore implements VolatileFlash, for every value of the constants: the  *)
(* cache, the compression and the buffer cannot be told from a flash whose *)
(* sectors may fall back to what the image, or an erase, left in them.     *)
(***************************************************************************)

Mem     == [b \in Blocks |-> Visible(b)]
Durable == [b \in Blocks |-> Fetch(store, b)]

(* Sector b is given the content d; others fall back, or are found erased. *)
Disturbed(b, d) ==
  \E lost \in VF!Evictable(b), wiped \in VF!Wipeable(b) :
    /\ Mem' = [VF!Settled(lost, wiped) EXCEPT ![b] = d]
    /\ Durable' = VF!Kept(wiped)

----------------------------------------------------------------------------
(* What a reader of a cached block is given is the data of its one line. *)
LEMMA VisibleCached ==
  IInv => \A l \in ValidLines : Visible(cache[l].block_idx) = cache[l].data
<1> SUFFICES ASSUME IInv, NEW l \in ValidLines
             PROVE  Visible(cache[l].block_idx) = cache[l].data
  OBVIOUS
<1> DEFINE b == cache[l].block_idx
<1>1. l \in Lines /\ l \in Nat
  BY SizesAssumption DEF ValidLines, Lines
<1>2. CachedAt(b) = {l}
  BY DEF IInv, OneLinePerBlock, ValidLines, CachedAt
<1>3. \A k \in Lines : Lowest(k, CachedAt(b)) <=> k = l
  BY <1>1, <1>2 DEF Lowest
<1>4. (CHOOSE k \in Lines : Lowest(k, CachedAt(b))) = l
  BY <1>1, <1>3
<1> QED BY <1>2, <1>4 DEF Visible

LEMMA VisibleCachedNext ==
  (IInv => \A l \in ValidLines : Visible(cache[l].block_idx) = cache[l].data)'
BY VisibleCached, PTL

LEMMA VisibleUncached ==
  IInv => \A b \in Blocks :
            (\A l \in ValidLines : cache[l].block_idx # b) => Visible(b) = Fetch(store, b)
BY DEF Visible, CachedAt, ValidLines

LEMMA VisibleUncachedNext ==
  (IInv => \A b \in Blocks :
             (\A l \in ValidLines : cache[l].block_idx # b) => Visible(b) = Fetch(store, b))'
BY VisibleUncached, PTL

LEMMA FetchAfterErase ==
  ASSUME NEW st, StoreOK(st), NEW b \in Blocks, NEW c \in Blocks
  PROVE  Fetch([st EXCEPT !.blocks[b].comp_size = 0], c)
           = IF c = b THEN ErasedBlock ELSE Fetch(st, c)
<1> DEFINE st1 == [st EXCEPT !.blocks[b].comp_size = 0]
<1>1. st1.blocks = [st.blocks EXCEPT ![b].comp_size = 0] /\ st1.comp_data = st.comp_data
  BY EraseStoreOK
<1>2. st.blocks \in [Blocks -> [offset : Nat, comp_size : Nat]]
  BY DEF StoreOK
<1>3. /\ st1.blocks[c].comp_size = IF c = b THEN 0 ELSE st.blocks[c].comp_size
      /\ st1.blocks[c].offset = st.blocks[c].offset
  BY <1>1, <1>2
<1> HIDE DEF st1
<1>4. Fetch(st1, c) = IF c = b THEN ErasedBlock ELSE Fetch(st, c)
  BY <1>1, <1>3 DEF Fetch
<1> QED BY <1>4 DEF st1

(* cache_load_block delivers what a reader of the block is to be given. *)
LEMMA LoadDelivers ==
  ASSUME IInv, NEW b \in Blocks, NEW l \in Lines, LoadsInto(b, l)
  PROVE  LoadedLine(b, l).data = Visible(b)
<1>1. CASE CachedAt(b) # {}
  <2>1. l \in ValidLines /\ cache[l].block_idx = b
    BY <1>1 DEF LoadsInto, Lowest, CachedAt, ValidLines
  <2>2. LoadedLine(b, l).data = cache[l].data
    BY <1>1 DEF LoadedLine, IInv, TypeOK, LineType
  <2> QED BY <2>1, <2>2, VisibleCached
<1>2. CASE CachedAt(b) = {}
  <2>1. LoadedLine(b, l).data = Fetch(LoadedStore(b, l), b) /\ Visible(b) = Fetch(store, b)
    BY <1>2 DEF LoadedLine, Visible
  <2>2. LoadedStore(b, l) = FlushCacheLine(store, cache[l])
    BY <1>2 DEF LoadedStore
  <2>3. cache[l].valid => cache[l].block_idx # b
    BY <1>2 DEF CachedAt
  <2>4. StoreOK(store)
    BY DEF IInv, TypeOK
  <2> DEFINE v == cache[l].block_idx
  <2>5. CASE FlushCacheLine(store, cache[l]) = store
    BY <2>1, <2>2, <2>5
  <2>6. CASE /\ cache[l].valid /\ v \in Blocks
             /\ FlushCacheLine(store, cache[l]) = [store EXCEPT !.blocks[v].comp_size = 0]
    <3>1. v # b
      BY <2>3, <2>6
    <3> HIDE DEF v
    <3>2. Fetch([store EXCEPT !.blocks[v].comp_size = 0], b) = Fetch(store, b)
      BY <2>4, <2>6, <3>1, FetchAfterErase
    <3> QED BY <2>1, <2>2, <2>6, <3>2
  <2> QED BY <2>5, <2>6, FlushNeverAppends
<1> QED BY <1>1, <1>2

(* What a load does to the blocks it is not for: one of them may fall back to
   what the store holds, or, being all 0xFF, become erased in the store. *)
LEMMA LoadDisturbs ==
  ASSUME IInv, IInv', NEW b \in Blocks, NEW l \in Lines, CacheLoadBlock(b, l),
         NEW ln, ln.valid, ln.block_idx = b,
         cache' = [cache EXCEPT ![l] = ln]
  PROVE  Disturbed(b, ln.data)
<1> DEFINE v     == cache[l].block_idx
           miss  == CachedAt(b) = {} /\ cache[l].valid
           lost  == IF miss THEN {v} ELSE {}
           wiped == IF miss /\ store' # store THEN {v} ELSE {}
<1>1. LoadsInto(b, l) /\ store' = LoadedStore(b, l) /\ StoreOK(store)
  BY DEF CacheLoadBlock, IInv, TypeOK
<1>2. cache \in [Lines -> LineType]
  BY DEF IInv, TypeOK
<1>3. \A m \in Lines : cache'[m] = IF m = l THEN ln ELSE cache[m]
  BY <1>2
<1>4. ValidLines' = ValidLines \cup {l}
  BY <1>3 DEF ValidLines
<1>5. miss => v \in Blocks \ {b}
  BY DEF IInv, TypeOK, CachedAt, ValidLines
<1>6. ~miss => store' = store
  BY <1>1, FlushNeverAppends DEF LoadedStore
<1>7. store' # store => /\ miss
                        /\ IsErasedBlock(v, cache[l].data)
                        /\ store' = [store EXCEPT !.blocks[v].comp_size = 0]
  BY <1>1, FlushNeverAppends DEF LoadedStore
<1>8. \A c \in Blocks : Fetch(store', c) = IF c \in wiped THEN ErasedBlock ELSE Fetch(store, c)
  BY <1>1, <1>5, <1>7, FetchAfterErase
<1>9. Visible(b)' = ln.data
  <2>1. l \in ValidLines' /\ cache'[l].block_idx = b /\ cache'[l].data = ln.data
    BY <1>3, <1>4
  <2> QED BY <2>1, VisibleCachedNext
<1>10. ASSUME NEW c \in Blocks \ {b}
       PROVE  Visible(c)' = IF c \in wiped THEN ErasedBlock
                            ELSE IF c \in lost THEN Fetch(store, c) ELSE Visible(c)
  <2>1. CASE \E m \in ValidLines' : cache'[m].block_idx = c
    <3>1. PICK m \in ValidLines' : cache'[m].block_idx = c
      BY <2>1
    <3>2. m # l /\ m \in ValidLines /\ cache'[m] = cache[m]
      BY <1>3, <1>4, <3>1 DEF ValidLines
    <3>3. Visible(c)' = cache[m].data /\ Visible(c) = cache[m].data
      BY <3>1, <3>2, VisibleCached, VisibleCachedNext
    <3>4. ~(miss /\ c = v)
      BY <3>1, <3>2 DEF IInv, OneLinePerBlock, ValidLines
    <3> QED BY <3>3, <3>4
  <2>2. CASE \A m \in ValidLines' : cache'[m].block_idx # c
    <3>1. Visible(c)' = Fetch(store', c)
      BY <2>2, VisibleUncachedNext
    <3>2. CASE \E m \in ValidLines : cache[m].block_idx = c
      <4>1. l \in ValidLines /\ cache[l].block_idx = c
        BY <1>3, <1>4, <2>2, <3>2
      <4>2. miss
        BY <1>1, <4>1 DEF LoadsInto, Lowest, CachedAt, ValidLines
      <4> QED BY <1>8, <3>1, <4>1, <4>2
    <3>3. CASE \A m \in ValidLines : cache[m].block_idx # c
      <4>1. Visible(c) = Fetch(store, c)
        BY <3>3, VisibleUncached
      <4>2. ~(miss /\ c = v)
        BY <3>3 DEF ValidLines
      <4> QED BY <1>8, <3>1, <4>1, <4>2
    <3> QED BY <3>2, <3>3
  <2> QED BY <2>1, <2>2
<1>11. lost \in VF!Evictable(b)
  BY <1>5 DEF VF!Evictable, VF!Blocks, VF!NumBlocks, Blocks, NumBlocks
<1>12. wiped \in VF!Wipeable(b)
  <2>1. CASE miss /\ store' # store
    <3>1. v \in Blocks \ {b} /\ IsErasedBlock(v, cache[l].data)
      BY <1>5, <1>7, <2>1
    <3>2. Mem[v] = cache[l].data
      BY <2>1, <3>1, VisibleCached DEF Mem, ValidLines
    <3>3. VF!Erased(v, Mem[v])
      BY <3>1, <3>2 DEF VF!Erased, VF!BlockLen, VF!FF, IsErasedBlock, BlockLen, FF
    <3> HIDE DEF v
    <3> QED BY <3>1, <3>3, <2>1 DEF VF!Wipeable, VF!Blocks, VF!NumBlocks, Blocks, NumBlocks, Mem
  <2>2. CASE ~(miss /\ store' # store)
    BY <2>2 DEF VF!Wipeable
  <2> QED BY <2>1, <2>2
<1> HIDE DEF lost, wiped
<1>13. Durable' = VF!Kept(wiped)
  BY <1>8 DEF Durable, VF!Kept, VF!Blocks, VF!NumBlocks, VF!ErasedBlock, VF!Offsets, VF!FF,
              Blocks, NumBlocks, ErasedBlock, Offsets, FF
<1>14. Mem' = [VF!Settled(lost, wiped) EXCEPT ![b] = ln.data]
  <2>1. \A c \in Blocks : Mem'[c] = IF c = b THEN ln.data
                                    ELSE IF c \in wiped THEN ErasedBlock
                                    ELSE IF c \in lost THEN Durable[c] ELSE Mem[c]
    BY <1>9, <1>10 DEF Mem, Durable
  <2>2. VF!Settled(lost, wiped) = [c \in Blocks |-> IF c \in wiped THEN ErasedBlock
                                    ELSE IF c \in lost THEN Durable[c] ELSE Mem[c]]
    BY DEF VF!Settled, VF!Blocks, VF!NumBlocks, VF!ErasedBlock, VF!Offsets, VF!FF,
           Blocks, NumBlocks, ErasedBlock, Offsets, FF, Mem, Durable
  <2>3. Mem' = [c \in Blocks |-> Mem'[c]]
    BY DEF Mem
  <2> QED BY <2>1, <2>2, <2>3
<1> QED BY <1>11, <1>12, <1>13, <1>14 DEF Disturbed

----------------------------------------------------------------------------
(* The two modules name the same sizes, and cut a call into the same pieces. *)
LEMMA SameSizes ==
  /\ VF!Blocks = Blocks /\ VF!Offsets = Offsets /\ VF!FF = FF
  /\ VF!ErasedBlock = ErasedBlock /\ VF!Idle = Idle
  /\ VF!Chunk = Chunk /\ VF!InChip = InChip
  /\ VF!Block(call.addr) = Block(call.addr)
  /\ VF!Offset(call.addr) = Offset(call.addr)
BY DEF VF!Blocks, VF!NumBlocks, VF!Offsets, VF!FF, VF!ErasedBlock, VF!Idle, VF!Chunk,
       VF!InChip, VF!Block, VF!Offset, Blocks, NumBlocks, Offsets, FF, ErasedBlock, Idle,
       Chunk, InChip, Block, Offset

(* A freshly created store delivers the image it was created from. *)
LEMMA InitImplements == Init => VF!Init
<1> SUFFICES ASSUME Init PROVE VF!Init
  OBVIOUS
<1>0. PICK image \in Images : \E off \in Layouts(image) : store = CStoreCreate(image, off)
  BY DEF Init
<1>1. PICK off \in Layouts(image) : store = CStoreCreate(image, off)
  BY <1>0
<1>2. image \in [Blocks -> Content]
        /\ \A b \in Blocks, o \in Offsets : o >= BlockLen(b) => image[b][o] = FF
  BY ImagesAssumption
<1>3. \A b \in Blocks : Fetch(store, b) = image[b]
  <2> SUFFICES ASSUME NEW b \in Blocks PROVE Fetch(store, b) = image[b]
    OBVIOUS
  <2>1. BlockLen(b) \in 1 .. BlockSize /\ BlockSize \in Nat
    BY BlockLenBounds, SizesAssumption
  <2>2. image[b] = [o \in Offsets |-> image[b][o]]
    BY <1>2 DEF Content
  <2>3. store.blocks[b].comp_size = CompSize(b, image[b])
    BY <1>1 DEF CStoreCreate
  <2>4. CASE CompSize(b, image[b]) = 0
    <3>1. StoredSize(b, image[b]) # 0
      BY <2>1, SizeBounds
    <3>2. IsErasedBlock(b, image[b])
      BY <2>4, <3>1 DEF CompSize
    <3>3. \A o \in Offsets : image[b][o] = FF
      BY <1>2, <2>1, <3>2 DEF IsErasedBlock, Offsets
    <3> QED BY <2>2, <2>3, <2>4, <3>3 DEF Fetch, ErasedBlock
  <2>5. CASE CompSize(b, image[b]) # 0
    <3> DEFINE live  == {c \in Blocks : CompSize(c, image[c]) # 0}
               at(p) == CHOOSE c \in live : off[c] = p
    <3>1. b \in live /\ at(off[b]) = b
      BY <2>5, LayoutInjective
    <3>2. /\ store.blocks = [c \in Blocks |-> [offset    |-> IF c \in live THEN off[c] ELSE 0,
                                               comp_size |-> CompSize(c, image[c])]]
          /\ store.comp_data = [p \in {off[c] : c \in live} |-> ChunkOf(at(p), image[at(p)])]
      BY <1>1 DEF CStoreCreate
    <3>3. store.blocks[b].offset = off[b] /\ off[b] \in {off[c] : c \in live}
      BY <3>1, <3>2
    <3>4. store.comp_data[off[b]] = ChunkOf(b, image[b])
      <4>1. store.comp_data[off[b]] = ChunkOf(at(off[b]), image[at(off[b])])
        <5> HIDE DEF at, live
        <5> QED BY <3>2, <3>3
      <4> HIDE DEF at, live
      <4> QED BY <3>1, <4>1
    <3> HIDE DEF at, live
    <3>5. \A o \in Offsets : o < BlockLen(b) => ChunkOf(b, image[b])[o] = image[b][o]
      BY <2>1 DEF ChunkOf, Offsets
    <3>6. Fetch(store, b) = [o \in Offsets |-> IF o < BlockLen(b)
                                               THEN ChunkOf(b, image[b])[o] ELSE FF]
      BY <2>3, <2>5, <3>3, <3>4 DEF Fetch
    <3>7. \A o \in Offsets : ~(o < BlockLen(b)) => image[b][o] = FF
      BY <1>2, <2>1 DEF Offsets
    <3>8. Fetch(store, b) = [o \in Offsets |-> image[b][o]]
      BY <3>5, <3>6, <3>7
    <3> QED BY <2>2, <3>8
  <2> QED BY <2>4, <2>5
<1>4. \A b \in Blocks : Visible(b) = image[b]
  BY <1>3 DEF Init, EmptyLine, Visible, CachedAt
<1>5. Mem = image /\ Durable = image
  BY <1>2, <1>3, <1>4 DEF Mem, Durable
<1>6. call = Idle /\ dst = <<>>
  BY DEF Init
<1> QED BY <1>5, <1>6, SameSizes DEF VF!Init, Mem, Durable

----------------------------------------------------------------------------
(* What falls back or is wiped is never the sector that is addressed. *)
LEMMA SettledElsewhere ==
  ASSUME NEW b \in Blocks, NEW lost \in VF!Evictable(b), NEW wiped \in VF!Wipeable(b)
  PROVE  /\ VF!Settled(lost, wiped)[b] = Visible(b)
         /\ \A d : [VF!Settled(lost, wiped) EXCEPT ![b] = d]
                  = [c \in Blocks |-> IF c = b THEN d ELSE VF!Settled(lost, wiped)[c]]
         /\ VF!Settled(lost, wiped)
              = [c \in Blocks |-> VF!Settled(lost, wiped)[c]]
<1>1. b \notin lost /\ b \notin wiped
  BY DEF VF!Evictable, VF!Wipeable
<1> QED BY <1>1, SameSizes DEF VF!Settled

(* Each step of the loops is a step of the flash device. *)
LEMMA ReadImplements == IInv /\ IInv' /\ ReadBlock => VF!Read
<1> DEFINE o == Offset(call.addr)
           n == Chunk
<1> SUFFICES ASSUME IInv, IInv', ReadBlock PROVE VF!Read
  OBVIOUS
<1>1. Pending("read") /\ InChip /\ Advance(n)
  BY DEF ReadBlock
<1>2. PICK b \in Blocks : b = Block(call.addr)
  BY <1>1, PendingFacts
<1>3. PICK l \in Lines :
        /\ CacheLoadBlock(b, l)
        /\ cache' = [cache EXCEPT ![l] = LoadedLine(b, l)]
        /\ dst' = dst \o [k \in 1 .. n |-> LoadedLine(b, l).data[o + k - 1]]
  BY <1>2 DEF ReadBlock
<1>4. PICK ln : ln = LoadedLine(b, l)
  OBVIOUS
<1>5. LoadsInto(b, l)
  BY <1>3 DEF CacheLoadBlock
<1>6. VF!Block(call.addr) = b /\ VF!Offset(call.addr) = o /\ VF!Chunk = n /\ VF!InChip = InChip
  BY <1>2, SameSizes
<1>7. VF!Advance(n) /\ VF!Pending("read")
  BY <1>1 DEF VF!Advance, Advance, VF!Idle, Idle, VF!Pending, Pending
<1> HIDE DEF o, n
<1>8. ln.valid /\ ln.block_idx = b /\ ln.data = Visible(b)
  BY <1>4, <1>5, LoadFacts, LoadDelivers
<1>9. cache' = [cache EXCEPT ![l] = ln]
  BY <1>3, <1>4
<1>10. dst' = dst \o [k \in 1 .. n |-> Mem[b][o + k - 1]]
  BY <1>3, <1>4, <1>8 DEF Mem
<1>11. Disturbed(b, ln.data)
  BY <1>3, <1>8, <1>9, LoadDisturbs
<1>12. PICK lost \in VF!Evictable(b) : \E wiped \in VF!Wipeable(b) :
         /\ Mem' = [VF!Settled(lost, wiped) EXCEPT ![b] = ln.data]
         /\ Durable' = VF!Kept(wiped)
  BY <1>11 DEF Disturbed
<1>13. PICK wiped \in VF!Wipeable(b) :
         /\ Mem' = [VF!Settled(lost, wiped) EXCEPT ![b] = ln.data]
         /\ Durable' = VF!Kept(wiped)
  BY <1>12
<1>14. VF!Settled(lost, wiped)[b] = Visible(b)
  BY <1>12, <1>13, SettledElsewhere
<1>15. Mem' = VF!Settled(lost, wiped)
  BY <1>8, <1>13, <1>14, SettledElsewhere
<1> QED BY <1>1, <1>6, <1>7, <1>10, <1>13, <1>15 DEF VF!Read, Mem, Durable

LEMMA WriteImplements == IInv /\ IInv' /\ WriteBlock => VF!Write
<1> DEFINE o == Offset(call.addr)
           n == Chunk
<1> SUFFICES ASSUME IInv, IInv', WriteBlock PROVE VF!Write
  OBVIOUS
<1>1. Pending("write") /\ InChip /\ Advance(n) /\ dst' = dst
  BY DEF WriteBlock
<1>2. PICK b \in Blocks : b = Block(call.addr)
  BY <1>1, PendingFacts
<1>3. PICK l \in Lines :
        /\ CacheLoadBlock(b, l)
        /\ cache' = [cache EXCEPT ![l] =
             [LoadedLine(b, l) EXCEPT !.data = Programmed(b, o, n, @), !.dirty = TRUE]]
  BY <1>2 DEF WriteBlock
<1>4. PICK ln : ln = [LoadedLine(b, l) EXCEPT !.data = Programmed(b, o, n, @), !.dirty = TRUE]
  OBVIOUS
<1>5. LoadsInto(b, l)
  BY <1>3 DEF CacheLoadBlock
<1>6. VF!Block(call.addr) = b /\ VF!Offset(call.addr) = o /\ VF!Chunk = n /\ VF!InChip = InChip
  BY <1>2, SameSizes
<1>7. VF!Advance(n) /\ VF!Pending("write")
  BY <1>1 DEF VF!Advance, Advance, VF!Idle, Idle, VF!Pending, Pending
<1>8. \A d : VF!Programmed(b, o, n, d) = Programmed(b, o, n, d)
  BY SameSizes DEF VF!Programmed, Programmed
<1> HIDE DEF o, n
<1>9. /\ LoadedLine(b, l) \in LineType /\ LoadedLine(b, l).valid
      /\ LoadedLine(b, l).block_idx = b /\ LoadedLine(b, l).data = Visible(b)
  BY <1>5, LoadFacts, LoadDelivers
<1>10. ln.valid /\ ln.block_idx = b /\ ln.data = Programmed(b, o, n, Visible(b))
  BY <1>4, <1>9 DEF LineType
<1>11. cache' = [cache EXCEPT ![l] = ln]
  BY <1>3, <1>4
<1>12. Disturbed(b, VF!Programmed(b, o, n, Mem[b]))
  <2>1. Disturbed(b, ln.data)
    BY <1>3, <1>10, <1>11, LoadDisturbs
  <2> QED BY <1>8, <1>10, <2>1 DEF Mem
<1> QED BY <1>1, <1>6, <1>7, <1>12 DEF VF!Write, Disturbed, Mem, Durable

LEMMA ErasePartImplements == IInv /\ IInv' /\ ErasePartOfBlock => VF!ErasePart
<1> DEFINE o == Offset(call.addr)
           n == Chunk
           wiped(d) == [i \in Offsets |-> IF i < o \/ i >= o + n THEN d[i] ELSE FF]
<1> SUFFICES ASSUME IInv, IInv', ErasePartOfBlock PROVE VF!ErasePart
  OBVIOUS
<1>1. /\ Pending("erase") /\ InChip /\ Advance(n) /\ dst' = dst
      /\ ~(o = 0 /\ call.len >= BlockSize)
  BY DEF ErasePartOfBlock
<1>2. PICK b \in Blocks : b = Block(call.addr)
  BY <1>1, PendingFacts
<1>3. PICK l \in Lines :
        /\ CacheLoadBlock(b, l)
        /\ cache' = [cache EXCEPT ![l] =
             [LoadedLine(b, l) EXCEPT !.data = wiped(@), !.dirty = TRUE]]
  BY <1>2 DEF ErasePartOfBlock
<1>4. PICK ln : ln = [LoadedLine(b, l) EXCEPT !.data = wiped(@), !.dirty = TRUE]
  OBVIOUS
<1>5. LoadsInto(b, l)
  BY <1>3 DEF CacheLoadBlock
<1>6. VF!Block(call.addr) = b /\ VF!Offset(call.addr) = o /\ VF!Chunk = n /\ VF!InChip = InChip
  BY <1>2, SameSizes
<1>7. VF!Advance(n) /\ VF!Pending("erase")
  BY <1>1 DEF VF!Advance, Advance, VF!Idle, Idle, VF!Pending, Pending
<1>8. VF!Offsets = Offsets /\ VF!FF = FF
  BY SameSizes
<1> HIDE DEF o, n
<1>9. /\ LoadedLine(b, l) \in LineType /\ LoadedLine(b, l).valid
      /\ LoadedLine(b, l).block_idx = b /\ LoadedLine(b, l).data = Visible(b)
  BY <1>5, LoadFacts, LoadDelivers
<1>10. ln.valid /\ ln.block_idx = b /\ ln.data = wiped(Visible(b))
  <2> HIDE DEF wiped
  <2> QED BY <1>4, <1>9 DEF LineType
<1>11. cache' = [cache EXCEPT ![l] = ln]
  BY <1>3, <1>4
<1>12. Disturbed(b, wiped(Mem[b]))
  <2>1. Disturbed(b, ln.data)
    BY <1>3, <1>10, <1>11, LoadDisturbs
  <2> HIDE DEF wiped
  <2> QED BY <1>10, <2>1 DEF Mem
<1> QED BY <1>1, <1>6, <1>7, <1>8, <1>12 DEF VF!ErasePart, Disturbed, Mem, Durable

LEMMA EraseWholeImplements == IInv /\ IInv' /\ EraseWholeBlock => VF!EraseSector
<1> SUFFICES ASSUME IInv, IInv', EraseWholeBlock PROVE VF!EraseSector
  OBVIOUS
<1>1. /\ Pending("erase") /\ InChip /\ Advance(BlockSize)
      /\ Offset(call.addr) = 0 /\ call.len >= BlockSize /\ dst' = dst
  BY DEF EraseWholeBlock
<1>2. PICK b \in Blocks : b = Block(call.addr)
  BY <1>1, PendingFacts
<1>3. /\ store' = [store EXCEPT !.blocks[b].comp_size = 0]
      /\ cache' = [l \in Lines |-> IF Lowest(l, CachedAt(b))
                                   THEN [cache[l] EXCEPT !.data = ErasedBlock, !.dirty = FALSE]
                                   ELSE cache[l]]
  BY <1>2 DEF EraseWholeBlock
<1>4. \A c \in Blocks : Fetch(store', c) = IF c = b THEN ErasedBlock ELSE Fetch(store, c)
  BY <1>3, FetchAfterErase DEF IInv, TypeOK
<1>5. \A l \in ValidLines : (cache[l].block_idx = b) <=> Lowest(l, CachedAt(b))
  <2> SUFFICES ASSUME NEW l \in ValidLines
               PROVE  (cache[l].block_idx = b) <=> Lowest(l, CachedAt(b))
    OBVIOUS
  <2>1. cache[l].block_idx = b => CachedAt(b) = {l}
    BY DEF IInv, OneLinePerBlock, ValidLines, CachedAt
  <2>2. l \in Nat
    BY SizesAssumption DEF ValidLines, Lines
  <2> QED BY <2>1, <2>2 DEF Lowest, CachedAt
<1>6. \A l \in Lines : /\ cache'[l].valid = cache[l].valid
                       /\ cache'[l].block_idx = cache[l].block_idx
                       /\ cache[l].valid => cache'[l].data = IF cache[l].block_idx = b
                                                             THEN ErasedBlock
                                                             ELSE cache[l].data
  <2> TAKE l \in Lines
  <2>1. cache[l] \in LineType
    BY DEF IInv, TypeOK
  <2>2. cache'[l] = IF Lowest(l, CachedAt(b))
                    THEN [cache[l] EXCEPT !.data = ErasedBlock, !.dirty = FALSE]
                    ELSE cache[l]
    BY <1>3
  <2>3. cache[l].valid => ((cache[l].block_idx = b) <=> Lowest(l, CachedAt(b)))
    BY <1>5 DEF ValidLines
  <2> QED BY <2>1, <2>2, <2>3 DEF LineType
<1>7. ValidLines' = ValidLines
  BY <1>6 DEF ValidLines
<1>8. ASSUME NEW c \in Blocks
      PROVE  Visible(c)' = IF c = b THEN ErasedBlock ELSE Visible(c)
  <2>1. CASE \E l \in ValidLines : cache[l].block_idx = c
    <3>1. PICK l \in ValidLines : cache[l].block_idx = c
      BY <2>1
    <3>2. Visible(c)' = cache'[l].data /\ Visible(c) = cache[l].data
      BY <1>6, <1>7, <3>1, VisibleCached, VisibleCachedNext DEF ValidLines
    <3> QED BY <1>6, <3>1, <3>2 DEF ValidLines
  <2>2. CASE \A l \in ValidLines : cache[l].block_idx # c
    <3>1. \A l \in ValidLines' : cache'[l].block_idx # c
      BY <1>6, <1>7, <2>2 DEF ValidLines
    <3>2. Visible(c)' = Fetch(store', c) /\ Visible(c) = Fetch(store, c)
      BY <2>2, <3>1, VisibleUncached, VisibleUncachedNext
    <3> QED BY <1>4, <3>2
  <2> QED BY <2>1, <2>2
<1>9. Mem' = [Mem EXCEPT ![b] = ErasedBlock] /\ Durable' = [Durable EXCEPT ![b] = ErasedBlock]
  BY <1>4, <1>8 DEF Mem, Durable
<1>10. VF!Advance(BlockSize) /\ VF!Pending("erase")
  BY <1>1 DEF VF!Advance, Advance, VF!Idle, Idle, VF!Pending, Pending
<1> QED BY <1>1, <1>2, <1>9, <1>10, SameSizes DEF VF!EraseSector, Mem, Durable

LEMMA FlushImplements == IInv /\ IInv' /\ FlushLine => VF!Flush
<1> SUFFICES ASSUME IInv, IInv', FlushLine PROVE VF!Flush
  OBVIOUS
<1>1. call.addr \in Lines
  BY DEF FlushLine, IInv, TypeOK, CallType, Pending, ReadCalls, WriteCalls, EraseCalls, Idle
<1>2. PICK l \in Lines : l = call.addr
  BY <1>1
<1>3. /\ Pending("flush") /\ Advance(1) /\ dst' = dst
      /\ store' = FlushCacheLine(store, cache[l])
      /\ cache' = [cache EXCEPT ![l].dirty = @ /\ ~cache[l].valid]
  BY <1>2 DEF FlushLine
<1>4. PICK v : v = cache[l].block_idx
  OBVIOUS
<1>5. PICK wiped : wiped = IF store' = store THEN {} ELSE {v}
  OBVIOUS
<1>6. store' # store => /\ cache[l].valid /\ v \in Blocks
                        /\ IsErasedBlock(v, cache[l].data)
                        /\ store' = [store EXCEPT !.blocks[v].comp_size = 0]
  BY <1>3, <1>4, FlushNeverAppends
<1>7. \A c \in Blocks : Fetch(store', c) = IF c \in wiped THEN ErasedBlock ELSE Fetch(store, c)
  <2>1. CASE store' = store
    BY <1>5, <2>1
  <2>2. CASE store' # store
    <3>1. /\ StoreOK(store) /\ v \in Blocks /\ wiped = {v}
          /\ store' = [store EXCEPT !.blocks[v].comp_size = 0]
      BY <1>5, <1>6, <2>2 DEF IInv, TypeOK
    <3> QED BY <3>1, FetchAfterErase
  <2> QED BY <2>1, <2>2
<1>8. \A m \in Lines : /\ cache'[m].valid = cache[m].valid
                       /\ cache'[m].block_idx = cache[m].block_idx
                       /\ cache'[m].data = cache[m].data
  BY <1>3 DEF IInv, TypeOK, LineType
<1>9. ValidLines' = ValidLines
  BY <1>8 DEF ValidLines
<1>10. ASSUME NEW c \in Blocks PROVE Visible(c)' = Visible(c)
  <2>1. CASE \E m \in ValidLines : cache[m].block_idx = c
    <3>1. PICK m \in ValidLines : cache[m].block_idx = c
      BY <2>1
    <3>2. Visible(c)' = cache'[m].data /\ Visible(c) = cache[m].data
      BY <1>8, <1>9, <3>1, VisibleCached, VisibleCachedNext DEF ValidLines
    <3> QED BY <1>8, <3>2 DEF ValidLines
  <2>2. CASE \A m \in ValidLines : cache[m].block_idx # c
    <3>1. \A m \in ValidLines' : cache'[m].block_idx # c
      BY <1>8, <1>9, <2>2 DEF ValidLines
    <3>2. Visible(c)' = Fetch(store', c) /\ Visible(c) = Fetch(store, c)
      BY <2>2, <3>1, VisibleUncached, VisibleUncachedNext
    <3>3. c \notin wiped
      BY <1>4, <1>5, <1>6, <2>2 DEF ValidLines
    <3> QED BY <1>7, <3>2, <3>3
  <2> QED BY <2>1, <2>2
<1>11. Mem' = Mem
  BY <1>10 DEF Mem
<1>12. Durable' = VF!Kept(wiped)
  BY <1>7, SameSizes DEF Durable, VF!Kept
<1>13. wiped \in SUBSET {c \in Blocks : VF!Erased(c, Mem[c])}
  <2>1. CASE store' # store
    <3>1. Mem[v] = cache[l].data
      BY <1>4, <1>6, <2>1, VisibleCached DEF Mem, ValidLines
    <3>2. VF!Erased(v, Mem[v])
      BY <1>6, <2>1, <3>1 DEF VF!Erased, VF!BlockLen, VF!FF, IsErasedBlock, BlockLen, FF
    <3> QED BY <1>5, <1>6, <2>1, <3>2
  <2>2. CASE store' = store
    BY <1>5, <2>2
  <2> QED BY <2>1, <2>2
<1>14. VF!Advance(1) /\ VF!Pending("flush")
  BY <1>3 DEF VF!Advance, Advance, VF!Idle, Idle, VF!Pending, Pending
<1> QED BY <1>3, <1>11, <1>12, <1>13, <1>14, SameSizes DEF VF!Flush, Mem, Durable

LEMMA StepImplements == IInv /\ IInv' /\ [Next]_vars => [VF!Next]_VF!vars
<1> SUFFICES ASSUME IInv, IInv', [Next]_vars PROVE [VF!Next]_VF!vars
  OBVIOUS
<1>1. CASE StartCall
  <2>1. Mem' = Mem /\ Durable' = Durable
    BY <1>1 DEF StartCall, Mem, Durable, Visible, CachedAt
  <2> QED BY <1>1, <2>1, SameSizes DEF StartCall, VF!Start, VF!Next, Mem, Durable
<1>2. CASE ReadBlock
  BY <1>2, ReadImplements DEF VF!Next
<1>3. CASE ReadBeyondChip
  <2>1. Mem' = Mem /\ Durable' = Durable
    BY <1>3 DEF ReadBeyondChip, Mem, Durable, Visible, CachedAt
  <2> QED BY <1>3, <2>1, SameSizes DEF ReadBeyondChip, Pending, VF!Pending, VF!ReadPastEnd,
                                      VF!Next, Mem, Durable
<1>4. CASE WriteBlock
  BY <1>4, WriteImplements DEF VF!Next
<1>5. CASE EraseWholeBlock
  BY <1>5, EraseWholeImplements DEF VF!Next
<1>6. CASE ErasePartOfBlock
  BY <1>6, ErasePartImplements DEF VF!Next
<1>7. CASE StopBeyondChip
  <2>1. Mem' = Mem /\ Durable' = Durable
    BY <1>7 DEF StopBeyondChip, Mem, Durable, Visible, CachedAt
  <2> QED BY <1>7, <2>1, SameSizes DEF StopBeyondChip, Pending, VF!Pending, VF!StopPastEnd,
                                      VF!Next, Mem, Durable
<1>8. CASE FlushLine
  BY <1>8, FlushImplements DEF VF!Next
<1>9. CASE UNCHANGED vars
  <2>1. Mem' = Mem /\ Durable' = Durable
    BY <1>9 DEF vars, Mem, Durable, Visible, CachedAt
  <2> QED BY <1>9, <2>1 DEF vars, VF!vars, Mem, Durable
<1> QED BY <1>1, <1>2, <1>3, <1>4, <1>5, <1>6, <1>7, <1>8, <1>9 DEF Next, Step

(* The compressed store implements the flash device of VolatileFlash. *)
THEOREM Implementation == Spec => Refines
<1>1. Spec => []IInv
  BY Invariance
<1> QED BY <1>1, InitImplements, StepImplements, PTL DEF Spec, Refines, VF!Spec

----------------------------------------------------------------------------
(***************************************************************************)
(* The cache is an LRU cache until the tick overflows.  The inductive      *)
(* invariant ties the ticks to the history: a cached block was used before *)
(* exactly the cached blocks with a higher tick, and a block that was used *)
(* and is not cached was used before all that are.                         *)
(***************************************************************************)
TicksAscend ==
  \A l, m \in ValidLines : /\ cache[l].access_tick <= tick
                           /\ cache[l].access_tick = cache[m].access_tick => l = m

Newer(l) ==
  {cache[m].block_idx : m \in {k \in ValidLines : cache[k].access_tick > cache[l].access_tick}}

LruOrder ==
  /\ TicksAscend
  /\ CachedBlocks \subseteq used
  /\ \A l \in ValidLines : since[cache[l].block_idx] = Newer(l)
  /\ \A b \in used \ CachedBlocks : ValidLines = Lines /\ CachedBlocks \subseteq since[b]

LruType == used \subseteq Blocks /\ since \in [Blocks -> SUBSET Blocks]

LruInv == LruType /\ (wrapped \/ LruOrder)

(* A load never drops a line that was used after another: on a miss the line
   it takes is free, or the one with the lowest tick. *)
LEMMA EvictsOldest ==
  ASSUME IInv, TicksAscend, tick < MaxTick, NEW b \in Blocks, NEW l \in Lines,
         LoadsInto(b, l), CachedAt(b) = {}, l \in ValidLines
  PROVE  /\ ValidLines = Lines
         /\ \A m \in Lines : cache[l].access_tick <= cache[m].access_tick
<1>1. CacheEvictLru(l)
  BY DEF LoadsInto
<1>2. FreeLines = {}
  BY <1>1 DEF CacheEvictLru, Lowest, FreeLines, ValidLines
<1>3. ValidLines = Lines
  BY <1>2 DEF FreeLines, ValidLines
<1>4. \A m \in Lines : cache[m].access_tick \in Nat /\ cache[m].access_tick <= tick
  BY <1>3, SizesAssumption DEF TicksAscend, IInv, TypeOK, LineType, MaxTick
<1>5. tick \in Nat /\ MaxTick \in Int
  BY SizesAssumption DEF IInv, TypeOK, MaxTick
<1>6. cache[l].access_tick # MaxTick
  BY <1>4, <1>5
<1>7. Oldest(l)
  BY <1>1, <1>2, <1>6 DEF CacheEvictLru
<1> QED BY <1>3, <1>4, <1>7 DEF Oldest

(* The line a load settles on carries the new tick, above every other. *)
LEMMA LoadTakesNextTick ==
  ASSUME IInv, TicksAscend, NextTick # 0, NEW b \in Blocks, NEW l \in Lines, LoadsInto(b, l)
  PROVE  /\ LoadedLine(b, l).access_tick = NextTick
         /\ tick < MaxTick
         /\ \A m \in ValidLines : cache[m].access_tick < NextTick
<1>1. tick \in 0 .. MaxTick /\ TickMod \in Nat \ {0} /\ cache \in [Lines -> LineType]
  BY SizesAssumption DEF IInv, TypeOK
<1>2. CASE tick = MaxTick
  <2>1. tick + 1 = TickMod
    BY <1>1, <1>2 DEF MaxTick
  <2>2. TickMod % TickMod = 0
    BY <1>1
  <2> QED BY <2>1, <2>2 DEF NextTick
<1>3. CASE tick < MaxTick
  <2>1. NextTick = tick + 1
    <3>1. tick + 1 \in 0 .. TickMod - 1
      BY <1>1, <1>3 DEF MaxTick
    <3> QED BY <1>1, <3>1 DEF NextTick
  <2>2. \A m \in ValidLines : cache[m].access_tick <= tick /\ cache[m].access_tick \in Int
    BY <1>1, SizesAssumption DEF TicksAscend, LineType, ValidLines, MaxTick
  <2>3. LoadedLine(b, l).access_tick = NextTick
    BY <1>1 DEF LoadedLine, LineType
  <2> QED BY <1>1, <1>3, <2>1, <2>2, <2>3
<1> QED BY <1>1, <1>2, <1>3 DEF MaxTick

(* One load, seen in the order of use. *)
LEMMA LoadKeepsOrder ==
  ASSUME IInv, LruType, LruOrder, NEW b \in Blocks, NEW l \in Lines,
         CacheLoadBlock(b, l), tick' # 0, Use(b),
         NEW ln \in LineType, ln.valid, ln.block_idx = b,
         ln.access_tick = LoadedLine(b, l).access_tick,
         cache' = [cache EXCEPT ![l] = ln]
  PROVE  LruOrder'
<1>1. LoadsInto(b, l) /\ tick' = NextTick /\ NextTick \in Nat /\ TicksAscend
  <2>1. tick \in Nat /\ TickMod \in Nat \ {0}
    BY SizesAssumption DEF IInv, TypeOK, MaxTick
  <2> QED BY <2>1 DEF CacheLoadBlock, NextTick, LruOrder
<1>2. /\ ln.access_tick = NextTick
      /\ tick < MaxTick
      /\ \A m \in ValidLines : cache[m].access_tick < NextTick
  BY <1>1, LoadTakesNextTick
<1>3. /\ \A m \in Lines : cache'[m] = IF m = l THEN ln ELSE cache[m]
      /\ \A m \in Lines : cache[m].access_tick \in Nat
      /\ \A m \in ValidLines : cache[m].block_idx \in Blocks
  BY SizesAssumption DEF IInv, TypeOK, LineType, MaxTick
<1>4. ValidLines' = ValidLines \cup {l}
  BY <1>3 DEF ValidLines
<1>5. \A m \in ValidLines : cache[m].block_idx = b => m = l
  BY <1>1, LoadFacts
<1>6. CachedBlocks' = {b} \cup {cache[m].block_idx : m \in ValidLines \ {l}}
  BY <1>3, <1>4 DEF CachedBlocks, ValidLines
<1>7. TicksAscend'
  BY <1>1, <1>2, <1>3, <1>4 DEF TicksAscend, ValidLines
<1>8. (CachedBlocks \subseteq used)'
  BY <1>6 DEF Use, LruOrder, CachedBlocks
<1>9. \A c \in Blocks : since'[c] = IF c = b THEN {} ELSE IF c \in used THEN since[c] \cup {b}
                                    ELSE since[c]
  BY DEF Use
<1>10. l \in ValidLines =>
         \/ cache[l].block_idx = b
         \/ ValidLines = Lines /\ \A m \in Lines : cache[l].access_tick <= cache[m].access_tick
  <2> SUFFICES ASSUME l \in ValidLines, cache[l].block_idx # b
               PROVE  ValidLines = Lines
                        /\ \A m \in Lines : cache[l].access_tick <= cache[m].access_tick
    OBVIOUS
  <2>1. CachedAt(b) = {}
    BY <1>1 DEF CachedAt, LoadsInto, Lowest
  <2> QED BY <1>1, <1>2, <2>1, EvictsOldest
<1>11. ASSUME NEW m \in ValidLines'
       PROVE  since'[cache'[m].block_idx] = Newer(m)'
  <2>1. CASE m = l
    <3>1. \A k \in ValidLines' : ~(cache'[k].access_tick > cache'[m].access_tick)
      BY <1>1, <1>2, <1>3, <1>4, <2>1 DEF ValidLines
    <3>2. Newer(m)' = {}
      BY <3>1 DEF Newer
    <3>3. cache'[m].block_idx = b
      BY <1>3, <2>1
    <3>4. since'[b] = {}
      BY <1>9
    <3> QED BY <3>2, <3>3, <3>4
  <2>2. CASE m # l
    <3>1. m \in ValidLines /\ cache'[m] = cache[m] /\ cache[m].block_idx # b
      BY <1>3, <1>4, <1>5, <2>2 DEF ValidLines
    <3>2. Newer(m)' = Newer(m) \cup {b}
      <4>1. Newer(m)' = {b} \cup {cache[k].block_idx :
                           k \in {j \in ValidLines \ {l} : cache[j].access_tick > cache[m].access_tick}}
        BY <1>2, <1>3, <1>4, <3>1 DEF Newer, ValidLines
      <4>2. l \in ValidLines /\ cache[l].block_idx # b
              => ~(cache[l].access_tick > cache[m].access_tick)
        BY <1>3, <1>10 DEF ValidLines
      <4> QED BY <4>1, <4>2 DEF Newer
    <3>3. since[cache[m].block_idx] = Newer(m) /\ cache[m].block_idx \in used
      BY <3>1 DEF LruOrder, CachedBlocks
    <3> QED BY <1>3, <1>9, <3>1, <3>2, <3>3
  <2> QED BY <2>1, <2>2
<1>12. ASSUME NEW c \in used' \ CachedBlocks'
       PROVE  ValidLines' = Lines /\ CachedBlocks' \subseteq since'[c]
  <2>1. c \in used /\ c # b /\ c \in Blocks /\ since'[c] = since[c] \cup {b}
    BY <1>6, <1>9 DEF Use, LruType
  <2>2. CASE c \in CachedBlocks
    <3>1. l \in ValidLines /\ cache[l].block_idx = c
      BY <1>6, <2>1, <2>2 DEF CachedBlocks
    <3>2. ValidLines = Lines /\ \A m \in Lines : cache[l].access_tick <= cache[m].access_tick
      BY <1>10, <2>1, <3>1
    <3>3. \A m \in ValidLines \ {l} : cache[m].access_tick > cache[l].access_tick
      BY <1>1, <1>3, <3>1, <3>2 DEF TicksAscend
    <3>4. {cache[m].block_idx : m \in ValidLines \ {l}} \subseteq Newer(l)
      BY <3>3 DEF Newer
    <3>5. since[c] = Newer(l)
      BY <3>1 DEF LruOrder
    <3> QED BY <1>4, <1>6, <2>1, <3>2, <3>4, <3>5
  <2>3. CASE c \notin CachedBlocks
    <3>1. ValidLines = Lines /\ CachedBlocks \subseteq since[c]
      BY <2>1, <2>3 DEF LruOrder
    <3> QED BY <1>4, <1>6, <2>1, <3>1 DEF CachedBlocks
  <2> QED BY <2>2, <2>3
<1> QED BY <1>7, <1>8, <1>11, <1>12 DEF LruOrder

LEMMA UseKeepsType ==
  ASSUME LruType, NEW b \in Blocks, Use(b)
  PROVE  LruType'
BY DEF LruType, Use

(* Every step that loads changes one line and its tick as LoadKeepsOrder says. *)
LEMMA LoadingKeepsLruInv ==
  ASSUME IInv, LruInv, Loading, Use(Block(call.addr))
  PROVE  LruInv'
<1> DEFINE b == Block(call.addr)
<1>1. PICK op \in {"read", "write", "erase"} : Pending(op) /\ InChip
  BY DEF Loading, ReadBlock, WriteBlock, ErasePartOfBlock
<1>2. b \in Blocks
  BY <1>1, PendingFacts
<1>3. LruType'
  BY <1>2, UseKeepsType DEF LruInv
<1>4. ASSUME NEW l \in Lines, CacheLoadBlock(b, l),
             NEW ln, cache' = [cache EXCEPT ![l] = ln], ln \in LineType,
             ln.valid, ln.block_idx = b, ln.access_tick = LoadedLine(b, l).access_tick
      PROVE  wrapped' \/ LruOrder'
  <2>1. CASE tick' = 0 \/ wrapped
    BY <2>1 DEF Use
  <2>2. CASE tick' # 0 /\ ~wrapped
    <3>1. LruType /\ LruOrder
      BY <2>2 DEF LruInv
    <3> HIDE DEF b
    <3> QED BY <1>2, <1>4, <2>2, <3>1, LoadKeepsOrder DEF b
  <2> QED BY <2>1, <2>2
<1>5. IInv'
  BY NextKeepsIInv DEF Loading, Next, Step
<1>6. \E l \in Lines : \E ln :
        /\ CacheLoadBlock(b, l) /\ cache' = [cache EXCEPT ![l] = ln]
        /\ ln.valid = LoadedLine(b, l).valid /\ ln.block_idx = LoadedLine(b, l).block_idx
        /\ ln.access_tick = LoadedLine(b, l).access_tick
  <2> HIDE DEF b
  <2> DEFINE Put(l, ln) ==
               /\ CacheLoadBlock(b, l) /\ cache' = [cache EXCEPT ![l] = ln]
               /\ ln.valid = LoadedLine(b, l).valid /\ ln.block_idx = LoadedLine(b, l).block_idx
               /\ ln.access_tick = LoadedLine(b, l).access_tick
  <2>1. CASE ReadBlock
    <3>1. PICK l \in Lines : CacheLoadBlock(b, l) /\ cache' = [cache EXCEPT ![l] = LoadedLine(b, l)]
      BY <2>1 DEF ReadBlock, b
    <3> QED BY <3>1
  <2>2. CASE WriteBlock
    <3>1. PICK l \in Lines :
            /\ CacheLoadBlock(b, l)
            /\ cache' = [cache EXCEPT ![l] =
                 [LoadedLine(b, l) EXCEPT
                    !.data = Programmed(b, Offset(call.addr), Chunk, @), !.dirty = TRUE]]
      BY <2>2 DEF WriteBlock, b
    <3> DEFINE ln == [LoadedLine(b, l) EXCEPT
                        !.data = Programmed(b, Offset(call.addr), Chunk, @), !.dirty = TRUE]
    <3>2. LoadedLine(b, l) \in LineType
      BY <1>2, <3>1, LoadFacts DEF CacheLoadBlock, b
    <3>3. ln.valid = LoadedLine(b, l).valid /\ ln.block_idx = LoadedLine(b, l).block_idx
            /\ ln.access_tick = LoadedLine(b, l).access_tick
      BY <3>2 DEF LineType
    <3> HIDE DEF ln
    <3>4. Put(l, ln)
      BY <3>1, <3>3 DEF ln
    <3> QED BY <3>4
  <2>3. CASE ErasePartOfBlock
    <3> DEFINE Wiped(d) == [i \in Offsets |->
                              IF i < Offset(call.addr) \/ i >= Offset(call.addr) + Chunk
                              THEN d[i] ELSE FF]
    <3>1. PICK l \in Lines :
            /\ CacheLoadBlock(b, l)
            /\ cache' = [cache EXCEPT ![l] =
                 [LoadedLine(b, l) EXCEPT !.data = Wiped(@), !.dirty = TRUE]]
      BY <2>3 DEF ErasePartOfBlock, b
    <3> DEFINE ln == [LoadedLine(b, l) EXCEPT !.data = Wiped(@), !.dirty = TRUE]
    <3>2. LoadedLine(b, l) \in LineType
      BY <1>2, <3>1, LoadFacts DEF CacheLoadBlock, b
    <3>3. ln.valid = LoadedLine(b, l).valid /\ ln.block_idx = LoadedLine(b, l).block_idx
            /\ ln.access_tick = LoadedLine(b, l).access_tick
      BY <3>2 DEF LineType
    <3> HIDE DEF ln
    <3>4. Put(l, ln)
      BY <3>1, <3>3 DEF ln
    <3> QED BY <3>4
  <2> QED BY <2>1, <2>2, <2>3 DEF Loading
<1>7. PICK l \in Lines : \E ln :
        /\ CacheLoadBlock(b, l) /\ cache' = [cache EXCEPT ![l] = ln]
        /\ ln.valid = LoadedLine(b, l).valid /\ ln.block_idx = LoadedLine(b, l).block_idx
        /\ ln.access_tick = LoadedLine(b, l).access_tick
  BY <1>6
<1> DEFINE ln == cache'[l]
<1>8. /\ ln \in LineType
      /\ CacheLoadBlock(b, l) /\ cache' = [cache EXCEPT ![l] = ln]
      /\ ln.valid = LoadedLine(b, l).valid /\ ln.block_idx = LoadedLine(b, l).block_idx
      /\ ln.access_tick = LoadedLine(b, l).access_tick
  BY <1>5, <1>7 DEF IInv, TypeOK
<1> HIDE DEF ln
<1>9. ln.valid /\ ln.block_idx = b
  BY <1>2, <1>8, LoadFacts DEF CacheLoadBlock
<1> QED BY <1>3, <1>4, <1>8, <1>9 DEF LruInv

(* The other steps use no block and leave blocks and ticks of all lines alone;
   an erase wipes a line where it stands. *)
LEMMA NotLoadingKeepsLruInv ==
  ASSUME IInv, LruInv, NotLoading \/ UNCHANGED vars, UNCHANGED history
  PROVE  LruInv'
<1>1. cache \in [Lines -> LineType]
  BY DEF IInv, TypeOK
<1>2. /\ tick' = tick
      /\ \A l \in Lines : /\ cache'[l].valid = cache[l].valid
                          /\ cache'[l].block_idx = cache[l].block_idx
                          /\ cache'[l].access_tick = cache[l].access_tick
  <2>1. CASE UNCHANGED vars \/ StartCall \/ ReadBeyondChip \/ StopBeyondChip
    BY <2>1 DEF vars, StartCall, ReadBeyondChip, StopBeyondChip
  <2>2. CASE EraseWholeBlock
    BY <1>1, <2>2 DEF EraseWholeBlock, LineType
  <2>3. CASE FlushLine
    BY <1>1, <2>3 DEF FlushLine, LineType
  <2> QED BY <2>1, <2>2, <2>3 DEF NotLoading
<1>3. ValidLines' = ValidLines
  BY <1>2 DEF ValidLines
<1>4. \A l \in ValidLines : /\ cache'[l].block_idx = cache[l].block_idx
                            /\ cache'[l].access_tick = cache[l].access_tick
  BY <1>2 DEF ValidLines
<1>5. CachedBlocks' = CachedBlocks /\ (TicksAscend => TicksAscend')
  BY <1>2, <1>3, <1>4 DEF CachedBlocks, TicksAscend
<1>6. \A l \in ValidLines : Newer(l)' = Newer(l)
  BY <1>3, <1>4 DEF Newer
<1> QED BY <1>3, <1>4, <1>5, <1>6 DEF history, LruInv, LruType, LruOrder

(* What the invariant says of the number of blocks used since. *)
LEMMA OrderIsRecency ==
  ASSUME IInv, LruType, LruOrder
  PROVE  CachedAreMostRecent
<1> DEFINE f == [l \in ValidLines |-> cache[l].block_idx]
<1>1. /\ IsFiniteSet(Lines) /\ Cardinality(Lines) = CacheLines
      /\ IsFiniteSet(Blocks) /\ CacheLines \in Nat
  BY SizesAssumption, NumBlocksNat, FS_Interval DEF Lines, Blocks
<1>2. IsFiniteSet(ValidLines) /\ Cardinality(ValidLines) <= CacheLines
        /\ Cardinality(ValidLines) \in Nat
  BY <1>1, FS_Subset, FS_CardinalityType DEF ValidLines
<1>3. f \in Bijection(ValidLines, CachedBlocks)
  <2>1. f \in [ValidLines -> CachedBlocks]
    BY DEF CachedBlocks
  <2>2. \A l, m \in ValidLines : f[l] = f[m] => l = m
    BY DEF IInv, OneLinePerBlock
  <2>3. \A c \in CachedBlocks : \E l \in ValidLines : f[l] = c
    BY DEF CachedBlocks
  <2> HIDE DEF f
  <2> QED BY <2>1, <2>2, <2>3 DEF Bijection, Injection, Surjection, IsInjective
<1>4. IsFiniteSet(CachedBlocks) /\ Cardinality(CachedBlocks) = Cardinality(ValidLines)
  <2>1. ExistsBijection(ValidLines, CachedBlocks)
    BY <1>3 DEF ExistsBijection
  <2> QED BY <1>2, <2>1, FS_Bijection
<1>5. ASSUME NEW c \in CachedBlocks
      PROVE  c \in used /\ Cardinality(since[c]) < CacheLines
  <2>1. PICK l \in ValidLines : c = cache[l].block_idx
    BY DEF CachedBlocks
  <2>2. since[c] = Newer(l) /\ c \in used
    BY <2>1 DEF LruOrder
  <2>3. cache[l].access_tick \in Nat
    BY SizesAssumption DEF IInv, TypeOK, LineType, ValidLines, MaxTick
  <2>4. Newer(l) \subseteq CachedBlocks \ {c}
    BY <2>1, <2>3 DEF Newer, CachedBlocks, IInv, OneLinePerBlock
  <2>5. IsFiniteSet(CachedBlocks \ {c})
          /\ Cardinality(CachedBlocks \ {c}) = Cardinality(CachedBlocks) - 1
    BY <1>4, FS_RemoveElement
  <2>6. Cardinality(Newer(l)) <= Cardinality(CachedBlocks \ {c}) /\ Cardinality(Newer(l)) \in Nat
    BY <2>4, <2>5, FS_Subset, FS_CardinalityType
  <2> QED BY <1>1, <1>2, <1>4, <2>2, <2>5, <2>6
<1>6. ASSUME NEW c \in used \ CachedBlocks
      PROVE  ~(Cardinality(since[c]) < CacheLines)
  <2>1. ValidLines = Lines /\ CachedBlocks \subseteq since[c]
    BY DEF LruOrder
  <2>2. since[c] \subseteq Blocks
    BY DEF LruType
  <2>3. IsFiniteSet(since[c]) /\ Cardinality(since[c]) \in Nat
    BY <1>1, <2>2, FS_Subset, FS_CardinalityType
  <2>4. Cardinality(CachedBlocks) <= Cardinality(since[c])
    BY <2>1, <2>3, FS_Subset
  <2> QED BY <1>1, <1>4, <2>1, <2>3, <2>4
<1> QED BY <1>5, <1>6 DEF CachedAreMostRecent

LEMMA InitLruInv == LruInit => LruInv
BY DEF LruInit, Init, LruInv, LruType, LruOrder, TicksAscend, CachedBlocks, ValidLines, EmptyLine

LEMMA LruNextIsNext == [LruNext]_lruVars => [Next]_vars
BY DEF LruNext, Loading, NotLoading, Next, Step, lruVars, vars

LEMMA LruNextKeepsInv == IInv /\ LruInv /\ [LruNext]_lruVars => LruInv'
<1> SUFFICES ASSUME IInv, LruInv, [LruNext]_lruVars PROVE LruInv'
  OBVIOUS
<1>1. CASE Loading /\ Use(Block(call.addr))
  BY <1>1, LoadingKeepsLruInv
<1>2. CASE NotLoading /\ UNCHANGED history
  BY <1>2, NotLoadingKeepsLruInv
<1>3. CASE UNCHANGED lruVars
  BY <1>3, NotLoadingKeepsLruInv DEF lruVars, vars, history
<1> QED BY <1>1, <1>2, <1>3 DEF LruNext

(* LruInv holds in every reachable state, before the first overflow and after. *)
THEOREM LruInvariance == LruSpec => [](IInv /\ LruInv)
<1>1. LruInit => IInv
  BY InitIInv DEF LruInit
<1> QED BY <1>1, InitLruInv, LruNextIsNext, NextKeepsIInv, LruNextKeepsInv, PTL DEF LruSpec

(* Until the tick overflows the cache holds the CacheLines blocks used last,
   for every number of lines and every sequence of hits, misses and erases
   (cache_evict_lru and the access_tick it compares). *)
THEOREM CacheIsLru == LruSpec => []LruUntilWrap
<1>1. IInv /\ LruInv => LruUntilWrap
  BY OrderIsRecency DEF LruInv, LruUntilWrap
<1> QED BY <1>1, LruInvariance, PTL
=============================================================================
