----------------------------- MODULE CStoreLRU -----------------------------
(***************************************************************************)
(* CStore with what no code has: history variables beside it note which    *)
(* blocks were used and what was used since, which says what the cache     *)
(* should hold whatever access_tick says, and whether cstore_flush has     *)
(* been called, after which a clean line need not be a copy any more.      *)
(***************************************************************************)
EXTENDS CStore, FiniteSets

VARIABLES
  used,    (* The blocks cache_load_block was called for.                  *)
  since,   (* since[b]: the blocks used after b was used last.             *)
  wrapped, (* Whether the 32-bit tick has overflowed.                      *)
  flushed  (* Whether cstore_flush was called.                             *)

history == <<used, since, wrapped>>
lruVars == <<store, cache, tick, call, dst, used, since, wrapped, flushed>>

LruInit ==
  /\ Init
  /\ used = {}
  /\ since = [b \in Blocks |-> {}]
  /\ wrapped = FALSE
  /\ flushed = FALSE

(* cache_load_block(b), seen from outside. *)
Use(b) ==
  /\ used' = used \cup {b}
  /\ since' = [c \in Blocks |-> IF c = b THEN {}
                                ELSE IF c \in used THEN since[c] \cup {b}
                                ELSE since[c]]
  /\ wrapped' = (wrapped \/ tick' = 0)

Loading == ReadBlock \/ WriteBlock \/ ErasePartOfBlock

NotLoading ==
  \/ StartCall
  \/ ReadBeyondChip
  \/ EraseWholeBlock
  \/ StopBeyondChip
  \/ FlushLine

LruNext ==
  /\ \/ Loading /\ Use(Block(call.addr))
     \/ NotLoading /\ UNCHANGED history
  /\ flushed' = (flushed \/ call'.op = "flush")

LruSpec == LruInit /\ [][LruNext]_lruVars

CachedBlocks == {cache[l].block_idx : l \in ValidLines}

(* The header's "LRU decompression cache" with its "Monotonic counter for LRU":
   a block is cached when fewer than CacheLines others were used since its last
   use (cache_evict_lru). *)
CachedAreMostRecent ==
  CachedBlocks = {b \in used : Cardinality(since[b]) < CacheLines}

(* As long as the tick has not overflowed, the cache is a true LRU cache:
   through hits, misses and erases, which leave the order alone, it holds the
   CacheLines blocks used last. *)
LruUntilWrap == wrapped \/ CachedAreMostRecent

(* Until cstore_flush is called, and nothing in the program calls it, a line that is not
   dirty holds what a reload of its block would deliver: dropping it loses nothing
   (cache_evict_lru, cache_load_block). *)
CopiesUntilFlush == flushed \/ CleanLinesMatchStore
=============================================================================
