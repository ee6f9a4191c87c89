------------------------------- MODULE ReadFile -------------------------------
(***************************************************************************)
(* Reads of whole 4K blocks (do_align_read_cache1): the read cache, the    *)
(* block tree, and bmap for what neither has.  Offsets, sizes, keys and    *)
(* addresses are in blocks, LBlock of them to a 2M block.                  *)
(*                                                                         *)
(* A step is one round of the loop of do_align_read_cache1.  The devices   *)
(* do not change here, so the data of a round are those that its buffer    *)
(* gets when the reads are submitted after the last round.  There is one   *)
(* reader: g_fcache_head has no lock.                                      *)
(***************************************************************************)
EXTENDS Integers, Sequences, FiniteSets, SequencesExt

CONSTANTS Files,
          Size,      \* blocks of each file
          LBlock,    \* blocks of a 2M block
          Extent,    \* of each file and 2M block of it: devid, and the addresses
          Kept,      \* the nodes that writes left in each block tree
          Reads,     \* the offsets and lengths to read of each file
          MaxBlocks  \* g_max_read_cache_blocks

Nvm == 1             \* g_root_dev
Keys == 0 .. Max({Size[f] : f \in Files}) - 1
MaxEntries == MaxBlocks + LBlock + 1   \* bound, of one block at least each

ASSUME ReadFileAssumption ==
  /\ Size \in [Files -> Nat] /\ LBlock \in Nat \ {0} /\ MaxBlocks \in Nat
  /\ \A f \in Files : \A r \in Reads[f] : r[2] > 0 /\ r[1] + r[2] <= Size[f]
  \* A chunk is 2M, and the next one is on another device: no node is longer.
  /\ \A f \in Files : \A k \in Kept[f] : (k.off % LBlock) + k.size <= LBlock

VARIABLES
  blktree,   \* of each file: nodes of a start, size, devid and address
  fcache,    \* fcache_hash of each file: the entry of a key, or 0
  entry,     \* the key, size and data of an entry
  lru,       \* g_fcache_head: the entries, the latest first
  n,         \* g_fcache_head.n
  rd         \* the read: file, offset, length, blocks done, and what dst has

vars == <<blktree, fcache, entry, lru, n, rd>>
cacheVars == <<fcache, entry, lru, n>>

NoRead == [step |-> "none"]
Entries == 1..MaxEntries
NoEntry == [key |-> 0, size |-> 0, data |-> <<>>]

\* ALIGN_FLOOR to a 2M block.
LFloor(b) == b - (b % LBlock)
Least(a, b) == IF a < b THEN a ELSE b

\* The block b of f on the device, from the disk or from a node.
OnDisk(f, b) == Extent[f][b \div LBlock]
Place(f, b) ==
  LET kept == {k \in Kept[f] : k.off <= b /\ b < k.off + k.size}
      d == OnDisk(f, b)
  IN IF kept # {} THEN LET k == CHOOSE k \in kept : TRUE IN <<k.devid, k.addr + b - k.off>>
     ELSE <<d.devid, d.addr[b % LBlock]>>

Junk == <<"none", 0>>

\* What is at an address: a block of a file, or nothing of one.
Blocks == {<<f, b>> \in Files \X Keys : b < Size[f]}
Media ==
  [p \in {Place(x[1], x[2]) : x \in Blocks} |-> CHOOSE x \in Blocks : Place(x[1], x[2]) = p]
Contents(devid, addr) ==
  IF <<devid, addr>> \in DOMAIN Media THEN Media[<<devid, addr>>] ELSE Junk
Data(devid, addr, size) == [i \in 0 .. size - 1 |-> Contents(devid, addr + i)]

Init ==
  /\ blktree = Kept
  /\ fcache = [f \in Files |-> [k \in Keys |-> 0]]
  /\ entry = [e \in Entries |-> NoEntry]
  /\ lru = <<>> /\ n = 0
  /\ rd = NoRead

-----------------------------------------------------------------------------
SizesOf(entries, q) == MapThenSumSet(LAMBDA k : entries[q[k]].size, DOMAIN q)
ToFront(q, e) == <<e>> \o SelectSeq(q, LAMBDA x : x # e)

\* fcache_del: the entry that this file has for the key.
fcache_del(cache, f, key) == [cache EXCEPT ![f][key] = 0]

\* The entries at some places of the list go, with the keys in the hash of a file.
Without(c, f, out) ==
  LET gone == {c.lru[k] : k \in out}
      keys == {c.entry[e].key : e \in gone}
  IN [fcache |-> [c.fcache EXCEPT ![f] = [k \in Keys |-> IF k \in keys THEN 0 ELSE @[k]]],
      entry |-> [e \in Entries |-> IF e \in gone THEN NoEntry ELSE c.entry[e]],
      lru |-> SelectSeq(c.lru, LAMBDA e : e \notin gone),
      n |-> c.n - MapThenSumSet(LAMBDA e : c.entry[e].size, gone)]

\* Mutated evictions: from the front of the list; counted a second time by
\* fcache_del; without fcache_del.
EvictFront(c, f, excess) ==
  Without(c, f, {k \in DOMAIN c.lru : SizesOf(c.entry, SubSeq(c.lru, 1, k - 1)) <= excess})
EvictCountsTwice(c, f, excess) ==
  LET after == Without(c, f, {k \in DOMAIN c.lru :
                                SizesOf(c.entry, SubSeq(c.lru, k + 1, Len(c.lru))) <= excess})
  IN [after EXCEPT !.n = @ - (c.n - @)]
EvictKeepsKeys(c, f, excess) ==
  [Without(c, f, {k \in DOMAIN c.lru :
                    SizesOf(c.entry, SubSeq(c.lru, k + 1, Len(c.lru))) <= excess})
    EXCEPT !.fcache = c.fcache]

\* evict_read_cache: from the end of the list, until more than `excess' blocks
\* are out.  The keys go out of the hash of the file that is read.
evict_read_cache(c, f, excess) ==
  Without(c, f, {k \in DOMAIN c.lru :
                   SizesOf(c.entry, SubSeq(c.lru, k + 1, Len(c.lru))) <= excess})

\* An entry for the key, a new one or the one it has, with these data.  Only a
\* new one is counted; one of more than 2M is taken out of the hash first.
FreeEntry ==
  CHOOSE x \in Entries : /\ \A k \in DOMAIN lru : lru[k] # x
                         /\ \A g \in Files, k \in Keys : fcache[g][k] # x
Added(f, key, size, data) ==
  LET old == fcache[f][key]
      e == IF old # 0 THEN old ELSE FreeEntry
  IN [fcache |-> IF old # 0 /\ entry[e].size > LBlock THEN fcache_del(fcache, f, key)
                 ELSE [fcache EXCEPT ![f][key] = e],
      entry |-> [entry EXCEPT ![e] = [key |-> key, size |-> size, data |-> data]],
      lru |-> ToFront(lru, e),
      n |-> IF old # 0 THEN n ELSE n + size]
SetCache(c) == fcache' = c.fcache /\ entry' = c.entry /\ lru' = c.lru /\ n' = c.n

\* A mutated addition that counts an entry again that it finds.
AddCountsAgain(f, key, size, data) ==
  LET c == [Added(f, key, size, data) EXCEPT !.n = n + size]
  IN SetCache(IF c.n > MaxBlocks THEN evict_read_cache(c, f, c.n - MaxBlocks) ELSE c)

add_to_read_cache(f, key, size, data) ==
  LET c == Added(f, key, size, data)
  IN SetCache(IF c.n > MaxBlocks THEN evict_read_cache(c, f, c.n - MaxBlocks) ELSE c)

-----------------------------------------------------------------------------
\* The next block to read, and how many are left.
At(step) == rd.step = step
Wanted == rd.off + rd.done
Remain == rd.len - rd.done

\* The blocks of dst that a round fills, with data from index `from' on; what
\* is beyond them is other memory.
Fill(data, from, count) ==
  rd' = [rd EXCEPT !.done = @ + count, !.step = IF rd.done + count = rd.len THEN "done" ELSE "search",
                   !.dst = [i \in DOMAIN @ |->
                              IF i \notin rd.done .. rd.done + count - 1 THEN @[i]
                              ELSE LET k == from + i - rd.done
                                   IN IF k \in DOMAIN data THEN data[k] ELSE Junk]]

Begin(f, r) ==
  /\ At("none")
  /\ rd' = [step |-> "cache", f |-> f, off |-> r[1], len |-> r[2], done |-> 0,
            dst |-> [i \in 0 .. r[2] - 1 |-> Junk]]
  /\ UNCHANGED <<blktree, cacheVars>>

\* The entry of the 2M block of the offset, if it has the first block.
FromCache ==
  LET e == fcache[rd.f][LFloor(rd.off)]
      from == rd.off - LFloor(rd.off)
  IN /\ At("cache")
     /\ IF e # 0 /\ entry[e].size > from
        THEN /\ Fill(entry[e].data, from, Least(rd.len, entry[e].size - from))
             /\ lru' = ToFront(lru, e)
        ELSE rd' = [rd EXCEPT !.step = "search"] /\ UNCHANGED lru
     /\ UNCHANGED <<blktree, fcache, entry, n>>

Nodes(b) == {k \in blktree[rd.f] : k.off <= b /\ b < k.off + k.size}

\* Mutated round: the start of the node is read, wherever the offset is in it.
NodeFromStart ==
  /\ At("search")
  /\ \E k \in Nodes(Wanted) :
       LET data == Data(k.devid, k.addr, k.size)
       IN IF k.devid = Nvm
          THEN Fill(data, 0, Least(Remain, k.size)) /\ UNCHANGED cacheVars
          ELSE /\ add_to_read_cache(rd.f, k.off, k.size, data)
               /\ Fill(data, 0, Least(Remain, k.size))
  /\ UNCHANGED blktree

\* A node has the block: as many blocks as the node has, from there on.  What
\* an SSD gives is cached for the start of the node.
FromNode ==
  /\ At("search")
  /\ \E k \in Nodes(Wanted) :
       LET delta == Wanted - k.off
           data == Data(k.devid, k.addr + delta, k.size)
       IN IF k.devid = Nvm
          THEN Fill(data, 0, Least(Remain, k.size)) /\ UNCHANGED cacheVars
          ELSE /\ add_to_read_cache(rd.f, k.off, k.size, data)
               /\ Fill(data, delta, Least(Remain, k.size - delta))
  /\ UNCHANGED blktree

\* block_insert: the first node met that has the offset, or ends at it, is made
\* longer if the device and the address continue there; otherwise the node is
\* added, unless one has the same start.  The results, one for each node that
\* the search may meet first.
block_insert(tree, new) ==
  LET met == {k \in tree : k.off <= new.off /\ new.off <= k.off + k.size}
      joins(k) == k.devid = new.devid /\ new.addr - k.addr = k.size
      added == IF \E k \in tree : k.off = new.off THEN tree ELSE tree \cup {new}
  IN IF met = {} THEN {added}
     ELSE {IF joins(k) THEN (tree \ {k}) \cup {[k EXCEPT !.size = new.off + new.size - k.off]}
           ELSE added : k \in met}

\* bmap: the 2M block on an SSD, or the blocks of it in NVM, go in the tree.
Insert2M(tree, f, b) ==
  LET d == OnDisk(f, b) IN
  IF d.devid = Nvm
  THEN FoldLeft(LAMBDA trees, i :
                  UNION {block_insert(t, [off |-> LFloor(b) + i, size |-> 1, devid |-> Nvm,
                                          addr |-> d.addr[i]]) : t \in trees},
                {tree}, [i \in 1 .. LBlock |-> i - 1])
  ELSE block_insert(tree, [off |-> LFloor(b), size |-> LBlock, devid |-> d.devid,
                           addr |-> d.addr[0]])

\* No node has the block.  bmap finds one block in NVM, or the 2M block, which is
\* cached for the 2M block that the read began in.  Left out, because files here
\* have no holes, are whole in the kernel, and have no nodes across the start of a
\* 2M block but those that are long enough for every block of it: the second
\* search, for a node at the start of the 2M block that reaches the end of the
\* read, and bmap finding nothing (behind ksize, or in a hole), which ends in the
\* panic of line 3047.
FromDisk ==
  LET f == rd.f
      d == OnDisk(f, Wanted)
      data == Data(d.devid, d.addr[0], LBlock)
  IN /\ At("search") /\ Nodes(Wanted) = {}
     /\ \E tree \in Insert2M(blktree[f], f, Wanted) : blktree' = [blktree EXCEPT ![f] = tree]
     /\ IF d.devid = Nvm
        THEN Fill(Data(Nvm, d.addr[Wanted % LBlock], 1), 0, 1) /\ UNCHANGED cacheVars
        ELSE /\ add_to_read_cache(f, LFloor(rd.off), LBlock, data)
             /\ Fill(data, rd.off - LFloor(rd.off), Least(Remain, LBlock))

Return == At("done") /\ rd' = NoRead /\ UNCHANGED <<blktree, cacheVars>>

do_align_read_cache1 == FromCache \/ FromNode \/ FromDisk \/ Return

Next == (\E f \in Files : \E r \in Reads[f] : Begin(f, r)) \/ do_align_read_cache1

Spec == Init /\ [][Next]_vars

-----------------------------------------------------------------------------
\* Types; the count of cached blocks never falls below 0.
TypeOK ==
  /\ fcache \in [Files -> [Keys -> Entries \cup {0}]]
  /\ \A e \in Entries : entry[e].size \in Nat /\ DOMAIN entry[e].data \subseteq Nat
  /\ \A k \in DOMAIN lru : lru[k] \in Entries
  /\ n \in Nat
  /\ \A f \in Files : \A k \in blktree[f] : k.off + k.size <= Size[f] + LBlock

(* A read gives the blocks of the file, wherever they come from.              *)
ReadsRight ==
  At("done") => \A i \in DOMAIN rd.dst : rd.dst[i] = <<rd.f, rd.off + i>>

(* What is cached for a key are the blocks of the file from there on: no      *)
(* entry is left that evict_read_cache freed, or that has other data.         *)
CacheTrue ==
  \A f \in Files, b \in Keys : fcache[f][b] # 0 =>
    LET e == entry[fcache[f][b]] IN
    e.size > 0 /\ \A i \in DOMAIN e.data : e.data[i] = <<f, b + i>>

(* The list has the entries that some file finds, once each, and the count is *)
(* of their blocks and within the limit of the cache.                         *)
ListExact ==
  /\ IsInjective(lru)
  /\ {lru[k] : k \in DOMAIN lru} = {fcache[f][b] : f \in Files, b \in Keys} \ {0}
  /\ n = SizesOf(entry, lru) /\ n <= MaxBlocks

(* evict_read_cache frees more than it has to, and never the newest entry,    *)
(* which the read is about to fill and to copy from.                          *)
NewestStays ==
  [][entry' # entry => lru' # <<>> /\ entry'[Head(lru')] # entry[Head(lru')]]_vars
=============================================================================
