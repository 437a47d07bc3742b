------------------------------ MODULE PoolAlloc ------------------------------
(***************************************************************************)
(* The phase-shaped pool allocator of crates/alloc/pool-alloc: chunks of   *)
(* pages, bump allocation, per-chunk size-bucketed free lists threaded     *)
(* through the payloads, page-granular release of dead pages by madvise,   *)
(* a recycle stack of dead chunks, and a spin lock around all of it.       *)
(*                                                                         *)
(* The unit of memory is the 8-byte word, the size of a pointer and of     *)
(* NODE_MAGIC: a 16-byte header is 2 words, and a request of 1 word is one *)
(* below MIN_BUCKET_SIZE.  A chunk's data region is an array of tagged     *)
(* words, so what the allocator stores inside the payloads (next pointers, *)
(* NODE_MAGIC) and what madvise drops are both visible.                    *)
(*                                                                         *)
(* Not modelled: the diagnostic counters (bytes_allocated, pages_released, *)
(* chunks_recycled and the rest), tracing and the POOL_SHADOW mirror,      *)
(* which only observe.                                                     *)
(***************************************************************************)
EXTENDS Integers, FiniteSets, Sequences, SequencesExt

CONSTANTS
  Threads,          \* threads that call the global allocator
  NoThread,         \* value of the lock when nobody holds it
  Ids,              \* names of the buffers the program may hold at once
  Requests,         \* layouts asked for: records [size, align], in words
  PageSize,         \* words per page
  NPages,           \* pages per chunk (CHUNK_SIZE / page_size)
  MaxChunks,        \* chunks the system can supply before it returns null
  DirectThreshold,  \* requests of this size or more bypass the pool
  SweepAt,          \* dead pages that trigger a sweep (64 in the code)
  MaxHops,          \* free-list nodes inspected per allocation (32)
  SlotsPerPage,     \* bound on the free-list nodes of one page (512)
  FreeModes,        \* values the driver gives set_free_mode
  PoolingModes,     \* values the driver gives set_pooling
  PassThrough,      \* "never", "quiescent" (no buffer is live) or "any" time
  LazyMadvise       \* TRUE: a dropped page may keep its contents (macOS)

HEADER == 2
MIN_BUCKET_SIZE == 2
CHUNK_SIZE == PageSize * NPages

Pages == 0 .. NPages - 1
Chunks == 1 .. MaxChunks
Offsets == 0 .. CHUNK_SIZE - 1

ASSUME PoolAssumption ==
  /\ NoThread \notin Threads
  /\ {PageSize, NPages, MaxChunks, SweepAt, MaxHops, SlotsPerPage} \subseteq Nat \ {0}
  /\ \A r \in Requests : r.size \in Nat /\ r.align \in Nat \ {0}
  \* new_chunk can always serve what it was called for (1 MiB against 64 MiB).
  /\ DirectThreshold \in Nat
  /\ \A r \in Requests : r.size < DirectThreshold => HEADER + r.size + r.align <= CHUNK_SIZE
  /\ FreeModes \subseteq BOOLEAN /\ PoolingModes \subseteq BOOLEAN
  /\ PassThrough \in {"never", "quiescent", "any"}
  /\ LazyMadvise \in BOOLEAN

VARIABLES
  locked,           \* the thread inside the spin lock, or NoThread
  head,             \* live chunks, most recently linked first
  free_chunks,      \* recycle stack of fully freed chunks, top first
  chunk,            \* metadata of every chunk
  mem,              \* data region of every chunk
  pooling, pass_through, free_mode_reuse,  \* the driver's switches
  bytes_live,       \* words handed out by the pool and not yet returned
  buf,              \* the buffer behind every name the program holds
  call,             \* the allocator call each thread is executing
  fault             \* how the process died, or "none"

switches == <<pooling, pass_through, free_mode_reuse>>
pool == <<head, free_chunks, chunk, mem, bytes_live>>
vars == <<locked, head, free_chunks, chunk, mem, pooling, pass_through,
          free_mode_reuse, bytes_live, buf, call, fault>>

-----------------------------------------------------------------------------
(* Memory words.  A dropped page reads as zeros, and a zero word read as a *)
(* pointer is null: payload offsets are at least HEADER, so 0 is free.     *)

Zero == [k |-> "zero", v |-> 0]
CapWord(n) == [k |-> "cap", v |-> n]       \* capacity and HEADER_MAGIC
ChunkWord(c) == [k |-> "chunk", v |-> c]   \* chunk back-pointer
NextWord(o) == IF o = 0 THEN Zero ELSE [k |-> "next", v |-> o]
NodeMagic == [k |-> "magic", v |-> 0]
Data(id) == [k |-> "data", v |-> id]       \* what the owner of id wrote

PageOf(o) == o \div PageSize
AlignUp(o, a) == ((o + a - 1) \div a) * a

(* Words of the span start .. end-1 that lie in page p.                    *)
Overlap(p, start, end) ==
  LET lo == IF start > p * PageSize THEN start ELSE p * PageSize
      hi == IF end < (p + 1) * PageSize THEN end ELSE (p + 1) * PageSize
  IN  IF hi > lo THEN hi - lo ELSE 0

(* ceil_log2 size class; MIN_BUCKET_SIZE is class 0.                       *)
bucket_of(size) ==
  CHOOSE b \in 0 .. size :
    /\ size <= MIN_BUCKET_SIZE * 2^b
    /\ b = 0 \/ size > MIN_BUCKET_SIZE * 2^(b - 1)
Buckets == {bucket_of(s) : s \in 0 .. DirectThreshold}

FreshChunk ==
  [outstanding |-> 0, fill |-> 0,
   page_alloc |-> [p \in Pages |-> 0], page_freed |-> [p \in Pages |-> 0],
   page_nodes |-> [p \in Pages |-> 0],
   free_heads |-> [b \in Buckets |-> 0],
   dead |-> {}]

(* The n-th node of a bucket's list, by following the next pointers stored *)
(* in the payloads; 0 past the end.                                        *)
NodeAt(c, b) ==
  LET walk[n \in 0 .. CHUNK_SIZE] ==
        IF n = 0 THEN chunk[c].free_heads[b]
        ELSE IF walk[n - 1] = 0 THEN 0 ELSE mem[c][walk[n - 1]].v
  IN  walk

(* Memory m after madvise(MADV_DONTNEED) of pages ps of chunk c: the       *)
(* contents are gone, or (LazyMadvise) not reclaimed yet.                  *)
Madvised(m, c, ps) ==
  { [m EXCEPT ![c] = [o \in Offsets |-> IF PageOf(o) \in z THEN Zero ELSE @[o]]]
      : z \in IF LazyMadvise THEN {ps, {}} ELSE {ps} }

Idle == [at |-> "idle"]
Dead == [t \in Threads |-> [at |-> "aborted"]]   \* the process is gone
NoBuf == [org |-> "none"]
SystemBuf(org, r) == [org |-> org, size |-> r.size, align |-> r.align]
GatedBuf(r, sys) == [org |-> "gated", size |-> r.size, align |-> r.align, sys |-> sys]
PoolBuf(c, p, r) == [org |-> "pool", c |-> c, p |-> p, size |-> r.size, align |-> r.align]

(* The header word of a pool slot: its capacity.                           *)
CapOf(c, p) == mem[c][p - HEADER].v

-----------------------------------------------------------------------------
(* The driver's switches, plain atomic stores by a thread that is not in   *)
(* an allocator call.                                                      *)

SomeIdle == \E t \in Threads : call[t] = Idle

set_free_mode(reuse) ==
  /\ SomeIdle
  /\ free_mode_reuse' = reuse
  /\ UNCHANGED <<locked, pool, pooling, pass_through, buf, call, fault>>

set_pooling(on) ==
  /\ SomeIdle
  /\ pooling' = on
  /\ UNCHANGED <<locked, pool, pass_through, free_mode_reuse, buf, call, fault>>

Quiescent == (\A id \in Ids : buf[id] = NoBuf) /\ (\A t \in Threads : call[t] = Idle)

set_pass_through(on) ==
  /\ SomeIdle
  /\ PassThrough = "any" \/ (PassThrough = "quiescent" /\ Quiescent)
  /\ pass_through' = on
  /\ pooling' = IF on THEN FALSE ELSE pooling
  /\ UNCHANGED <<locked, pool, free_mode_reuse, buf, call, fault>>

-----------------------------------------------------------------------------
(* Routing of an allocation, before the lock.  op is "alloc" or "realloc"; *)
(* realloc is alloc of the new layout, a copy, then dealloc of the old     *)
(* buffer, and the name id keeps denoting the old buffer until the copy.   *)

AlignOf(r) == IF r.align > MIN_BUCKET_SIZE THEN r.align ELSE MIN_BUCKET_SIZE
SlotCap(r) == IF r.size > MIN_BUCKET_SIZE THEN r.size ELSE MIN_BUCKET_SIZE

SystemRouted(size) == pass_through \/ size >= DirectThreshold \/ size = 0

(* Mutant: realloc copies the new size, past the end of the old buffer.    *)
DeliverOvercopied(t, id, op, new) ==
  LET old == buf[id]
      Copied(k) == IF op = "realloc" /\ old.org = "pool"
                   THEN mem[old.c][(old.p + k) % CHUNK_SIZE] ELSE Data(id)
  IN  /\ buf' = [buf EXCEPT ![id] = new]
      /\ mem' = IF new.org # "pool" THEN mem
                ELSE [mem EXCEPT ![new.c] =
                        [o \in Offsets |-> IF o \in new.p .. new.p + new.size - 1
                                            THEN Copied(o - new.p) ELSE @[o]]]
      /\ call' = [call EXCEPT ![t] = IF op = "realloc" THEN [at |-> "dealloc", old |-> old]
                                     ELSE Idle]

(* The allocation returned new: the owner fills it, or realloc copies the  *)
(* old contents into it word by word and goes on to free the old buffer.   *)
Deliver(t, id, op, new) ==
  LET old == buf[id]
      Copied(k) == IF op = "realloc" /\ old.org = "pool" /\ k < old.size
                   THEN mem[old.c][old.p + k] ELSE Data(id)
  IN  /\ buf' = [buf EXCEPT ![id] = new]
      /\ mem' = IF new.org # "pool" THEN mem
                ELSE [mem EXCEPT ![new.c] =
                        [o \in Offsets |-> IF o \in new.p .. new.p + new.size - 1
                                            THEN Copied(o - new.p) ELSE @[o]]]
      /\ call' = [call EXCEPT ![t] = IF op = "realloc" THEN [at |-> "dealloc", old |-> old]
                                     ELSE Idle]

AllocSystem(t, id, op, r) ==
  /\ SystemRouted(r.size)
  /\ Deliver(t, id, op, SystemBuf("system", r))
  /\ UNCHANGED <<locked, head, free_chunks, chunk, switches, bytes_live, fault>>

(* Mutant: the gated block is served without its sentinel header.          *)
AllocUntagged(t, id, op, r) ==
  /\ ~SystemRouted(r.size)
  /\ ~pooling
  /\ Deliver(t, id, op, SystemBuf("system", r))
  /\ UNCHANGED <<locked, head, free_chunks, chunk, switches, bytes_live, fault>>

(* Pooling is off: a system block with a sentinel-tagged header, and room  *)
(* to align the payload behind it.                                         *)
AllocGated(t, id, op, r) ==
  /\ ~SystemRouted(r.size)
  /\ ~pooling
  /\ Deliver(t, id, op, GatedBuf(r, [size |-> r.size + HEADER + AlignOf(r), align |-> AlignOf(r)]))
  /\ UNCHANGED <<locked, head, free_chunks, chunk, switches, bytes_live, fault>>

AllocPooled(t, id, op, r) ==
  /\ ~SystemRouted(r.size)
  /\ pooling
  /\ call' = [call EXCEPT ![t] = [at |-> "alloc_lock", id |-> id, op |-> op, req |-> r]]
  /\ UNCHANGED <<locked, pool, switches, buf, fault>>

Route(t, id, op, r) ==
  AllocSystem(t, id, op, r) \/ AllocGated(t, id, op, r) \/ AllocPooled(t, id, op, r)

(* The name id is taken by a call that has not returned yet.               *)
Busy(id) == \E t \in Threads : call[t].at \in {"alloc_lock", "alloc", "alloc_take", "alloc_unlock"}
                                /\ call[t].id = id

alloc(t) ==
  /\ call[t] = Idle
  /\ \E id \in Ids, r \in Requests :
       /\ buf[id] = NoBuf /\ ~Busy(id)
       /\ Route(t, id, "alloc", r)

realloc(t) ==
  /\ call[t] = Idle
  /\ \E id \in Ids, r \in Requests :
       /\ buf[id] # NoBuf /\ ~Busy(id)
       /\ r.align = buf[id].align
       /\ Route(t, id, "realloc", r)

dealloc(t) ==
  /\ call[t] = Idle
  /\ \E id \in Ids :
       /\ buf[id] # NoBuf /\ ~Busy(id)
       /\ call' = [call EXCEPT ![t] = [at |-> "dealloc", old |-> buf[id]]]
       /\ buf' = [buf EXCEPT ![id] = NoBuf]
  /\ UNCHANGED <<locked, pool, switches, fault>>

(* pool_fatal: unlock, report, abort.  The process is gone, and with it    *)
(* every call and the lock.                                                *)
pool_fatal(why) ==
  /\ fault' = why
  /\ locked' = NoThread
  /\ call' = Dead
  /\ UNCHANGED <<pool, switches, buf>>

(* dealloc's routing: System.dealloc of a pointer the system never handed  *)
(* out is an invalid free, and the process dies of it.                     *)
DeallocSystem(t) ==
  /\ call[t].at = "dealloc"
  /\ SystemRouted(call[t].old.size)
  /\ IF call[t].old.org = "system"
     THEN call' = [call EXCEPT ![t] = Idle] /\ UNCHANGED <<locked, pool, switches, buf, fault>>
     ELSE pool_fatal("invalid free")

DeallocPooled(t) ==
  /\ call[t].at = "dealloc"
  /\ ~SystemRouted(call[t].old.size)
  /\ call' = [call EXCEPT ![t] = [at |-> "dealloc_lock", old |-> @.old]]
  /\ UNCHANGED <<locked, pool, switches, buf, fault>>

-----------------------------------------------------------------------------
(* The spin lock.                                                          *)

(* Mutant: the lock is a plain store, not a compare-exchange.              *)
LockUnchecked(t) ==
  /\ \/ /\ call[t].at = "alloc_lock"
        /\ call' = [call EXCEPT ![t] = [at |-> "alloc", id |-> @.id, op |-> @.op, req |-> @.req]]
     \/ /\ call[t].at = "dealloc_lock"
        /\ call' = [call EXCEPT ![t] = [at |-> "dealloc_locked", old |-> @.old]]
  /\ locked' = t
  /\ UNCHANGED <<pool, switches, buf, fault>>


lock(t) ==
  /\ locked = NoThread
  /\ \/ /\ call[t].at = "alloc_lock"
        /\ call' = [call EXCEPT ![t] = [at |-> "alloc", id |-> @.id, op |-> @.op, req |-> @.req]]
     \/ /\ call[t].at = "dealloc_lock"
        /\ call' = [call EXCEPT ![t] = [at |-> "dealloc_locked", old |-> @.old]]
  /\ locked' = t
  /\ UNCHANGED <<pool, switches, buf, fault>>

-----------------------------------------------------------------------------
(* alloc, under the lock: walk the live chunks, reusing a free-list node   *)
(* or bumping; when none can serve, recycle a dead chunk or get a new one. *)

(* Mutant: whatever is in the bucket is taken to be large enough.          *)
FittingAny(c, r) ==
  { n \in 0 .. MaxHops - 1 : NodeAt(c, bucket_of(r.size))[n] # 0 }

(* The nodes within reach that are large enough: a bucket holds nodes of   *)
(* more than one capacity.                                                 *)
FittingHops(c, r) ==
  { n \in 0 .. MaxHops - 1 :
      LET node == NodeAt(c, bucket_of(r.size))[n]
      IN  node # 0 /\ CapOf(c, node) >= r.size }
CanReuse(c, r) == AlignOf(r) <= MIN_BUCKET_SIZE /\ FittingHops(c, r) # {}

BumpOffset(fill, r) == AlignUp(fill + HEADER, AlignOf(r))

CanBump(c, r) == BumpOffset(chunk[c].fill, r) + SlotCap(r) <= CHUNK_SIZE

(* The i-th live chunk is the first that can serve r.                      *)
FirstServing(i, r) ==
  /\ CanReuse(head[i], r) \/ CanBump(head[i], r)
  /\ \A j \in 1 .. i - 1 : ~CanReuse(head[j], r) /\ ~CanBump(head[j], r)

on_alloc_pages(ch, start, end) ==
  [ch EXCEPT !.page_alloc = [p \in Pages |-> @[p] + Overlap(p, start, end)]]

(* A chunk after a bump allocation of r at p.  The extent of the slot is   *)
(* its capacity; the page accounting is given the requested size.          *)
Bumped(ch, p, r) ==
  on_alloc_pages([ch EXCEPT !.fill = p + SlotCap(r), !.outstanding = @ + 1],
                 p - HEADER, p + r.size)

(* Mutant: a stale NODE_MAGIC in the tail is left there.                   *)
BumpedMemUncleared(c, p, r) ==
  [mem EXCEPT ![c][p - HEADER] = CapWord(SlotCap(r)), ![c][p - HEADER + 1] = ChunkWord(c)]

(* The slot's header is written, and a NODE_MAGIC left in its tail by an   *)
(* earlier life of the chunk is cleared.                                   *)
BumpedMem(c, p, r) ==
  LET tail == p + SlotCap(r) - 1
  IN  [mem EXCEPT ![c][p - HEADER] = CapWord(SlotCap(r)),
                  ![c][p - HEADER + 1] = ChunkWord(c),
                  ![c][tail] = IF PageOf(tail) = PageOf(p) THEN Zero ELSE @]

(* The walk: the first chunk that can serve, its n-th list node if one     *)
(* fits (n = -1: the bump offset).                                         *)
AllocPick(t) ==
  /\ call[t].at = "alloc"
  /\ \E i \in DOMAIN head :
       LET c == head[i]
           r == call[t].req
           n == IF CanReuse(c, r) THEN Min(FittingHops(c, r)) ELSE -1
           p == IF n >= 0 THEN NodeAt(c, bucket_of(r.size))[n] ELSE BumpOffset(chunk[c].fill, r)
       IN  /\ FirstServing(i, r)
           /\ call' = [call EXCEPT ![t] = [at |-> "alloc_take", id |-> @.id, op |-> @.op,
                                           req |-> r, c |-> c, p |-> p, n |-> n]]
  /\ UNCHANGED <<locked, pool, switches, buf, fault>>

Serve(t) ==
  /\ bytes_live' = bytes_live + call[t].req.size
  /\ call' = [call EXCEPT ![t] = [at |-> "alloc_unlock", id |-> @.id, op |-> @.op,
                                  res |-> PoolBuf(@.c, @.p, @.req)]]
  /\ UNCHANGED <<locked, head, free_chunks, switches, buf, fault>>

AllocReuse(t) ==
  LET c == call[t].c
      node == call[t].p
      n == call[t].n
      b == bucket_of(call[t].req.size)
      next == mem[c][node]
      tail == node + CapOf(c, node) - 1
      unlinked == IF n = 0 THEN mem ELSE [mem EXCEPT ![c][NodeAt(c, b)[n - 1]] = next]
  IN  /\ call[t].at = "alloc_take" /\ n >= 0
      /\ IF chunk[c].page_nodes[PageOf(node)] = 0
         THEN pool_fatal("phantom freelist node")
         ELSE /\ chunk' = [chunk EXCEPT
                   ![c].free_heads[b] = IF n = 0 THEN next.v ELSE @,
                   ![c].page_nodes[PageOf(node)] = @ - 1,
                   ![c].outstanding = @ + 1]
              /\ mem' = [unlinked EXCEPT ![c][node - HEADER + 1] = ChunkWord(c),
                                         ![c][tail] = Zero]
              /\ Serve(t)

AllocBump(t) ==
  LET c == call[t].c
  IN  /\ call[t].at = "alloc_take" /\ call[t].n = -1
      /\ chunk' = [chunk EXCEPT ![c] = Bumped(@, call[t].p, call[t].req)]
      /\ mem' = BumpedMem(c, call[t].p, call[t].req)
      /\ Serve(t)

-----------------------------------------------------------------------------
(* new_chunk, when no live chunk can serve; the walk then goes on with the *)
(* new chunk, which it finds at the head of the list.                      *)

NeedsChunk(t) == call[t].at = "alloc" /\ \A i \in DOMAIN head : ~FirstServing(i, call[t].req)
SystemChunks == Chunks \ {head[i] : i \in DOMAIN head}

Link(c, m) ==
  /\ head' = <<c>> \o head
  /\ chunk' = [chunk EXCEPT ![c] = FreshChunk]
  /\ mem' = m
  /\ UNCHANGED <<locked, switches, bytes_live, buf, call, fault>>

(* The recycle stack is popped first: counters, free lists and dead bits   *)
(* start over, the data region keeps whatever madvise left of it.          *)
RecycleChunk(t) ==
  /\ NeedsChunk(t)
  /\ free_chunks # << >>
  /\ IF \E i \in DOMAIN head : head[i] = Head(free_chunks)
     THEN pool_fatal("recycled chunk still linked live")
     ELSE Link(Head(free_chunks), mem) /\ free_chunks' = Tail(free_chunks)

new_chunk(t) ==
  /\ NeedsChunk(t)
  /\ free_chunks = << >>
  /\ SystemChunks # {}
  /\ Link(Min(SystemChunks), [mem EXCEPT ![Min(SystemChunks)] = [o \in Offsets |-> Zero]])
  /\ UNCHANGED free_chunks

(* Mutant: a refused chunk is asked for again, lock in hand.               *)
RetryChunk(t) == NeedsChunk(t) /\ free_chunks = << >> /\ UNCHANGED vars

(* The system allocator may refuse a chunk at any time: alloc gives null.  *)
AllocNull(t) ==
  /\ NeedsChunk(t)
  /\ free_chunks = << >>
  /\ call' = [call EXCEPT ![t] = [at |-> "alloc_unlock", id |-> @.id, op |-> @.op, res |-> NoBuf]]
  /\ UNCHANGED <<locked, pool, switches, buf, fault>>

(* Unlock and return; on null, realloc leaves the old buffer alone.        *)
AllocReturn(t) ==
  /\ call[t].at = "alloc_unlock"
  /\ locked' = NoThread
  /\ IF call[t].res = NoBuf
     THEN call' = [call EXCEPT ![t] = Idle] /\ UNCHANGED <<mem, buf>>
     ELSE Deliver(t, call[t].id, call[t].op, call[t].res)
  /\ UNCHANGED <<head, free_chunks, chunk, switches, bytes_live, fault>>

-----------------------------------------------------------------------------
(* dealloc, under the lock.                                                *)

(* Mutant: a page is dead as soon as anything in it is freed.              *)
OnFreePagesEager(ch, start, end) ==
  LET touched == {p \in Pages : Overlap(p, start, end) > 0}
  IN  [ch EXCEPT !.page_freed = [p \in Pages |-> @[p] + Overlap(p, start, end)],
                 !.dead = @ \cup touched]

(* Release accounting of a slot: its words count as freed in every page    *)
(* they lie in, and a page with nothing left and no nodes becomes dead.    *)
on_free_pages(ch, start, end) ==
  LET touched == {p \in Pages : Overlap(p, start, end) > 0}
      freed == [p \in Pages |->
                  Min({ch.page_alloc[p], ch.page_freed[p] + Overlap(p, start, end)})]
  IN  [ch EXCEPT
         !.page_freed = [p \in Pages |-> IF p \in touched THEN freed[p] ELSE @[p]],
         !.dead = @ \cup {p \in touched : /\ freed[p] = ch.page_alloc[p]
                                          /\ ch.page_alloc[p] > 0
                                          /\ ch.page_nodes[p] = 0}]

(* dealloc's checks of the header, the slot's extent and the counter.      *)
SlotFault(c, p) ==
  CASE mem[c][p - HEADER] # CapWord(CapOf(c, p)) -> "corrupt header"
    [] p + CapOf(c, p) > CHUNK_SIZE -> "slot outside its chunk"
    [] chunk[c].outstanding = 0 -> "outstanding underflow"
    [] OTHER -> "none"

(* The checks, then the slot stops being outstanding.                      *)
DeallocSlot(t) ==
  LET c == call[t].old.c
      found == SlotFault(c, call[t].old.p)
  IN  /\ call[t].at = "dealloc_locked"
      /\ call[t].old.org = "pool"
      /\ IF found # "none" THEN pool_fatal(found)
         ELSE /\ chunk' = [chunk EXCEPT ![c].outstanding = @ - 1]
              /\ bytes_live' = bytes_live - call[t].old.size
              /\ call' = [call EXCEPT ![t] = [at |-> "dealloc_slot", old |-> @.old]]
              /\ UNCHANGED <<locked, head, free_chunks, mem, switches, buf, fault>>

(* A slot goes onto a free list only if it cannot straddle whole pages, is *)
(* plainly aligned, and is not the last of its chunk.                      *)
Reusable(c, cap, align) ==
  /\ free_mode_reuse
  /\ cap + HEADER < PageSize
  /\ cap >= MIN_BUCKET_SIZE
  /\ align <= MIN_BUCKET_SIZE
  /\ chunk[c].outstanding > 0

(* The owner's data in a freed payload is never read again; it is zeroed   *)
(* here only so that states that differ in it are one state.               *)
Abandoned(c, node, cap) ==
  [mem EXCEPT ![c] = [o \in Offsets |-> IF o \in node .. node + cap - 1 /\ @[o].k = "data"
                                         THEN Zero ELSE @[o]]]

Freed(t) ==
  /\ call' = [call EXCEPT ![t] = [at |-> "dealloc_sweep", c |-> @.old.c]]
  /\ UNCHANGED <<locked, head, free_chunks, bytes_live, switches, buf, fault>>

(* Mutant: a node is pushed without being counted in its page.             *)
PushNodeUncounted(t) ==
  LET c == call[t].old.c
      node == call[t].old.p
      cap == CapOf(c, node)
      b == bucket_of(cap)
  IN  /\ call[t].at = "dealloc_slot"
      /\ Reusable(c, cap, call[t].old.align)
      /\ chunk' = [chunk EXCEPT ![c].free_heads[b] = node]
      /\ mem' = [Abandoned(c, node, cap) EXCEPT ![c][node] = NextWord(chunk[c].free_heads[b])]
      /\ Freed(t)

(* The double-push check reads the last word of the payload, and so is     *)
(* made only when that is in the page of the first.                        *)
Marked(node, cap) == PageOf(node + cap - 1) = PageOf(node)

PushFault(c, node, cap) ==
  CASE Marked(node, cap) /\ mem[c][node + cap - 1] = NodeMagic -> "double push"
    [] chunk[c].page_nodes[PageOf(node)] >= SlotsPerPage -> "page_nodes exceeds slots-per-page"
    [] OTHER -> "none"

(* Reuse mode: the payload becomes a free-list node, its first word the    *)
(* next pointer and its last NODE_MAGIC (if in the same page).             *)
PushNode(t) ==
  LET c == call[t].old.c
      node == call[t].old.p
      cap == CapOf(c, node)
      b == bucket_of(cap)
      found == PushFault(c, node, cap)
      linked == [Abandoned(c, node, cap) EXCEPT ![c][node] = NextWord(chunk[c].free_heads[b])]
  IN  /\ call[t].at = "dealloc_slot"
      /\ Reusable(c, cap, call[t].old.align)
      /\ IF found # "none" THEN pool_fatal(found)
         ELSE /\ chunk' = [chunk EXCEPT ![c].free_heads[b] = node,
                                        ![c].page_nodes[PageOf(node)] = @ + 1]
              /\ mem' = [linked EXCEPT ![c][node + cap - 1] =
                            IF Marked(node, cap) THEN NodeMagic ELSE @]
              /\ Freed(t)

(* Release mode: the slot is forgotten and its pages may go dead.          *)
ReleaseSlot(t) ==
  LET c == call[t].old.c
      p == call[t].old.p
      cap == CapOf(c, p)
  IN  /\ call[t].at = "dealloc_slot"
      /\ ~Reusable(c, cap, call[t].old.align)
      /\ chunk' = [chunk EXCEPT ![c] = on_free_pages(@, p - HEADER, p + cap)]
      /\ mem' = Abandoned(c, p, cap)
      /\ Freed(t)

(* Mutant: the dead chunk is recycled without being unlinked.              *)
DropChunkLinked(t) ==
  /\ call[t].at = "dealloc_sweep"
  /\ chunk[call[t].c].outstanding = 0
  /\ free_chunks' = <<call[t].c>> \o free_chunks
  /\ mem' \in Madvised(mem, call[t].c, Pages)
  /\ call' = [call EXCEPT ![t] = [at |-> "dealloc_unlock"]]
  /\ UNCHANGED <<locked, head, chunk, bytes_live, switches, buf, fault>>

(* The chunk's last slot died: unlink it, drop all its pages, recycle it.  *)
drop_chunk(t) ==
  LET c == call[t].c
  IN  /\ call[t].at = "dealloc_sweep"
      /\ chunk[c].outstanding = 0
      /\ IF \E i \in DOMAIN free_chunks : free_chunks[i] = c
         THEN pool_fatal("chunk already on recycle stack")
         ELSE /\ head' = RemoveFirst(head, c)
              /\ free_chunks' = <<c>> \o free_chunks
              /\ mem' \in Madvised(mem, c, Pages)
              /\ call' = [call EXCEPT ![t] = [at |-> "dealloc_unlock"]]
              /\ UNCHANGED <<locked, chunk, bytes_live, switches, buf, fault>>

(* Mutant: a sweep drops every page of the chunk, not the dead ones.       *)
SweepAllPages(t) ==
  /\ call[t].at = "dealloc_sweep"
  /\ chunk[call[t].c].outstanding > 0
  /\ chunk' = [chunk EXCEPT ![call[t].c].dead = {}]
  /\ mem' \in Madvised(mem, call[t].c, Pages)
  /\ call' = [call EXCEPT ![t] = [at |-> "dealloc_unlock"]]
  /\ UNCHANGED <<locked, head, free_chunks, bytes_live, switches, buf, fault>>

sweep_dead_pages(c) ==
  /\ chunk' = [chunk EXCEPT ![c].dead = {}]
  /\ mem' \in Madvised(mem, c, chunk[c].dead)

maybe_sweep(t) ==
  LET c == call[t].c
  IN  /\ call[t].at = "dealloc_sweep"
      /\ chunk[c].outstanding > 0
      /\ IF Cardinality(chunk[c].dead) < SweepAt
         THEN UNCHANGED <<chunk, mem>> ELSE sweep_dead_pages(c)
      /\ call' = [call EXCEPT ![t] = [at |-> "dealloc_unlock"]]
      /\ UNCHANGED <<locked, head, free_chunks, bytes_live, switches, buf, fault>>

(* A sentinel-tagged block goes back to the system after the unlock, with  *)
(* a layout made from its header; a pointer with no pool header at all is  *)
(* caught by the magic check.                                              *)
DeallocGated(t) ==
  /\ call[t].at = "dealloc_locked"
  /\ call[t].old.org # "pool"
  /\ IF call[t].old.org = "gated"
     THEN /\ call' = [call EXCEPT ![t] =
                        [at |-> "dealloc_unlock", was |-> @.old.sys,
                         sys |-> [size |-> @.old.size + HEADER, align |-> AlignOf(@.old)]]]
          /\ UNCHANGED <<locked, pool, switches, buf, fault>>
     ELSE pool_fatal("non-pool pointer")

unlock(t) ==
  /\ call[t].at = "dealloc_unlock"
  /\ locked' = NoThread
  /\ call' = [call EXCEPT ![t] = Idle]
  /\ UNCHANGED <<pool, switches, buf, fault>>

-----------------------------------------------------------------------------
Init ==
  /\ locked = NoThread
  /\ head = << >> /\ free_chunks = << >>
  /\ chunk = [c \in Chunks |-> FreshChunk]
  /\ mem = [c \in Chunks |-> [o \in Offsets |-> Zero]]
  /\ pooling = TRUE /\ pass_through = FALSE /\ free_mode_reuse = TRUE
  /\ bytes_live = 0
  /\ buf = [id \in Ids |-> NoBuf]
  /\ call = [t \in Threads |-> Idle]
  /\ fault = "none"

Locked(t) ==
  \/ AllocPick(t) \/ AllocReuse(t) \/ AllocBump(t)
  \/ RecycleChunk(t) \/ new_chunk(t) \/ AllocNull(t) \/ AllocReturn(t)
  \/ DeallocSlot(t) \/ PushNode(t) \/ ReleaseSlot(t)
  \/ drop_chunk(t) \/ maybe_sweep(t) \/ DeallocGated(t) \/ unlock(t)

Next ==
  \/ \E m \in FreeModes : set_free_mode(m)
  \/ \E on \in PoolingModes : set_pooling(on)
  \/ \E on \in BOOLEAN : set_pass_through(on)
  \/ \E t \in Threads :
       \/ alloc(t) \/ realloc(t) \/ dealloc(t)
       \/ DeallocSystem(t) \/ DeallocPooled(t)
       \/ lock(t)
       \/ Locked(t)

Spec == Init /\ [][Next]_vars

(* A critical section is straight-line code: a thread inside the lock is   *)
(* scheduled again and runs it to the end.  Acquiring the lock is a        *)
(* compare-exchange that may lose every race, so nothing is assumed of it. *)
FairSpec == Spec /\ \A t \in Threads : WF_vars(Locked(t))

-----------------------------------------------------------------------------
(* Properties.                                                             *)

(* Who holds a pool slot: a name of the program, or a call that has been   *)
(* served and not returned, or has taken a buffer and not freed it yet.    *)
HeldBy ==
  {<<"buf", id>> : id \in {i \in Ids : buf[i].org = "pool"}}
  \cup {<<"res", t>> : t \in {u \in Threads : call[u].at = "alloc_unlock" /\ call[u].res.org = "pool"}}
  \cup {<<"old", t>> : t \in {u \in Threads : call[u].at \in {"dealloc", "dealloc_lock", "dealloc_locked"}
                                            /\ call[u].old.org = "pool"}}
SlotOf(h) == CASE h[1] = "buf" -> buf[h[2]]
               [] h[1] = "res" -> call[h[2]].res
               [] h[1] = "old" -> call[h[2]].old
HeldIn(c) == {h \in HeldBy : SlotOf(h).c = c}

Extent(c, p, size) == p - HEADER .. p + Max({CapOf(c, p), size}) - 1
HeldExtent(h) == Extent(SlotOf(h).c, SlotOf(h).p, SlotOf(h).size)
\* A slot takes its header and MIN_BUCKET_SIZE words at least.
NodesIn(c) == {NodeAt(c, b)[n] : b \in Buckets, n \in 0 .. CHUNK_SIZE \div (HEADER + MIN_BUCKET_SIZE)} \ {0}
Linked == {head[i] : i \in DOMAIN head}

(* The spin lock guards all pool state: a thread is between lock and       *)
(* unlock in alloc or dealloc exactly when the lock is its own, so no two  *)
(* threads ever are.                                                       *)
Critical == {"alloc", "alloc_take", "alloc_unlock", "dealloc_locked", "dealloc_slot",
             "dealloc_sweep", "dealloc_unlock"}
LockOwner == \A t \in Threads : call[t].at \in Critical <=> locked = t

(* No word of a chunk is served twice: the slots in use are disjoint from  *)
(* each other and from the free-list nodes, and lie in linked chunks below *)
(* the bump offset (alloc's reuse scan, its bump, and dealloc's push).     *)
NoDoubleServe ==
  \A h \in HeldBy :
    LET c == SlotOf(h).c
    IN  /\ c \in Linked
        /\ HeldExtent(h) \subseteq 0 .. chunk[c].fill - 1
        /\ \A g \in HeldIn(c) \ {h} : HeldExtent(g) \cap HeldExtent(h) = {}
        /\ \A n \in NodesIn(c) : Extent(c, n, 0) \cap HeldExtent(h) = {}

(* A chunk's outstanding counter is the number of its slots in use, it is  *)
(* linked exactly while that is not zero, bytes_live is their total, and   *)
(* no chunk is on the live list or the recycle stack twice (dealloc's      *)
(* underflow check, drop_chunk's and new_chunk's aliasing guards).         *)
ChunkAccounting ==
  /\ \A c \in Chunks : Cardinality(HeldIn(c)) = IF c \in Linked THEN chunk[c].outstanding ELSE 0
  /\ locked = NoThread => \A c \in Linked : chunk[c].outstanding > 0
  /\ bytes_live = MapThenSumSet(LAMBDA h : SlotOf(h).size, HeldBy)
  /\ \A i, j \in DOMAIN (head \o free_chunks) :
       (head \o free_chunks)[i] = (head \o free_chunks)[j] => i = j

(* page_nodes of a page is exactly the number of free-list nodes in it:    *)
(* what keeps a page with next pointers in it from being released.         *)
PageNodesExact ==
  \A c \in Linked :
    LET nodes == NodesIn(c)
    IN  \A p \in Pages : chunk[c].page_nodes[p] = Cardinality({n \in nodes : PageOf(n) = p})

(* A buffer reads back what its owner wrote until it is freed, across the  *)
(* sweeps and recycling that other frees cause and across realloc's copy   *)
(* (the "content" checks of pool_tests.rs).                                *)
DataIntact ==
  \A id \in Ids : buf[id].org = "pool" =>
    \A k \in 0 .. buf[id].size - 1 : mem[buf[id].c][buf[id].p + k] = Data(id)

(* None of the allocator's own fatal checks fires and every pointer is     *)
(* returned to the allocator it came from.                                 *)
NoFault == fault = "none"

(* A page is marked dead only when no slot in use has a word in it, which  *)
(* is what entitles the sweep to drop it (on_free_pages).                  *)
DeadPagesAreFree ==
  [][\A c \in Chunks : \A p \in chunk'[c].dead \ chunk[c].dead :
       \A h \in HeldBy' : SlotOf(h)'.c = c =>
         Overlap(p, SlotOf(h)'.p - HEADER, SlotOf(h)'.p + SlotOf(h)'.size) = 0]_vars

(* A block goes back to the system with the layout it was asked for with:  *)
(* the header lets dealloc reconstruct it (the phase gating paragraph of   *)
(* the module documentation).                                              *)
LayoutReturned ==
  \A t \in Threads : call[t].at = "dealloc_unlock" /\ "sys" \in DOMAIN call[t] =>
    call[t].sys = call[t].was

(* Every critical section ends: no path of alloc or dealloc, null returns  *)
(* included, leaves the spin lock taken.                                   *)
LockReleased == \A t \in Threads : locked = t ~> locked # t
=============================================================================
