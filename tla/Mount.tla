-------------------------------- MODULE Mount --------------------------------
(***************************************************************************)
(* The virtual file system and its mounts: VfsTree and the chunk cache     *)
(* (core/src/vfs), the WebDAV server with its pool of workers and the FUSE *)
(* file system (cli/src/mount), over the store that VersionedStore         *)
(* specifies.  A tree is a copy of what the store named when it was built; *)
(* clients of the store go on changing it, and collections may take away   *)
(* what a tree still shows.                                                *)
(*                                                                         *)
(* Requests answered without reading a file (404, 416, HEAD, LOCK, the     *)
(* refused methods) change nothing and are left out, and so are XML, HTML, *)
(* dates and URL decoding.  The records of list_named_objects, which the   *)
(* code reads one by one, are read at one moment: no property relates two  *)
(* files of one tree.                                                      *)
(***************************************************************************)
EXTENDS VersionedStore, SequencesExt

CONSTANTS
  Workers,     \* worker threads of the mount
  Nobody,      \* "no thread", "no content", "no number in the header"
  Chunks,      \* chunk ids
  ChunksOf,    \* the chunks of each content, in order
  LenOf,       \* the decompressed length of each chunk
  DirsOf,      \* the names that are directories on the path of a name
  MaxBytes,    \* capacity of the chunk cache
  MaxOffset    \* bound: offsets and lengths in requests

ASSUME MountAssumption ==
  /\ ChunksOf \in [Contents -> Seq(Chunks)]
  /\ LenOf \in [Chunks -> Nat \ {0}]
  /\ DirsOf \in [Names -> SUBSET Names]
  /\ {MaxBytes, MaxOffset} \subseteq Nat
  \* --cache-mb counts MiB (0 stands for 128) and a chunk has at most 256 KiB
  /\ \A k \in Chunks : LenOf[k] <= MaxBytes
  /\ Nobody \notin Workers

VARIABLES
  mode,        \* "webdav" or "fuse"
  tree,        \* the mounted tree: the files and snapshots it was built from
  newTree,     \* the tree the refreshing worker builds
  refresher,   \* who holds last_refresh
  vfsReaders,  \* workers that hold the tree's lock for reading
  opReaders,   \* workers that hold the store's op_lock for reading
  cache,       \* DecompressedChunkCache: its entries from least to most
               \* recently used, and current_bytes
  wpc,         \* where each worker is
  read         \* the read_range call each worker is in

mountVars ==
  <<mode, tree, newTree, refresher, vfsReaders, opReaders, cache, wpc, read>>

-----------------------------------------------------------------------------
\* The lengths of a sequence's chunks, added up from its beginning.
Offsets(s) ==
  LET f[i \in 0..Len(s)] == IF i = 0 THEN 0 ELSE f[i - 1] + LenOf[s[i]]
  IN  f

SumLen(s) == Offsets(s)[Len(s)]

SizeOf(c) == SumLen(ChunksOf[c])

\* A byte is named by its chunk and its place in it.
BytesOfChunk(k) == [i \in 1..LenOf[k] |-> <<k, i>>]

\* A file is its chunks, one after the other.
BytesOf(c) ==
  LET f[i \in 0..Len(ChunksOf[c])] ==
        IF i = 0 THEN << >> ELSE f[i - 1] \o BytesOfChunk(ChunksOf[c][i])
  IN  f[Len(ChunksOf[c])]

\* What get_location finds: the chunks of what the store keeps.
StoredChunks == UNION {ToSet(ChunksOf[c]) : c \in readable}

EmptyTree == [files |-> [n \in Names |-> NoFile], snaps |-> {}]
EmptyCache == [order |-> << >>, bytes |-> 0]
NoRead == [content |-> Nobody, start |-> 0, length |-> 0, end |-> 0, index |-> 1,
           offset |-> 0, out |-> << >>]

\* A mount of the store as it is, built before the workers start.
MountAs(m) ==
  /\ mode = m
  /\ tree = [files |-> files, snaps |-> snaps]
  /\ newTree = EmptyTree /\ refresher = Nobody
  /\ vfsReaders = {} /\ opReaders = {}
  /\ cache = EmptyCache
  /\ wpc = [w \in Workers |-> "idle"]
  /\ read = [w \in Workers |-> NoRead]

WGoto(w, l) == wpc' = [wpc EXCEPT ![w] = l]

-----------------------------------------------------------------------------
(* VfsTree::build and resolve_path                                         *)

VersionsIn(t, n) == ToSet(t.files[n].versions)

\* The first child of a name wins and names come in key order: a file hides a
\* directory of its name, and everything below it.
Visible(shown, n) == n \in shown /\ DirsOf[n] \cap shown = {}

\* /current/<name>: the last entry of each record that has one.
CurrentIn(t) ==
  LET shown == {n \in Names : t.files[n].versions # << >>}
  IN  {Last(t.files[n].versions).content : n \in {m \in shown : Visible(shown, m)}}

\* /snapshots/<label>/<name>
SnapshotsIn(t) ==
  UNION {{e.content : e \in {x \in s.entries :
            Visible({y.name : y \in s.entries}, x.name)}} : s \in t.snaps}

\* /history/<name>@v<N>, and @latest, which leads to the largest N.  With the
\* number in its name a file hides no directory.
HistoryIn(t) == UNION {{v.content : v \in VersionsIn(t, n)} : n \in Names}

\* The contents that some path leads to.
Resolvable == CurrentIn(tree) \cup SnapshotsIn(tree) \cup HistoryIn(tree)

-----------------------------------------------------------------------------
(* handle_request, handle_get and the FUSE read                            *)

\* A Range header: first-last, first-, or -last; or none at all.
Headers == [first : 0..MaxOffset \cup {Nobody}, last : 0..MaxOffset \cup {Nobody}]

\* parse_range_header: the start and the length, none for a 416.
ParseRange(h, total) ==
  IF total = 0 THEN {<<0, 0>>}
  ELSE IF h.first = Nobody
    THEN LET start == IF h.last = Nobody \/ h.last > total THEN 0 ELSE total - h.last
         IN  {<<start, total - start>>}
    ELSE LET last == IF h.last = Nobody \/ h.last > total - 1 THEN total - 1 ELSE h.last
         IN  {r \in {<<h.first, last - h.first + 1>>} : h.first < total /\ h.first <= last}

Requested(c, start, length) ==
  [NoRead EXCEPT !.content = c, !.start = start, !.length = length]

\* Mutant: the tree is locked before PROPFIND refreshes it.
ReceiveMutant(w) ==
  /\ mode = "webdav"
  /\ wpc[w] = "idle"
  /\ \E l \in {"get", "refresh"} : WGoto(w, l)
  /\ vfsReaders' = vfsReaders \cup {w}
  /\ UNCHANGED <<mode, tree, newTree, refresher, opReaders, cache, read>>

\* A worker takes a request from the server's queue.
Receive(w) ==
  /\ mode = "webdav"
  /\ wpc[w] = "idle"
  /\ \E l \in {"get", "refresh"} : WGoto(w, l)
  /\ UNCHANGED <<mode, tree, newTree, refresher, vfsReaders, opReaders, cache, read>>

\* The lock prefers a waiting writer to new readers.
VfsReadable == \A w \in Workers : wpc[w] # "swap"

\* GET: the tree is locked for reading until the answer is sent.
GetFile(w) ==
  /\ wpc[w] = "get" /\ VfsReadable
  /\ vfsReaders' = vfsReaders \cup {w}
  /\ \/ \E c \in Resolvable, h \in Headers : \E r \in ParseRange(h, SizeOf(c)) :
          /\ read' = [read EXCEPT ![w] = Requested(c, r[1], r[2])]
          /\ WGoto(w, "read")
     \/ WGoto(w, "done") /\ UNCHANGED read
  /\ UNCHANGED <<mode, tree, newTree, refresher, opReaders, cache>>

\* PROPFIND lists the tree after it may have been refreshed.
Propfind(w) ==
  /\ wpc[w] = "list" /\ VfsReadable
  /\ vfsReaders' = vfsReaders \cup {w}
  /\ WGoto(w, "done")
  /\ UNCHANGED <<mode, tree, newTree, refresher, opReaders, cache, read>>

\* FUSE: the session handles one request at a time and its tree never changes.
FuseRead(w) ==
  /\ mode = "fuse"
  /\ \A x \in Workers : wpc[x] = "idle"
  /\ \E c \in Resolvable, offset, size \in 0..MaxOffset :
       read' = [read EXCEPT ![w] = Requested(c, offset, size)]
  /\ WGoto(w, "read")
  /\ UNCHANGED <<mode, tree, newTree, refresher, vfsReaders, opReaders, cache>>

\* The answer is sent and the tree's lock is released.
Respond(w) ==
  /\ wpc[w] \in {"done", "failed"}
  /\ vfsReaders' = vfsReaders \ {w}
  /\ read' = [read EXCEPT ![w] = NoRead]
  /\ WGoto(w, "idle")
  /\ UNCHANGED <<mode, tree, newTree, refresher, opReaders, cache>>

-----------------------------------------------------------------------------
(* VfsTree::read_range                                                     *)

\* Mutant: only the lookup of the manifest runs under op_lock.
OpLockedMutant(w) == opReaders

\* The guard lives from the lookup of the manifest to the end of the call.
OpLocked(w) == opReaders \cup {w}

\* op_lock keeps collections out from here to the end of the call.
BeginRead(w) ==
  LET r == read[w]
      total == SizeOf(r.content)
  IN
  /\ wpc[w] = "read"
  /\ \/ /\ r.length = 0
        /\ WGoto(w, "done") /\ UNCHANGED <<opReaders, read>>
     \/ /\ r.length > 0 /\ r.content \notin readable       \* ObjectNotFound
        /\ WGoto(w, "failed") /\ UNCHANGED <<opReaders, read>>
     \/ /\ r.length > 0 /\ r.content \in readable /\ r.start >= total
        /\ WGoto(w, "done") /\ UNCHANGED <<opReaders, read>>
     \/ /\ r.length > 0 /\ r.content \in readable /\ r.start < total
        /\ read' = [read EXCEPT ![w].end =
                      IF r.length < total - r.start THEN r.start + r.length ELSE total]
        /\ opReaders' = OpLocked(w)
        /\ WGoto(w, "chunk")
  /\ UNCHANGED <<mode, tree, newTree, refresher, vfsReaders, cache>>

ChunkAt(r) == ChunksOf[r.content][r.index]
ChunkEnd(r) == r.offset + LenOf[ChunkAt(r)]
Wanted(r) == ChunkEnd(r) > r.start /\ r.offset < r.end

\* Mutant: the start of the range is not made relative to the chunk.
SliceMutant(r) ==
  LET to == IF r.end < ChunkEnd(r) THEN r.end - r.offset ELSE LenOf[ChunkAt(r)]
  IN  SubSeq(BytesOfChunk(ChunkAt(r)), r.start + 1, to)

\* The part of the chunk at hand that the request asks for.
Slice(r) ==
  LET from == IF r.start > r.offset THEN r.start - r.offset ELSE 0
      to == IF r.end < ChunkEnd(r) THEN r.end - r.offset ELSE LenOf[ChunkAt(r)]
  IN  SubSeq(BytesOfChunk(ChunkAt(r)), from + 1, to)

\* On to the next chunk, or out of the loop and of op_lock.
Advance(w, bytes) ==
  LET r == read[w]
      finished == ChunkEnd(r) >= r.end \/ r.index = Len(ChunksOf[r.content])
  IN
  /\ read' = [read EXCEPT ![w].out = @ \o bytes, ![w].offset = ChunkEnd(r),
                          ![w].index = @ + 1]
  /\ WGoto(w, IF finished THEN "done" ELSE "chunk")
  /\ opReaders' = IF finished THEN opReaders \ {w} ELSE opReaders

\* A chunk without a location would end the call with ChunkNotFound, which
\* ReadsComplete shows never to happen.
SkipChunk(w) ==
  /\ wpc[w] = "chunk" /\ ChunkAt(read[w]) \in StoredChunks
  /\ ~ Wanted(read[w])
  /\ Advance(w, << >>)
  /\ UNCHANGED <<mode, tree, newTree, refresher, vfsReaders, cache>>

\* DecompressedChunkCache::get moves what it finds to the end of the order.
Promoted(k) ==
  LET pos == Min({i \in DOMAIN cache.order : cache.order[i] = k})
  IN  [cache EXCEPT !.order = Append(RemoveAt(@, pos), k)]

CachedChunk(w) ==
  LET k == ChunkAt(read[w]) IN
  /\ wpc[w] = "chunk" /\ k \in StoredChunks
  /\ Wanted(read[w]) /\ k \in ToSet(cache.order)
  /\ cache' = Promoted(k)
  /\ Advance(w, Slice(read[w]))
  /\ UNCHANGED <<mode, tree, newTree, refresher, vfsReaders>>

\* get_chunk runs without the cache's lock.
FetchChunk(w) ==
  LET k == ChunkAt(read[w]) IN
  /\ wpc[w] = "chunk" /\ k \in StoredChunks
  /\ Wanted(read[w]) /\ k \notin ToSet(cache.order)
  /\ WGoto(w, "insert")
  /\ UNCHANGED <<mode, tree, newTree, refresher, vfsReaders, opReaders, cache, read>>

\* It meets an I/O error: the call returns it, and with it op_lock.
FetchFails(w) ==
  /\ wpc[w] = "chunk" /\ ChunkAt(read[w]) \in StoredChunks
  /\ Wanted(read[w]) /\ ChunkAt(read[w]) \notin ToSet(cache.order)
  /\ opReaders' = opReaders \ {w}
  /\ WGoto(w, "failed")
  /\ UNCHANGED <<mode, tree, newTree, refresher, vfsReaders, cache, read>>

\* Eviction from the front until the chunk fits or nothing is left.
Evicted(k) ==
  LET Left(i) == cache.bytes - SumLen(SubSeq(cache.order, 1, i))
      i == Min({j \in 0..Len(cache.order) :
                  Left(j) + LenOf[k] <= MaxBytes \/ j = Len(cache.order)})
  IN  [order |-> SubSeq(cache.order, i + 1, Len(cache.order)), bytes |-> Left(i)]

\* Mutant: the chunk is taken to be absent, as it was when get missed it.
InsertedMutant(k) ==
  [order |-> Append(Evicted(k).order, k), bytes |-> Evicted(k).bytes + LenOf[k]]

\* DecompressedChunkCache::insert; another worker may have been faster.
Inserted(k) ==
  IF k \in ToSet(cache.order) THEN Promoted(k)
  ELSE [order |-> Append(Evicted(k).order, k), bytes |-> Evicted(k).bytes + LenOf[k]]

InsertChunk(w) ==
  /\ wpc[w] = "insert"
  /\ cache' = Inserted(ChunkAt(read[w]))
  /\ Advance(w, Slice(read[w]))
  /\ UNCHANGED <<mode, tree, newTree, refresher, vfsReaders>>

-----------------------------------------------------------------------------
(* refresh_if_needed                                                       *)

\* Mutant: last_refresh is read and let go.
BeginRefreshMutant(w) ==
  /\ wpc[w] = "refresh"
  /\ \/ WGoto(w, "list") /\ UNCHANGED refresher
     \/ WGoto(w, "names") /\ refresher' = w
  /\ UNCHANGED <<mode, tree, newTree, vfsReaders, opReaders, cache, read>>

\* last_refresh is held until the refresh is over; within 500 ms of the last
\* one nothing is done.
BeginRefresh(w) ==
  /\ wpc[w] = "refresh" /\ refresher = Nobody
  /\ \/ WGoto(w, "list") /\ UNCHANGED refresher
     \/ WGoto(w, "names") /\ refresher' = w
  /\ UNCHANGED <<mode, tree, newTree, vfsReaders, opReaders, cache, read>>

\* VfsTree::build reads the names, then the snapshots.
ReadNames(w) ==
  /\ wpc[w] = "names"
  /\ newTree' = [newTree EXCEPT !.files = files]
  /\ WGoto(w, "snaps")
  /\ UNCHANGED <<mode, tree, refresher, vfsReaders, opReaders, cache, read>>

ReadSnapshots(w) ==
  /\ wpc[w] = "snaps"
  /\ newTree' = [newTree EXCEPT !.snaps = snaps]
  /\ WGoto(w, "swap")
  /\ UNCHANGED <<mode, tree, refresher, vfsReaders, opReaders, cache, read>>

\* Where the metadata cannot be read it goes on with an empty list.
BuildFails(w) ==
  /\ wpc[w] \in {"names", "snaps"}
  /\ WGoto(w, IF wpc[w] = "names" THEN "snaps" ELSE "swap")
  /\ UNCHANGED <<mode, tree, newTree, refresher, vfsReaders, opReaders, cache, read>>

\* The new tree, which has a cache of its own, replaces the old one.
SwapTree(w) ==
  /\ wpc[w] = "swap" /\ vfsReaders = {}
  /\ tree' = newTree /\ newTree' = EmptyTree
  /\ cache' = EmptyCache
  /\ refresher' = Nobody
  /\ WGoto(w, "list")
  /\ UNCHANGED <<mode, vfsReaders, opReaders, read>>

-----------------------------------------------------------------------------
WorkerStep(w) ==
  \/ GetFile(w) \/ Propfind(w) \/ Respond(w)
  \/ BeginRead(w) \/ SkipChunk(w) \/ CachedChunk(w) \/ FetchChunk(w) \/ InsertChunk(w)
  \/ BeginRefresh(w) \/ ReadNames(w) \/ ReadSnapshots(w) \/ SwapTree(w)

-----------------------------------------------------------------------------
WPcs == {"idle", "get", "read", "chunk", "insert", "done", "failed",
         "refresh", "names", "snaps", "swap", "list"}

IsTree(t) ==
  /\ DOMAIN t.files = Names
  /\ CurrentIn(t) \cup SnapshotsIn(t) \cup HistoryIn(t) \subseteq Contents

(* A finished GET or FUSE read returns exactly the bytes of the requested  *)
(* range of the file, up to its end (read_range, parse_range_header), no   *)
(* matter which chunks came from the cache, and the length a GET announces *)
(* is the length it sends.                                                 *)
ReadsAreExact ==
  \A w \in Workers :
    LET r == read[w] IN
    wpc[w] = "done" /\ r.content # Nobody =>
      /\ r.out = SubSeq(BytesOf(r.content), r.start + 1,
                        Min({r.start + r.length, SizeOf(r.content)}))
      /\ mode = "webdav" => Len(r.out) = r.length

(* Workers that fetch the same chunk at the same time insert it once, and  *)
(* promotion and eviction keep current_bytes the sum of what is cached,    *)
(* within the capacity (DecompressedChunkCache::insert).                   *)
CacheIsConsistent ==
  /\ IsInjective(cache.order)
  /\ cache.bytes = SumLen(cache.order)
  /\ cache.bytes <= MaxBytes

(* Once a read has found its manifest, no delete, prune or collection      *)
(* takes one of its chunks away before it is over: it never fails half way *)
(* with ChunkNotFound (op_lock in read_range).                             *)
ReadsComplete ==
  \A w \in Workers :
    wpc[w] \in {"chunk", "insert"} => ToSet(ChunksOf[read[w].content]) \subseteq StoredChunks

-----------------------------------------------------------------------------
\* What the engine's operations have to wait for: those that take op_lock for
\* writing run only while no worker reads.
StoreStep ==
  \/ AddVersion \/ Rename \/ Prune \/ StoreContent
  \/ opReaders = {} /\ (RemoveFile \/ TakeSnapshot \/ DropSnapshot \/ Reclaim)
=============================================================================
