# Fast indexed text search: a TLA+ verification project

The program (`src/`) is an HTTP service that builds a trigram index of a word
list and answers substring queries with the ids of the words that contain the
query. This directory models its own code (the multi-threaded index builder, the
query, the fetch from the database, and the life of the index files on disk
under concurrent requests, failures and restarts) and, of the HTTP library it
carries along, the server that the handlers run in: thread pool, accept loop and
persistent connections. TLC checks the models on small instances; TLAPS proves
most of the safety properties for all values of the constants.

## The system

| Component | Code | State | Operations |
|---|---|---|---|
| Line scan | `trigram_builder.cpp` 184-226 | `line_boundaries`, `longest_line`, `offsets.bin.new` | find the newlines, measure the longest line, write the offsets |
| create_shards | `trigram_builder.cpp` 63-102, `shardbuffer.hpp` | one buffer per worker and shard, the shards | a pool of threads takes every n-th line and pushes a pair (offset, line) per distinct trigram |
| Shard, Mapping | `shard.hpp` | chunks of anonymous memory, `_size`, `grow_mutex` | `push` (many threads), `consolidate` (mremap into one range), `~Mapping` |
| process_shards | `trigram_builder.cpp` 104-182 | `current_job`, mutex, condition variable, counts in `mapping.bin.new` | a pool sorts and counts the shards in parallel and writes them in order to one `FILE` |
| create_mapping | `trigram_builder.cpp` 42-61 | `mapping.bin.new` | prefix sums of the counts |
| TrigramQuery | `trigram_query.cpp` | five mapped files | look trigrams up, intersect, verify, translate to ids |
| Database fetch | `database.cpp` | `content.bin.new`, `ids.bin.new` | one statement for the sizes, one for the rows |
| Handlers | `main.cpp`, `replace_active_index` | `build_mutex`, files `*.bin.new` and `*.bin` | `/build`: fetch, build, rename five files; `/search`: open five files, answer |
| MemoryMappedFile | `memory_mapped_file.hpp` | descriptor, size, pointer | create, open, `at`, `[]` |
| ThreadingPool | `thread_pool.hpp` | threads | start worker w at w with step n; join |
| Progress | `progress.hpp` | counters under a mutex | a bar on stderr: construct, `add`, `update`, `finish` |
| init_db | `init_db.cxx` | - | a program of its own: cuts a file into lines and inserts them in one transaction |
| HTTP server: pool | `httplib.h` (vendored) 11767-11910 | jobs, base, dynamic and finished threads, `idle_thread_count_` | `enqueue`, `worker`, `shutdown` |
| HTTP server: accept loop | `httplib.h` 13762-13854 | `svr_sock_`, the process's descriptors | accept, retry, give up, shut the pool down |
| HTTP server: connection | `httplib.h` 6505-6573, 14220-14560 | the socket's bytes, a read buffer per request, `count` | keep-alive, read a request, call a handler, answer, close |

How they interact: a `/build` request runs fetch, line scan, create_shards,
process_shards, create_mapping and the renames one after the other, under
`build_mutex`. Within create_shards the workers share only the shards; within
process_shards they share the mutex, the counter, the file and (at disjoint
places) the mapping. A `/search` request shares nothing with a build but the
names of the active files, and takes no lock. Both run on threads of the
server's pool, one thread for each connection as long as it is open; a build that
waits for `build_mutex` keeps its thread. The database is shared with `init_db`
and whoever else edits the table.

What is hard: the order of the writers in process_shards (condition variable),
the shards under concurrent `push`, unsigned arithmetic at the ends of a text,
exceptions in pool threads, and everything about the files: half-finished
builds, the five separate renames, searches that open five files meanwhile, a
table that changes between two statements, a process that dies in between. In
the server: a notification that comes late or to the wrong thread, threads that
leave while they are counted on, a shutdown with threads under way, too few
threads or descriptors, bytes of a request that are left over or read twice.

What makes each component correct:

- line scan: the boundaries are the newlines, and the range a query verifies a
  line in is the line that was indexed;
- create_shards: each pair of the text reaches its shard exactly once;
- Shard: an atomic append-only log;
- process_shards and create_mapping: the file a sequential writer would leave,
  counts and offsets that fit it, and no thread left waiting;
- build: whatever the threads do, the files are functions of the text;
- TrigramQuery: exactly the lines that hold the query;
- fetch: the words and ids of the table at one moment, and an id for each line;
- handlers: a build serves only its own files, a failed one changes nothing, a
  search sees one index;
- pool: every job runs, no thread is lost, and shutdown waits for all of them;
- server: every first request is answered, no descriptor is lost, and `listen()`
  returns once the socket is gone;
- connection: each request is read from its first byte to its last, answers keep
  the order, a close is announced, and nobody waits for somebody who waits.

## The modules

| Module | Models | State and actions |
|---|---|---|
| `ShardData` | trigrams, pairs, their order | operators only |
| `ProcessShards` | `process_shards`, `create_mapping` | one `pc` per worker; `Consolidate`, `CountPair`, `CountLast`, `Lock`, `Turn`/`Wait` (the predicate of `wait`), `Write` (one `fwrite`), `Advance` (`current_job++`), `NotifyAll`, `Unlock`, `Return`; the main thread's `FindShard`, `StartPool`, `Join`, `MapGram`, `MapDone` |
| `SequentialIndex` | what process_shards promises | sorts blocks, appends records in order |
| `CreateShards` | `create_shards`, `FlushableBuffer` | `Start` (with the wrap of `longest_line - 2`), `TakeLine` (with the bar's `add`), `PushGram`, `NextLine` (32-bit `i`), `Flush`, `Return`; the main thread's `Finish` |
| `Progress` | `Progress` | a bar as a record: `NewBar`, `Add`, `FinishBar` |
| `Shard` | `Shard`, `Mapping` | `Lock`, `Grow`, `Copy` (one element), `Publish`; `Consolidate`, `Relocate` (one mremap), `SetSize`, `Drop` |
| `ShardLog` | what a Shard promises | `Push` of a whole vector, `Consolidate` |
| `LineScan` | `compute_line_boundaries`, `get_longest_line`, `create_offsets_file` | one action per round of each loop, numbers modulo `SizeMod` |
| `TrigramIndex` | the files of an index as functions of the text | operators only |
| `IndexBuild` | `TrigramBuilder::build` up to the renames: `LineScan`, `CreateShards` and `ProcessShards` one after the other on shared variables | `ScanStep`, `StartCreation`, `CreateThread`, `FinishCreation`, `StartProcessing`, `InProcess` (the steps of `ProcessShards`), `BuildIds` |
| `TrigramQuery` | `TrigramQuery::query` as a function of five files | operators only; reads past the end included |
| `MCIndexQuery` | a search on the files of a text, with the end of `index.bin` missing or not | `Build` (the steps of `LineScan`), `Search` |
| `ContentFetch` | `request_content`; `Imported`, what `init_db` adds to the table | `SizeQuery`, `CreateContent`, `CreateIds`, `RowsQuery`, `CopyByte`, `CopyId`; `EditTable` at any moment |
| `IndexSwap` | both handlers, `build`, `replace_active_index` | one `pc` per request; each of the five renames and of the five opens is a step; `Crash`, failing steps, table edits, uploads |
| `ThreadPool` | `httplib::ThreadPool` | sets of threads as in the code, a place for each thread and for the owner; `Enqueue`, `SpawnDynamic`, `Notify`, `Sleep`, `Take`, `WaitAgain`, `TimeOut`, `Return`, `End`, `Shutdown`, `NotifyAll`, `JoinBase`, `TakeDynamic`, `JoinRest` |
| `HttpServer` | `Server::listen_internal`, `keep_alive`, `process_server_socket_core`, with `ThreadPool` and the handlers' use of `build_mutex` and descriptors | a `stage` per connection; `Accept`, `AcceptFatal`, `StopAccepting`, `Watch`, `KeepAliveEnds`, `ReadRequest`, `LockBuild`, `OpenFile`, `Respond`, `Throw`, `ThrowUnmapped`, `Close` |
| `HttpConnection` | `Server::process_request` on one connection, with `SocketStream`'s buffer, the body readers and `range_error` | three positions in a stream of units; `Receive`, `Begin`, `ReadLine`, `ReadField`, `Refuse`, `NoRoute`, `RefuseBody`, `Route`, `ReadBody`, `ReadLastChunk`, `Content`, `Handle`, each with its failure (`ReadNoLine`, `ReadNoField`, `ReadTooMuch`, `ReadBroken`, `ReadFails`); the client's `Send` and `HangUp` |
| other `MC*` | instances for TLC | values of the constants |
| `ProcessShardsProofs`, `ShardProofs`, `ContentFetchProofs`, `IndexSwapProofs`, `HttpConnectionProofs` | theorems and proofs about the module of that name | |
| `IndexBuildProofs` | those about `CreateShards`, `LineScan` and `IndexBuild`, with an instance of `ProcessShardsProofs` on the variables of the build | |
| `HttpServerProofs` | those about `ThreadPool` and `HttpServer` | |
| `DataProofs` | lemmas that several of them need: least elements, quotients, joined and flattened sequences | |

The modules form layers. `LineScan`, `CreateShards`, `Shard` and `ProcessShards`
look at one phase of a build each, thread by thread. `CreateShards` makes a push
one step, which `Shard` implementing `ShardLog` justifies. `IndexBuild` puts
three of them together: it takes `create_shards`' texts from what the scan has
found, and `process_shards`' shards from what the first pool has left, and its
`IndexExact` says that the files that come out are those that `TrigramIndex`
computes from the text. So the modules above it may take a build's files as
functions of the text: `TrigramQuery` reads them, and `IndexSwap` moves them
about. In `IndexSwap` a file *is* the text it was built from, so that a mixture
of files of two builds is visible, and a search computes its answer from the
very files it has opened. It takes a build's writing of a file as one step,
since nobody opens a `.new` file but the builds, which exclude each other (that
they do is `PromotesItsOwn`).

`HttpServer` extends `ThreadPool`: its accept loop is the pool's owner, and its
connections are the pool's jobs. It sees of a handler how long it lasts, whether
it needs `build_mutex` and how many descriptors it takes; what the handler does
is in `IndexSwap`, and what is said on the connection in `HttpConnection`. Code
that another module needs in one piece is one step there: a request is a step of
`HttpServer`, a search on given files a step of `MCIndexQuery`.

Sequences count from 1 where the code counts from 0; a definition says so where
it matters. Each module has, in a section of its own, variants of some of its
definitions with a slip that the code could have. They are no part of any
specification; put in place of the definition each makes one property fail,
which shows that the property depends on that code.

## The runs

| Run | Instance | What it shows |
|---|---|---|
| `process_shards` | 3 threads, 4 shards of 2 trigrams, 5 ways to fill them | `NoLostWakeup`; `LookupExact`: every lookup in the finished index; `WritesSequentially`: refinement of `SequentialIndex`; `Finishes` |
| `index_build` | 4 texts of 7 to 18 bytes, 3 threads, 4 shards, buffers of 1 pair | `Conserved` at every step, `Filled` between the pools, `BarCounts` for the bar they share, `IndexExact` at the end; `BuildEnds` |
| `shard` | 2 threads, 2 pushes each of 0, 1 or 3 elements, chunks of 2 | `ImplementsLog`: refinement of `ShardLog`; `WithinMapping` |
| `index_query` | all texts of 1 to 5 bytes over two letters and the newline, and all of up to 3 of 5 words; all queries of up to 4 bytes, newlines included; `index.bin` cut after any record | `LinesFound` of the scan (`BoundariesExact`, `RangesAreLines`); `AnswerExact` on a whole index, `TruncatedIndexSound` on a cut one |
| `content_fetch` | 6 successive states of the table, 2 of them imported, pages of 4 bytes | `StillExact`, `IdsBounded`, `LinesKept` (`LinesMatchIds`, `ImportedBack`) |
| `index_swap` | 2 builds of either kind, 1 search, 2 states of the table, 3 uploads; 1 crash or lost rename | `PromotesItsOwn`, `QuietSearchExact`, `FailedBuildKeepsIndex`, `SettledIndex` |
| `http_server` | 3 connections, 2 of them to `/build`, with 3 requests in all and 2 per connection; 1 to 2 threads; 4 descriptors, any number of leaks, 1 thread that cannot be created | `NoStrandedJob`, `ThreadsBounded`, `DescriptorsAccounted` (with `LeaksSpareAConnection`), `ReturnsServed` (with `Drained`); `FirstRequestAnswered`, `ListenReturns` |
| `http_connection` | 23 kinds of request followed by 5, 9 kinds of ranges with 4 ranges allowed, 2 scripts of three requests; bodies of up to 2 pieces with 1 allowed | `FramingKept`, `AnswersInOrder`, `CloseAnnounced`, `RangesSatisfied`; `NobodyWaitsForever` |
| `torn_search` | 2 builds from the database, 1 search | `DefinitelyPart` is violated |
| `lost_rename` | 1 failing rename | `RebuiltMeansServed` is violated |
| `short_word` | a table that ends with a word of 2 letters | `BuildSurvives` is violated |
| `two_snapshots` | as `content_fetch` | `FetchExact` is violated |

### Why the bounds are enough

Three threads with four shards give a worker with two jobs, workers with one, and
(in fillings with empty shards) workers with none and no job at all; two waiters
at once are what tells `notify_all` from `notify_one`. The shards' pairs come
unsorted, with one trigram or two and one line or several, so that the run count
at the end of a shard, in its middle, and of a single pair all happen. In
`index_build` a buffer of one pair overflows at the second push; worker 0 has a
line with overflow and another after it, and one text has fewer lines than there
are threads. Vectors of 0, 1 and 3 elements on chunks of 2 fit, fill a chunk
exactly, cross one boundary and cross two. Five bytes hold empty lines at the
start, at the end and in a row, with and without a last newline. Queries of 4
bytes have two trigrams, so there is an intersection, and words hold one without
the other. The table of `content_fetch` goes through states whose content ends
within a page, at its end and beyond, with empty words, with a newline in a word,
and with no rows at all. In `index_swap` two builds suffice for one to serve an
index and one to replace it, or to fail after the other has failed; a crash or a
failing rename comes before, within and after a swap, followed by a build that
completes.

In `http_server` three connections are one more than there may be threads, so a
job waits for a thread; with a base thread and a dynamic one, the dynamic one
times out, leaves and is replaced, while it is the only idle one or while the
other is notified. Two builds contend for the mutex. Four descriptors are the
listening socket, two connections and a file, so that accepting and opening both
fail. Leaks go on as long as there is a descriptor to leak: after the second,
the listening socket and one connection are all there is room for, and every
request that opens a file fails. Two requests per connection have a first and a
last. In `http_connection` the first request ends in each of the ways the code
has (after a header that cannot be parsed, with the rest of the message still to
come), and the second has no body, a sized one, a chunked one, one to be asked
for, or is no request; a third shows that the state is as good as new after the
second.

Numbers of the program (256 shards, 2^16 offsets, buffers of 2^18, chunks of
2^21, 1000 renderings of a bar, 100 requests per connection, 2^32 and 2^64) are
constants.

### Fairness

The scheduler runs threads that can run: weak fairness of the steps of each
worker and of the main thread (`IndexBuild`, `ProcessShards`), of the accepting
thread and of each thread of the pool (`HttpServer`), and of the thread of a
connection (`HttpConnection`). Acquiring the mutex of `process_shards` has strong
fairness: spurious wakeups may take it in between, but it is free again and
again, and a thread that keeps trying obtains it at last. `std::mutex` does not
promise this, the kernel's futex queue gives it in practice. For `build_mutex`
less is enough: when it is free and somebody waits for it, somebody gets it. The
steps of a handler are among those of its thread, which assumes that the database
answers or fails, as is the end of a connection that is idle for too long
(`KeepAliveEnds`); an `accept()` that finds no descriptor is tried again.

Spurious wakeups, failures, crashes, table edits, the timeouts of idle pool
threads and of reads, and whatever clients do have no fairness, nor has anything
in `IndexSwap`, `ContentFetch`, `Shard` and `MCIndexQuery`, of which only safety
is asked.

## What the code does not keep to

- **A search during a swap** (`torn_search`). `TrigramQuery` opens
  `mapping.bin`, `index.bin`, `offsets.bin`, `ids.bin` and then `content.bin`,
  and a build renames in the same order without excluding searches. The trace:
  the search has three files of the old index, four renames happen, it opens the
  new `ids.bin` and the old `content.bin`, and answers with the id of a word
  that never held the query. The README of the program promises "a list of line
  numbers where the query is definitely part". Other mixtures make the search
  read past the end of a file and may end the server.
- **A rename that fails** (`lost_rename`). `replace_active_index` makes a
  `std::runtime_error` and does not throw it; the client is told "index rebuilt".
- **A text that ends in short lines** (`short_word`). `get_longest_line` takes 1
  off the running maximum in every round (it also reports a "Longest line" that
  is too short); below 2, `longest_line - 2` wraps, the vector's constructor
  throws in a pool thread, and the server ends.
- **A table that changes during a fetch** (`two_snapshots`). The sizes and the
  rows come from two snapshots. Rows deleted in between leave zero bytes at the
  end of the content; added ones end in an exception, or in writes past the end
  of a file by one byte of content (`at` lets the index through that is equal to
  the size) and by several ids (`operator[]`). `IndexSwap` assumes that the table
  rests between the two statements, so as to ask what else can go wrong.

Found without a run of its own; the properties are stated so as to hold beside
them:

- **A newline in a word.** `request_content` copies the word as it is, with one
  id (`database.cpp:50-56`), so it makes two lines, and every line after its
  first one has the id of a later word than its own. A search takes the id at
  the line's number and answers with words that do not hold the query, unlike
  what the README of the program promises. In the table of `content_fetch` with
  the words 2, 5, 6 and 7, the third with a newline, the second half of word 6
  has the id 7. `LinesMatchIds` (in `LinesKept`) says that up to the first such
  word each line has its own id, and nothing of the lines behind it.
- **A connection after an error.** "Don't leave connections open after errors"
  says `httplib.h:13267`, and the answer gets its `Connection: close`; but the
  loop ends only if `connection_closed` is set. After a request line or header
  that cannot be parsed (14260, 14267) it is not, and these returns pass by the
  check for an unread body (14543): what is left of the message is read as the
  next request, and answered with another error. After an error of a handler the
  loop goes on as well. `FramingKept` and the second half of `AnswersInOrder`
  therefore speak of the time before the first answer that announces the end,
  `CloseAnnounced` of the last answer.

Met while modelling, and contradicting no statement of the repository that a run
could hold against it:

- After `set_size` a consolidated shard's `~Mapping` unmaps as many bytes as it
  has elements, an eighth of what it should (`WithinMapping` shows that it is
  never too much).
- The bar of `create_shards` grows when a worker comes to a line whose number is
  a multiple of the quantum. When the quantum is a multiple of the number of
  threads, all of these are lines of worker 0, and the bar shows what that worker
  has done.
- A search on an `index.bin` of no bytes leaks a descriptor
  (`MemoryMappedFile`'s constructor throws after `open`), each time. In the end
  every search and build fails with 500, a build that would mend the index
  included, until the server is restarted. It never comes to an `accept()` that
  fails for ever: a leak needs a request, a request has a connection, and when
  that is closed its descriptor is there for the next
  (`LeaksSpareAConnection`, a part of `DescriptorsAccounted`), so that first requests are still answered
  (`FirstRequestAnswered`), if only with an error.
- The read buffer of a connection is made anew for each request. What a client
  has pipelined behind a request is lost if the same `recv` has taken it
  (`AnswersInOrder` shows that the answers keep the order all the same).
- An HTTP/1.0 connection without keep-alive is closed after an answer that has a
  `Keep-Alive` header (the exception in `CloseAnnounced`).
- A `/build` with a `Range` that cannot be satisfied builds, and answers 416.
- A request that arrives while the server stops is dropped if `keep_alive` has
  looked for it before (the condition in `FirstRequestAnswered`).
- Of two connections that are accepted at once with one thread idle, the second
  waits for the first although a thread could be spawned: `idle_thread_count_`
  still has the thread that was notified. If the first is a build, that is long;
  `FirstRequestAnswered` shows that it is not for ever.
- The program's README documents `/build/` and `/search/verified`; the handlers
  are at `/build` and `/search`.

## What is proved

Every theorem below is proved for every value of the constants that the named
assumptions of the modules allow. Those ask for what the code has (positive
numbers of threads, shards, offsets and renderings; whole pages in a chunk; a
keep-alive maximum of at least one, which `httplib.h:6543` asserts; at least the
descriptors of the listening socket and one connection; a `NoBuilder` that is no
build) and for inputs that are of their kind: texts whose line numbers fit their
field (`CreateShardsAssumption`), texts of at least one byte and shorter than
`SizeMod` (`IndexBuildAssumption`), shards that hold each pair once
(`ProcessShardsAssumption`; in a build, `Filled` shows that they do), rows whose
words are made of bytes (`ContentFetchAssumption`), messages with a body only if
one is framed and with ranges as `parse_range_header` lets them through
(`ConnectionAssumption`).

| Module | Invariants | Other properties |
|---|---|---|
| `CreateShards` | `TypeOK`, `Conserved`, `Filled`, `BarCounts` | |
| `Shard` | `TypeOK`, `WithinMapping` | `ImplementsLog`: refinement of `ShardLog` |
| `ProcessShards` | `TypeOK`, `NoLostWakeup`, `LookupExact` | `WritesSequentially`: refinement of `SequentialIndex` |
| `LineScan` | `TypeOK`, `LinesFound` | |
| `IndexBuild` | `BuildTypeOK`, `IndexExact`; in a build, too, `LinesFound`, `Conserved`, `Filled`, `BarCounts` | |
| `ContentFetch` | `TypeOK`, `StillExact`, `IdsBounded` | |
| `IndexSwap` | `TypeOK`, `PromotesItsOwn`, `SettledIndex`, `QuietSearchOneIndex` | `FailedBuildKeepsIndex` |
| `ThreadPool` in `HttpServer` | `NoStrandedJob`, `ThreadsBounded` | |
| `HttpServer` | `TypeOK`, `DescriptorsAccounted`, `ReturnsServed` | |
| `HttpConnection` | `TypeOK`, `FramingKept`, `AnswersInOrder`, `CloseAnnounced`, `RangesSatisfied` | |

Each follows from an inductive invariant, which TLC has found to hold in the
module's run: a named part for each relation that a step needs, a lemma for each
part that says that every step preserves it, and under it a step of the proof for
each action. What the properties do not say and their proofs need is this.

**CreateShards** (`CreateInv`). `Conserved` counts occurrences, but what a step
preserves is that nothing is twice: `Holds` says that a shard is without
repetition, that so is each buffer still to be pushed into it and shares nothing
with it, and that together they hold just the pairs their workers have come past.
It has three lemmas of its own, about a pair that comes into a buffer
(`PairAdded`), a buffer that moves to the shard (`BufferMoved`), and what a worker
has come past (`HandledSame`, `HandledPushed`: only `PushGram` changes it, since a
line starts with all its trigrams left and no line of a worker is skipped). That
in turn needs `Going`: the line of worker w is w modulo the number of threads,
what is left of a line is ascending (so the pair just pushed does not come again),
and a worker flushes only after all its lines. `BarInStep` says what the bar drew
last, and that its next drawing is at most a quantum away. `Conserved` follows
with `SumOfOne`: a pair's line belongs to one worker, so all terms but one of the
sum are zero.

**Shard** (`ShardInv`). Who is at `grow` or `copy` holds `grow_mutex` (`Alone`);
what it copies goes beyond `_size`, and the elements copied so far are in their
places (`Pushing`); the chunks have room for what is copied, and the mapping for
what is read (`Room`); consolidation comes after the last push (`Consolidating`);
what is mapped are the chunks, the mapping, or at first both (`Memory`). The
refinement maps the log to the elements below `_size`: `Publish` appends the
vector that `Pushing` has in its places, and every other step leaves the elements
where they are or, when a chunk is moved, where the mapping shows them.

**ProcessShards** (`IInv`). `NoLostWakeup` is inductive beside the types. The
order of the file needs to know who is inside the mutex (`Locked`), that no two
workers have the same job (`Turns`: of two workers the lower is in the same round
of jobs as the other or one ahead), which shards are sorted already (`Blocks`),
that the main thread has listed the non-empty shards in ascending order
(`Listed`), and where the file ends (`FileEnd`). `Write` appends the record that
`FileEnd` and `Listed` make the next one, `Consolidate` sorts a block that `Blocks`
says is not yet sorted, and everything else leaves both unchanged.

`LookupExact` speaks of sums of counts, but no sum occurs in its proof
(`LookupInv`). `FileInv`: the records stand in the order of shard and place, each
behind all earlier ones of its block, and none before the last is missing. The
blocks are sorted, so the pairs of a trigram among the first n of a block are one
run; `CountsInv` says that the count in the mapping, or the worker's own count for
the trigram it is at, is the length of that run. When the pool has ended (`Ended`,
for which the job whose turn it is must be some worker's) every block is in the
file, so the records of a trigram are one stretch as long as its count
(`Stretch`). `Mapped` follows `create_mapping` through the trigrams:
`total_count` is where the records of trigrams below `loop` end, which is where the
next stretch begins.

**LineScan** (`ScanInv`, in `IndexBuildProofs`). The boundaries after the first are
the newlines of the bytes read so far, in ascending order (`Lists`, `Ascends`), at
the end of the scan with the size behind them (`Scanned`). So the unsigned
difference of two neighbours is at least 1, the first one, whose right side is -1,
wraps to a number that is, and the 1 that `get_longest_line` takes off does not
wrap. `Copying` says how far the offsets are written. `LinesFound` needs besides
that no newline lies between two neighbours (`NoneBetween`).

**IndexBuild** (`BuildInv`). By `step`: during the scan only `ScanInv` moves; then
`document` has the trigrams of the lines of the text and `CreateInv` holds; from
`StartProcessing` on, `LookupInv` of process_shards, whose assumption about the
shards `Filled` meets. The steps of the three modules keep their invariants, so
what is left is what they hand over. For `IndexExact` the boundaries that
`TrigramIndex` computes are those of the scan (`SameBoundaries`: two ascending
lists of one set), so the shards hold a pair for each trigram of each line
(`ShardsHaveLines`), sorted by line, and a lookup is the ascending list of the
lines with the trigram (`LookupIsPostings`). `index.bin.new` is then a file of
stretches, one for each trigram in ascending order, and such a file is the
postings one after the other: `StretchesJoined`, with which `IndexFileExact` follows
for all trigrams and `MappingFileExact` for those below a given one.

**ContentFetch** (`FetchInv`). `Copied` says what is left of the rows and of the
present word, and that up to the offsets the files hold what the table held, where
`Place` is where each row begins in the text (with `FlattenPlaces`). If the sizes
and the rows come from one state of the table, the octets and one byte per word
are the size of that text (`Reckoned`), so no write is past an end and both files
are exact at the return. `IdsBounded` holds for any two states, as the content
offset, which `at` checks, grows with each id.

**IndexSwap** (`SwapInv`). The build that holds the mutex is the one at work, and
before it renames its step is the first (`Exclusive`); what it has fetched
(`Fetched`) and written (`Written`) are files of its own text; of the files it
renames, those to come are still there and those before are in place (`Swapping`).
Until then the active files are those it found (`Untouched`), which gives
`FailedBuildKeepsIndex`. A search has opened the files up to its step (`Reading`),
and, if no swap disturbed it, they are the active ones, which are one index
(`Undisturbed`). `QuietSearchOneIndex` is what is proved of its answer: it is one
that `query()` gives on the files of one index. That such an answer is exact,
the other half of `QuietSearchExact`, is what `AnswerExact` checks in `index_query`.

**ThreadPool and HttpServer** (`PoolInv`, `ServerInv`). `idle_thread_count_` is the
number of threads that wait (`IdleCounted`); a thread has a job exactly while it
runs (`RunsJob`); every thread is in one of the lists and in one only (`Listed`);
the owner's place says which lists are empty and whether `shutdown_` is set
(`Phases`); base threads leave only when no job is left (`LeftLast`). With these
`NoStrandedJob` is inductive: `enqueue` spawns or notifies, a thread that times out
was not the last to be counted on, and one that ends its job looks at the queue
again. The server adds that an accepted connection is queued or served
(`Attended`), that no one is accepted once the socket is closed (`SocketClosed`), and
that a connection which goes on has a request left (`Remaining`). The accounting of
descriptors is stated with the set of open files (`OpenFiles`), so that it is
proved with the lemmas about the cardinality of a set. `LeaksSpareAConnection`
follows from it at the one step that leaks: the listening socket and the
connection of the request are open beside what is leaked (`LeakCounted`).

**HttpConnection** (`ConnectionInv`). The stream is the messages' units joined, and
`Start` says where each begins. `Position` says where in its message the parser
stands at each stage, `Passed` that messages with answers lie behind it, and
`InStep` that, as long as no answer has announced the end and the client sends
nothing early, the server reads the first message without an answer and nothing of
a later one has come. Then the units that are left at the end of a message are
none, and `FramingKept` follows; a request that is refused early leaves a body
behind, and its answer is one that announces the end. `AnswersInOrder` goes on
after such an answer: what is read then is behind every message with an answer
(`Passed`), wherever in a message that is. For `RangesSatisfied` a range that
`range_error` cuts is the interval of the bytes it selects (`RangesChecked`).

**Induction over data.** The provers cannot use the library's induction
theorems, whose hypothesis is an operator. Where a proof needs to know what a
fold computes (`FlattenSeq` for the connection's stream, the fetched text and
the file of postings, `SumFunction` for `Conserved`), it takes the least
counterexample instead (`Least` in `DataProofs`, from the well-foundedness of
`<` on the naturals), shows that the function which the definition chooses
exists, and that there is only one.

### Only model-checked

- `AnswerExact`, `TruncatedIndexSound`, `LinesKept`, and of `QuietSearchExact` that the
  answer on one index is the truth: what the recursive functions of a query
  compute (`Intersection`, `LineOptions`), and `SelectSeq` and `SetToSortSeq`, which
  tlapm does not expand. (Where the builder's model needs a sorted list it is
  `Ascending` of `TrigramIndex`, by counting, of which `AscendingIs` and
  `AscendingLists` are proved.)
- Liveness (`Finishes`, `BuildEnds`, `FirstRequestAnswered`, `ListenReturns`,
  `NobodyWaitsForever`): TLAPS does not reason about fairness or ENABLED here.

## What is not modelled

- Most of `httplib.h`, a vendored header of 22821 lines: its client, TLS,
  WebSocket, file serving, compression and event streams are never executed by
  this program. So the mapped share of all lines is small,
  although the program's own files are mapped almost throughout. Of the server's
  own path, two branches cannot be reached here and are left out: answers with
  parts of a body (206), since both handlers set the status themselves, and the
  draining of a body that a handler has not read, since requests with handlers
  have their bodies read first. Of multipart bodies, content codings and
  url-encoded forms there are the outcomes (`form`), not the parsing. A piece of
  a body is never a request line by itself: read as one it is answered with 400.
  A `Content-Length` that is no number, names and
  values of headers, and the decoding of targets are data that no property tells
  apart. `stop()` is called by nobody; the server stops by a fatal error of
  `accept()`.
- `Progress::update`, which loops of one thread call, and what is printed.
- `init_db`'s command line and connection; the transaction is one step.
- `query_with_results`, which nothing calls.
- The default-constructed `TrigramQuery::content`, whose destructor passes an
  uninitialised pointer and size to `munmap`: what it unmaps depends on the stack.
- `fopen` that fails in `process_shards`; partially written `.new` files other
  than `index.bin` (in `MCIndexQuery`) and those of a fetch that breaks off, which
  are zeros in `IndexSwap`.
- Texts of 2^32 lines or more (`CreateShardsAssumption`).
- `Makefile`, `Dockerfile` and `docker-compose.yaml`.

## Plan

1. *Core (done)*: `ProcessShards` with its proofs, `CreateShards`, `Shard`,
   `LineScan`, `TrigramQuery`, `ContentFetch`, `IndexSwap`.
2. *Model (done)*: `IndexBuild`, which composes line scan, create_shards and
   process_shards; `ThreadPool`, `HttpServer` and `HttpConnection`; `Progress`;
   imports by `init_db` and words with newlines; an `index.bin` that was not
   written to its end.
3. *Prove (done)*: create_shards, the shard and its refinement, process_shards with
   its refinement and `LookupExact`, the handlers and the swap, the pool and the
   server, the connection; the line scan, the fetch, and `IndexBuild`: that the
   build's files are functions of its text.
4. *Left*: `AnswerExact` for every text and query. It needs `TrigramQuery` without
   `SelectSeq` and what its recursive functions compute; then `QuietSearchExact` would
   follow from `QuietSearchesReadOneIndex`. `LinesKept` needs the same for the lines
   that `init_db` cuts.
