# Verification of my_redis

my_redis is a small key-value server in C++: one process, one thread, a `poll`
loop, a hash table of entries (strings and sorted sets), a heap of
expirations, and a command-line client. This directory holds TLA+ models of it,
TLC configurations, and proofs checked by TLAPS. The repository has no written
documentation; what the code is meant to do is taken from its comments, names
and tests.

## 1. Inventory

| Component | Source | State | Operations |
|---|---|---|---|
| Event loop and connections | `src/server/MRD_server.cpp` (`main_loop`, `handle_*`, `conn_destroy`, `process_timers`, `next_timer_ms`) | `fd2conn`, `Conn` objects with buffers and `want_*` flags, `idle_list`, `is_running`, `errno` | one iteration: build the poll set, poll, accept, serve each ready connection, timers |
| Commands and entries | `MRD_server.cpp` (`do_request`, `do_*`, `entry_*`) | `g_data`, `Entry` objects, `ttl_heap` | GET SET DEL ZADD ZREM ZQUERYGE ZQUERYLE ZRANK ZCOUNT EXPIRE TTL ECHO SDIE, expiry, `end_run` |
| TTL heap | `src/shared/src/MRD_heap.cpp` | the vector, and `heap_idx` inside each entry | `upsert`, `update`, `up`, `down`, `erase` |
| Hash table | `src/shared/src/MRD_hashtable.cpp` | tables `newer` and `older`, `migrate_pos` | `insert`, `lookup`, `erase`, `foreach`, `clear`, `help_rehashing`, `trigger_rehashing` |
| Intrusive list | `src/shared/src/MRD_DList.cpp` | `next`, `prev` | `detach`, `insert_before`, `empty` |
| Sorted set | `src/shared/src/MRD_zset.cpp` | an AVL tree and a hash map over the same nodes | `insert`, `update`, `rem`, `rank`, `seekge`, `seekle`, copies, destructor |
| AVL tree | `src/shared/src/MRD_avl.cpp` | `parent`, `left`, `right`, `height`, `count` | `fix`, `del`, `successor`, `predscessor`, `offset`, `rank` |
| Byte buffer | `src/shared/include/MRD_buffer.h` | `buffer_begin/end`, `data_begin/end`, `data_length` | `append`, `consume`, `resize` |
| Protocol | `MRD_server.cpp` (`parse_req`, `response_*`), `src/shared/include/MRD_utility.h` | none of its own | parsing a request, encoding a response |
| Client | `src/client/client.cpp` | a socket | read a line, send, receive, print |

How they interact. `main_loop` calls everything: a read appends to a
connection's `incoming`, `try_one_request` turns complete requests into calls
of `do_request`, which appends the response to `outgoing`; `handle_write` sends
what the socket takes. An `Entry` is reached in two ways: from `g_data` through
its embedded hash node, and from `ttl_heap` through a pointer to its
`heap_idx`. A `Conn` is reached from `fd2conn` and from `idle_list` through its
embedded list node. All of these back pointers have to be kept right by hand.

What is hard, and hence what the properties are about:

* the moment at which things happen: the kernel and the clients move between
  any two system calls, responses are cut where the socket buffer is full,
  requests are pipelined, connections are reset, descriptors reused;
* two ways to the same object: an entry or a connection that is deleted must
  disappear from both structures;
* work spread over many calls: a migration of the hash table is half done most
  of the time; `process_timers` deletes at most `MAX_WORKS` entries at a time;
* pointers into memory that moves: `response_end` and `out_end_arr` count back
  from the end of a buffer that appends may have compacted or replaced;
* numbers that summarise a structure: heights and counts of the AVL tree are
  kept by hand through rotations, and `rank`, `offset` and the queries trust
  them;
* time: the poll timeout must cover the first idle connection and the first
  expiry, and idle connections are only found if the list is in order;
* error paths that no test reaches: EAGAIN, EPIPE, EINTR, EMFILE, exceptions of
  `stod`, indices of -1.

There is no persistence, and no second thread: nothing is said about recovery
or data races. PROJECT.json lists each hazard with its line.

## 2. Modules

| Module | Models | Used by |
|---|---|---|
| `TtlTable` | abstract: at most one deadline per entry; requests set and remove them, timers take only overdue ones, the earliest first | `TtlHeap` |
| `TtlHeap`, `TtlHeapProofs` | `MRD_heap.cpp` with `entry_set_ttl` and the expiry loop as callers | |
| `NodeSet` | abstract: a set of nodes with insert, erase, lookup, clear | `HashMap` |
| `HashMap`, `HashMapProofs` | `MRD_hashtable.cpp` | |
| `DList` | `MRD_DList.cpp`, as operators on the links of all nodes, with the memory each touches | `EventLoop` |
| `EventLoop`, `EventLoopProofs` | `main_loop` and its handlers, the sockets, the clients, the clock | |
| `ExpiringMap` | abstract: a map whose keys may expire; what requests are answered, and what only timers may remove | `Keyspace` |
| `Keyspace`, `KeyspaceProofs` | the commands, entries, expiry and shutdown | |
| `AvlTree`, `AvlTreeProofs` | `MRD_avl.cpp`, as operators on the links of all nodes | `ZSet` |
| `ZSet`, `ZSetProofs` | `MRD_zset.cpp`, and what the server's queries find in a set | |
| `Buffer` | `MRD_buffer.h`, as operators on a buffer and its memory | `Protocol` |
| `Protocol` | `MRD_utility.h` (`out_*`, `read_*`), `parse_req`, `response_*`, `print_response` | `Session` |
| `Session`, `SessionProofs` | `client.cpp` and its connection in the server, byte by byte; the proofs are those about `Buffer` and `Protocol` too | |
| `SequenceLemmas` | lemmas about sequences (concatenation, removal, flattening), recursive functions and induction | `HashMapProofs`, `EventLoopProofs`, `AvlTreeProofs`, `ZSetProofs`, `SessionProofs` |
| `MC*` | instances for TLC | |

Definitions keep the names of the functions they model; a definition
`Mut_X`, next to `X`, is `X` with a plausible mistake, used to see that a
property notices it.

**TtlHeap.** The vector is a function on `0 .. size-1`; `heap_idx` is one value
per entry. `SetTtl` and `ClearTtl` are `entry_set_ttl` with a lifetime and without
one; `TimersBegin`, `ExpireTop` and `TimersEnd` are `process_timers` with the rounds
of its second loop. The code removes an item by the same `HeapItem::erase` for a
request and for the timers; `caller` tells them apart, and no request is served
between `TimersBegin` and `TimersEnd`, so `TtlTable` can say that what goes in that
time is overdue by the clock and the earliest of all, although the code compares with
the time it read at the beginning (`tnow`). The loop may end after any round here;
`Keyspace` counts them (`MAX_WORKS`). A round of `up` or `down` is a step, so the
arrays in the middle of a loop, where the item in hand is nowhere in the vector and
another is there twice, are states too. The clock may tick in between.

**HashMap.** A table is its mask, its counter, whether it is allocated, and a
chain per slot. `Insert` and `Erase` go as far as their call of
`help_rehashing`; `MigrateStep` and `SkipStep` are its rounds; `InsertDone` and
`EraseDone` are what follows. Two oddities of the code are kept: the condition
that should free an emptied older table can never hold (`Cleaned`), and the
assignment that should move the newer table swaps the two, so the next mask is
computed from the other table (`trigger_rehashing`).

**EventLoop.** The steps of the server are its system calls and the rounds of
its loops: `PollBegin` (poll set, timeout), `PollReturn`, `PollEintr`, `PollFails`
(any other error ends the server), `Accept`, `StartConn` (moves the connection in
the idle list), `HandleRead`, `TryOneRequest`, `RequestsDone` (the end of
`handle_read`, which calls `handle_write`), `HandleWrite`, `EndConn`, `IdleTimer`,
`TtlTimer`, `EndRun`.
Clients connect, send half a request at a time, receive, close and are reset.
A byte stream is a sequence of units, a request two of them; the store is one
key with a deadline. `errno` keeps the last failed call's value, as it does in
C. A step that goes through the memory of a deleted `Conn` sets `status` to
`"ub"`; writing to a connection that was reset may set it to `"killed"`
(SIGPIPE is not ignored).

**Keyspace.** `g_data` maps keys to entry objects (what `NodeSet` promises of
`HashMap`) and `deadline` gives the item of an object in `ttl_heap` (what
`TtlTable` promises of `TtlHeap`); memory is a set `Obj` of which entries are
taken and given back, so a dangling pointer is a `deadline` or a `g_data` value
of an object that is free. Each command has all of its error paths. A number in
a request is what `stod`, `stol` or `stoi` make of it. Sorted sets are their
member names; what queries list and the number ZRANK gives are in `ZSet`.
`ExpiringMap` sees the map, the expiries, the clock, the last answer (`reply`) and
whose turn it is (`pc`). An answer that acknowledges an update names the command and
the key whose effect it must be; any other answer goes with no change at all, and
what it says (not found, the string of GET, the expiry of TTL) must be so. In the
turn of the timers the only thing that may happen to the map is that its earliest key
goes, after its expiry.

**AvlTree, ZSet.** A tree is a record of functions (`parent`, `left`, `right`,
`height`, `count`) and a root; each function of `MRD_avl.cpp` is an operator of
the same name from trees to trees, pointer for pointer. A loop is a function that
makes one round of its state (`FixRound`, `WalkRound`, `Branch`) and leaves it alone
once the loop has ended, and `Iterate` makes as many rounds as it can take:
`PathBound` on a path up or down, which has no more nodes than there are, twice as
many for `offset`, which goes up and then down. That this is enough is proved. A `ZNode` is identified by its name, a number here. The actions of
`ZSet` are `insert` (which is `update` for a name that is there), `rem`,
`Destroy` and `Assign`, the set replaced by a copy of itself, which rebuilds the
tree parents first and swaps it in. The hash map is the set of nodes that
`HashMap` was shown to implement. The seeks, `offset`, the loops of the three
queries and `rank` are state functions. Which names and scores clients insert is
chosen at the start of a behaviour from a few alternatives (`input`), so that
one run has large trees, ties and a score that is not a number without the
product of the three.

**Buffer, Protocol, Session.** Pointers are offsets, so a write outside the
memory, or through a pointer into memory that was replaced, is visible: it sets
`broken`. A byte is a digit to a small base, a `uint32_t` two of them, a double
two; `MAX_MSG` is eleven. All lengths, tags and counts are computed as in the code,
byte counts that are returned and used later included. `Session` puts the
client's `send_req` and `read_res` on one side of two byte streams and
`handle_read`, `try_one_request` (one round of the loop), the end of
`handle_read` with its write, and the later writes of `main_loop` on the other.
A read takes any number of the bytes that have arrived, a write any number of
those in `outgoing`. What a command answers is any of a set of values of every
kind. `EventLoop` models the same handlers for many connections, errors and
time, with units instead of bytes; `Session` has one connection that does not
fail and every byte.

## 3. Runs

| Run | Checks | Result |
|---|---|---|
| `heap` | `TypeOK`, `IndexInverse`, `RootIsEarliest`, `IInv`, `ImplementsTtlTable`, `LoopsAdvance` | hold |
| `hashmap` | `IInv` (with `TypeOK`), `MigrateInBounds`, `MembersFound`, `ForeachVisitsOnce`, `ImplementsNodeSet`, `CallsEnd` | hold |
| `hashmap_load` | `LoadBounded` | violated: after its first migration the map never grows again |
| `loop_serve` | `TypeOK`, `WaitsForOneThing`, `FdTableSound`, `AnswersInOrder` | hold |
| `loop_one` | `MemorySafe`, `NoRequestLeftBehind`, `RequestsAnswered` | hold, with one connection at a time |
| `loop_use_after_free` | `MemorySafe` with three connections | violated: the idle list leads to a deleted `Conn` |
| `loop_slow_reader` | `KeepsGoodClients` | violated: EAGAIN closes the connection |
| `keys` | `TypeOK`, `EntriesOwned`, `TagMatchesVariant`, `OverdueOnlyWhenBusy`, `ImplementsExpiringMap` | hold |
| `zset` | `TypeOK`, `IndexesAgree`, `Balanced`, `InOrder`, `OffsetWalks`, `QueriesMatch` | hold |
| `zset_rank` | `RankIsPlace` | violated: ZRANK is too small for members whose path from the root turns |
| `session` | `TypeOK`, `RequestsIntact`, `ResponsesIntact`, `CommandUnderstood`, `AnswerPrinted`, `NobodyStalls` | hold, with responses of up to `MAX_MSG` |
| `long_response` | `AnswerPrinted` with a response above `MAX_MSG` | violated: the client gets another error than the one made for it, and earlier responses are lost |

The idle list is the weak part of the server. `main_loop` passes the arguments
of `insert_before` in the opposite order from `handle_accept`
(`MRD_server.cpp:353`), so it puts the head of the list where the stale links of the
connection lead. With one connection the two orders give the same list, hence
`MemorySafe` in `loop_one`. With three, a deleted connection is used
(`loop_use_after_free`). Two are enough to break what the list is for:

* `IdleListComplete`: once both have been served, one of them cannot be reached from
  the head of the list;
* `IdleConnsClosed`: the one just served stays in front of the other, which has been
  idle for too long, and `process_timers` looks at the front only;
* `WakesForTtl`: with the other one gone the head is left alone in its list although
  the first is still connected, `next_timer_ms` returns -1 (`:57`), and poll sleeps past
  the deadline of an entry. Expired entries then stay until something else wakes poll,
  and the request that does is answered from them; so nothing is said of their being
  removed in the end.

These three are stated in `EventLoop` but have no runs of their own, because their
counterexamples have the cause of the one above. To see them, give
`MCEventLoopUseAfterFree.cfg` the bounds `MaxConn = 2`, `MaxFd = 2`, `MaxTime = 2`,
`DEFAULT_TTL_MS = 1`, `Kinds = {"set"}`, `Faults = {"fin"}` and the invariant. With the
arguments in the order of `handle_accept` (in `MoveIdle`) all three and `MemorySafe`
hold with these bounds, and `MemorySafe` with those of the run.

The tree and the byte level are sound where the code is used within its limits.
`rank` is the exception in the tree: it stops climbing at the first ancestor
reached from a left child (`MRD_avl.cpp:113`), so in a tree whose root has a
right child with a left child, that grandchild has rank 1. The test only asks
for the first and the last rank. `response_end` is the one in the protocol: when
a response is too long it replaces the buffer's contents by an error, then takes
the place of the length field from the size of the response that is gone
(`MRD_server.cpp:211`), concludes that something else is wrong, replaces the
error by another, and writes the length through the wrong pointer.

### Bounds

* `heap`: six entries are the fewest for which `erase` can move the last item
  into a place from which it must rise; three lifetimes give ties and both
  orders, and a clock of 0..2 lets items expire. Entries are interchangeable,
  so they are a symmetry set (all properties of this run are safety properties).
* `hashmap`: five nodes with `k_max_load_factor = 1` start a migration at the
  fourth node and leave room for operations during it; `k_rehashing_work = 1`
  makes it last; the hash codes collide in one slot and leave another empty.
  The code's own values (8 and 128) only make the same stages longer.
* `loop_serve`: two clients, two requests each, and a socket that holds one
  response: requests get pipelined, writes are cut, connections are closed and
  reset at any moment, and descriptors are reused.
  The clock stands still, as none of its properties is about time.
* `loop_one`: one descriptor, two connections one after the other, two requests
  each, good, malformed or SDIE, polls that are interrupted or fail, a clock of 0..2 with an idle
  time and a lifetime of 1: connections become idle, and entries expire before
  and after they do. The second client finds no descriptor until the first one
  is gone.
* `keys`: two keys and two objects, one value and one name, a clock of 0..2,
  `MAX_WORKS = 1`: entries expire together and have to wait for the next round.
* `zset`: eleven names with one score, so that only names order them, give trees of
  height four with every rotation, and deletions whose successor rotations have moved;
  five names with three scores give ties
  and updates that move a node past others; five names one of which may be NaN.
  All orders of insertion, removal, copying and destroying of these. One deletion that
  rotates at two levels takes twelve names (the thinnest tree of height five); that is
  left to the proofs, which are for every number of names.
* `session`: a buffer starts with 6 bytes, which is less than most messages, so
  it is compacted, and replaced, in every state of filling; three requests in
  flight overlap in reads and writes. The requests include an empty word, one
  longer than `MAX_MSG` and one with too many words (of exactly `MAX_MSG` bytes);
  the answers one of each kind, a string longer than a buffer, and an array of
  exactly `MAX_MSG` bytes.
* The violation runs have the smallest bounds that show the counterexample.

`CHECK_DEADLOCK FALSE` is used for `EventLoop`, `Keyspace` and `Session`, where
the server may end and clients have a last request; the heap, the hash table and
the sorted set are checked for deadlock.

### Fairness

* `HashMap!FairSpec`: the thread goes on with the call it is in.
* `EventLoop!FairSpec`: the server's thread runs, signals do not interrupt every
  poll that has something to report (strong fairness of `PollReturn`), and
  clients take what was sent to them. Nothing is assumed of sending, closing or time. A response may
  still be missing because the connection was given up (that is what
  `loop_slow_reader` is about) or the server ended: `RequestsAnswered` says so.
* `Session` states no fairness. That client and server do not wait for each
  other is an invariant there (`NobodyStalls`): in every state in which a
  response is missing, one of the two has something to do that moves bytes on.
  Liveness under fairness is checked in `EventLoop`, with units for bytes.
* `Keyspace` states none either. `process_timers` need not come: poll may sleep for
  ever (section 3), and then expired entries stay.

## 4. Proofs

TLAPS proves the following for every value of the constants.

**TtlHeapProofs** (any set of entries, any lifetimes in Nat, any clock bound;
assumptions `TtlAssumption`, `NilAssumption`, `MaxTimeAssumption`). The
properties a caller sees hold between operations only; the inductive invariant
`IInv` says what holds during them. `Shown` is the vector with the item in hand
put where the loop is: `RefInv` says that each entry has at most one item in it
and that `heap_idx` is right except at that place, `OrderInv` that parents are
not later than their children except around that place, where the children are
not earlier than the grandparent (without which a round of `down` or `up` could
not be shown to repair the order). One lemma per action shows that `IInv` is
kept and how the deadlines change. From it: `HeapInvariant`, `HeapTypeOK`,
`HeapIndexInverse`, `HeapRootIsEarliest` (by well-ordering: an item earlier
than the root at the least position contradicts its parent), `HeapLoopsAdvance`
(the loops of `up` and `down` end) and `HeapRefinesTable` (each step of the
heap is a step of `TtlTable`, or none: an item that `ExpireTop` takes out is the
root's, which no other precedes, and what is before `tnow` is before the clock).

**KeyspaceProofs** (any keys, values, names, objects and lifetimes, any
`MAX_WORKS` above 0). `IInv` is the conjunction of `TypeOK`, `EntriesOwned`,
`TagMatchesVariant` and `OverdueOnlyWhenBusy`: none is inductive alone, since
`entry_del` frees the right key only because of `EntriesOwned`, and a set
command reads `val.v` as a set only because of `TagMatchesVariant`. Lemmas say
what creating, replacing, deleting an entry and changing its expiry do to the
three structures; every command is one of these. `OverdueOnlyWhenBusy` needs
that a heap with an overdue item has an overdue earliest one (`TopExists`, by
well-ordering of the deadlines). From it: `KeyspaceTypeOK`, `KeyspaceOwned`,
`KeyspaceTags`, `KeyspaceOverdue`, and `KeyspaceRefinesMap`: each step is a step
of `ExpiringMap`, or none. The map of a key is the value of its entry and its
expiry the entry's item in the heap (`map`, `expiry`); because two keys never
share an entry (`OtherObject`, from `EntriesOwned`), a command changes the map at
its own key only (`OneKeyChanges`), and because the root of the heap is the
earliest of all items, a key that `process_timers` drops is the earliest of all
keys and has expired by the clock, although `process_timers` looks at the time it
read before. Each branch of each command is matched with its answer
(`CommandRefines`): the branches that acknowledge an update are that update of that
key, all others leave the store alone and answer the truth (`QueryFacts`,
`ErrorQuery`), or end the server without an answer.

**HashMapProofs** (any nodes, hash codes in Nat, `k_rehashing_work` and
`k_max_load_factor` above 0). `IInv` says of each table that its nodes hang in the
slot their hash code selects, that no node hangs there twice and that `size`
counts them (`TabInv`), and of the pair that no node is in both tables, that the
newer one is allocated whenever the older one is, and that the slots of the older
one before `migrate_pos` are empty. The last part is what a round of
`help_rehashing` needs: with `size` above 0 there is a node at or behind
`migrate_pos`, so the skipping loop ends within the table (`HashMapInBounds`).
One lemma per step says what it does to the set of members; from them:
`HashMapInvariant`, `HashMapMembersFound` (`lookup` and `size` in the middle of a
migration), `HashMapForeach` (the flattened chains of both tables have no
repetition and contain the members) and `HashMapRefinesNodeSet`.

**EventLoopProofs** (any number of connections, descriptors, requests, faults and
interrupted polls, any socket buffer size and times; the assumptions of `EventLoop`). `IInv`
has four parts, each inductive relative to those before it:

* `TypeOK`;
* `TableInv`: `FdTableSound`, and that every pending event belongs to a
  descriptor of the table until it has been looked at; without it nothing says
  that the connection `main_loop` takes for an event is the one poll reported it
  for, since the loop destroys connections and `accept` reuses their descriptors;
* `WaitInv`: `WaitsForOneThing` and `NoRequestLeftBehind` of the connections that
  are not being served, and for the one that is, what holds of its flags and its
  buffer at each point of the loop (`ServedAt`);
* `StreamInv`: for every connection, the answers received, in the socket and in
  `outgoing` are together the right answers to the first requests asked
  (`Matches`), and the units in `incoming` and in the socket are the halves of
  exactly the requests after those (`Streams`), up to the first malformed one.
  `AnswersInOrder` only speaks of what a client has received; it is kept by a
  write because what was in `outgoing` was right, by an answer because the
  request at the front of `incoming` is the one after those answered, and by a
  read because the streams agree.

From it: `EventLoopTypes`, `EventLoopFdTable`, `EventLoopWaits`,
`EventLoopNoneLeft`, `EventLoopAnswers`. Nothing is proved of the idle list: what
should hold of it does not (section 3).

**SequenceLemmas**. The library's induction theorems take an operator as a
parameter and cannot be instantiated here, so inductions are over sets: a set of
numbers that holds 0 and with every number the next one holds all of them up to
n (`UpToInduction`, from `LeastNat`: a least number outside is refuted). A
recursive function is shown to exist by the same means (`RecursionUpTo`,
`RecursionNat`): functions that obey the equation up to k exist for every k and
agree, and their diagonal is the function. On this rest `FlattenExists` and the
laws of `FlattenSeq` that the proofs need: what it gives for disjoint sequences
without repetitions (`FlattenDistinct`), for one sequence more at either end
(`FlattenAppend`, `FlattenCons`) and for a prefix (`FlattenSplit`).

**SessionProofs: Buffer** (any bytes, buffers and data of any size; assumption
`JunkAssumption`). `BufferOK` says that the pointers are in order and within the
memory, that `data_length` is their distance and that nothing was written
outside; `Data` is what a user of the buffer sees. `AppendIsEnqueue`: from a
buffer with `BufferOK`, `append` leads to one whose `Data` is the old one followed
by the new bytes. Its lemmas follow the code: moving the data to any memory that
is large enough keeps it (`MovedOK`), hence so do `resize`, compaction and the
two tests of `append`, after which there is room behind the data (`GrowOK`).
`ConsumeIsDequeue`: `consume` of at most what is there takes it from the front.
`NewIsEmpty`: the constructor. The writes through pointers that callers keep
are the matter of the next part.

**SessionProofs: Protocol** (any base above the largest tag, any widths `W` and `D`, any
`MAX_MSG` whose lengths fit in `W` digits, any `MAX_CMDS`, buffers of any size;
assumptions `JunkAssumption`, `ByteAssumption`, `LengthAssumption`). What is written
is compared with the documented format (`Encoded`, `Content`), and what is read with
what was written.

* `NumberRoundTrip`: digits written with a width that the number fits in are read
  back as the number. The recursive functions of `Shift` and `Number` are shown to
  exist first.
* `RespondAppends`: `Added(b, c, s)` says that `c` is a sound buffer with the data
  of `b` followed by `s`. Every `out_*` function adds its encoding and returns its
  length; hence `len_ptr`, computed from `data_end` after everything was appended,
  is the place that `response_begin` reserved, wherever the data has moved to in
  between, and so is the place `out_end_arr` counts back to.
* `RequestUnderstood`: after k rounds `parse_req` has the first k words and stands
  behind their encodings (induction over k), and behind the last one nothing is
  left.
* `ResponseUnderstood`: `print_response` calls itself on the bytes behind those it
  has read, so the function of its calls is shown to exist from the last byte
  down; then the loop over an array is followed as that of `parse_req`. The
  theorem covers errors and nil, which `print_response` counts wrongly
  (section 5), as whole responses, and strings and doubles as elements.

**SessionProofs: Session** (any commands, replies, buffer sizes and numbers of requests;
moreover `SizeAssumption`, `WordAssumption`, `ReplyAssumption`). The bytes of each
direction are a stream of frames, a frame being a length and a message. `ReqInv`
says that the data of `incoming` and the bytes in `c2s` together are the stream of
the requests in `asked`, each of at most `MAX_MSG` bytes, and that `incoming` is
sound; `RespInv` the same of `s2c`, `outgoing` and the answers in `due`; `WaitInv`
that a connection in `poll` waits to read exactly if `outgoing` is empty, and has
no complete request left. A frame at the front of a stream is recognised as
complete exactly when it is (`FrameFront`), since its length is read from bytes
that are there. From `ReqInv`: `SessionRequests` and `SessionUnderstood`. From
all three, `SessionTypes`, `SessionResponses`, `SessionMoves` and `SessionPrinted`.
These four have the hypothesis `RepliesFit`: no reply is encoded in more than
`MAX_MSG` bytes. The run `long_response` shows that without it the client's
answers are wrong. Where the theorems hold, `TypeOK` includes that nothing is
written outside the memory of either buffer.

**AvlTreeProofs** (any finite set of nodes; assumption `NodeAssumption`). Links,
heights and counts say nothing about each other beyond one node, so an invariant
about a node and its children is not kept by a rotation in any way that can be
followed up the tree, and induction over trees is out of the prover's reach. Both
are avoided by describing a tree from outside: `at` gives each member a place, a
number from 1 to the number of members, and `lo` and `hi` the first and the last
place in its subtree. `Shape` says what these numbers have to do with the links: a
left child has the same `lo` and ends just before the place of its parent, a right
child begins just behind it, the root has all places. `Exact` says that a node has
`count` `hi - lo + 1`, one more height than its higher child, and is balanced.
`Sound` is that there are such `lo` and `hi` for the places `at`. All of this is
about single nodes, and what a loop needs to end comes with it: `hi - lo` grows on
the way up and shrinks on the way down.

* A rotation changes `lo` and `hi` of two nodes and no place (`RotRightShape`,
  `RotLeftShape`).
* During `fix` exactly the nodes above the current one are `Outdated`: their counts
  and heights are those from before a leaf was linked or a node was taken out below
  (`ToFix`). A round makes one node exact and hands on a subtree whose height differs
  from the old one by at most one, for each of the four kinds of rotation and none
  (`RoundOfFix`); at the root nothing is outdated any more (`FixEnds`).
* Linking a leaf opens a place for it (`JoinedToFix`); `del_easy` closes one
  (`CutToFix`, `DelEasy`); `del` of a node with two children first closes the place of
  its successor and then gives the successor the place of the node, whatever the
  rotations in between have made of the links of both (`ReplacedSound`, `DelSound`).
* The end of a path is the first or last place of a subtree (`LeftmostIs`,
  `RightmostIs`), `successor` and `predscessor` are one place away (`SuccessorIs`,
  `PredscessorIs`), and `offset` is so many (`OffsetIs`): as long as the place it looks
  for is outside the subtree of its node it goes up, then down.

Lemmas about left and right come in pairs whose proofs mirror each other. Four
lemmas about `Iterate` stand for the library's induction (`LoopEnds`: a loop with a
number that falls until it is zero ends in that many rounds).

**ZSetProofs** (any names that are numbers, scores, alternatives of inputs; moreover
`NameAssumption`, `ScoreAssumption`). The inductive invariant `IInv`: there are places
for which the tree is sound, its members are the nodes of the hash map, which are
those that have a score, and nodes outside have the fields of `AVLNode()`; and as
long as no score was NaN, the places are in the order of score and name (`Sorted`).
None of the properties is inductive without the places: `Balanced` says what the
numbers of a node have to do with those of its children, but not that the children
lead back to it or that no node is reached twice, and `IndexesAgree` says that of the
listing as a whole but not of the part of the tree that a rotation moves. That the
tree is sound does not depend on the order, so the theorems hold with NaN too; that
it is in order follows from where `tree_insert` ends its descent (`InsertionPointIs`:
everything before the place it comes to is less, everything behind it is not). A copy
inserts the nodes of `Preorder` one by one; that this list, like `Listing`, has every
member once is shown by induction over the size of subtrees (`PreorderIs`,
`ListingIs`). From `IInv` (`Invariance`): `TypeCorrect`, `IndexesAlwaysAgree`,
`AlwaysBalanced`, `AlwaysInOrder`, `WalksAlwaysRight`, and `QueriesAlwaysMatch`:
`seekge` and `seekle` end at the first and the last member that the pair lets pass
(`SearchLeftIs`, `SearchRightIs`), the loops of ZQUERYGE and ZQUERYLE list as many
members from there on as there are and as are asked for (`ListFromIs`), and that of
ZCOUNT counts those up to the greatest score (`CountFromIs`).

Only model-checked: liveness (`CallsEnd`, `RequestsAnswered`), since liveness under
fairness is out of the prover's reach, and `MemorySafe` of `loop_one`, which holds with
one descriptor only. All other invariants and refinements that the passing runs check
are theorems, `LoopsAdvance` of the heap included.

## 5. Observed, but not stated as a property

Disagreements with a comment of the code that one look at a single line shows:

* `fd_set_nb` tests `errno` after two `fcntl` calls that succeeded; it still has
  the value of whatever call failed last, for instance an interrupted poll, and
  the server ends with `die("fcntl error")` (`MRD_server.cpp:30-31`).
  `EventLoop` models it (`fd_set_nb_dies`).
* `do_zrem` ignores the result of `ZSet::rem` and answers 1 when nothing was
  removed: `return out_int(out, 1); //number of remove elements` (`:505`).
* `do_ttl` reads `ttl_heap[e->heap_idx]` without a test (`:656`); after EXPIRE
  with a negative time `heap_idx` is `size_t(-1)`. `MRD_server.h:169` offers
  `//EXPIRE name time_ms (-1 to remove expiration)`.
* `do_zcount` calls `stod` outside any try block (`:621-622`), unlike the other
  commands: a bound that is not a number ends the server. `Keyspace` models the
  last three.
* The comment of `data_lookup` (`:291-292`) speaks of exceptions; it returns null.
* When a request is too long to be sent, the client prints "server closed the
  connection" and ends, although nothing was sent (`client.cpp:25`, `:205`).

No comment or test says otherwise of these:

* SDIE with an empty store: `end_run` dereferences a last node that is null
  (`MRD_server.cpp:381-383`).
* A request with a word count of zero is accepted by `parse_req`, and
  `do_request` reads `cmd[0]` (`:153`).
* TTL answers the absolute deadline on the server's monotonic clock, not the
  time left (`:656`).
* With no connection `next_timer_ms` is -1 although entries expire: they stay
  in memory until someone connects (`:57`). Nobody can see them before that. (With a
  connection that is not on the list it matters: section 3.)
* A broken connection that still accepts writes is only noticed by POLLERR:
  `handle_write` ignores all errors but EAGAIN. SIGPIPE is not ignored.
* `append` of a buffer enlarges the memory whenever the bytes do not fit behind
  the data, also when moving the data would make room: the test of
  `MRD_buffer.h:50` is about `data_begin`. With part of a request pending at
  every read the memory of a connection keeps growing.
* `print_response` returns 0 for nil and 3 bytes too many for an error
  (`client.cpp:39`, `:55`). Only elements of arrays are counted, and the server
  sends arrays of strings and doubles only.
* At the end of its input the client loops for ever (`client.cpp:184`).
* `zeq` takes two nodes with the same score for equal (`MRD_zset.cpp:214`); only
  `tree_delete` uses it, and nothing uses that.
* A score that is NaN ("nan" is a number to `stod`) leaves the set without an
  order: queries answer something, and no memory is harmed (`IndexesAgree`,
  `Balanced` and `OffsetWalks` hold).
* A connection that is refused (too long or malformed) is closed after one
  attempt to write the responses before it.

## 6. Not modelled, and the plan

Next: `System`, the event loop with the key space instead of one key. The two meet in
`process_timers` and in `do_request` only; what one needs of the other is in
`OverdueOnlyWhenBusy`, and would be in `WakesForTtl` if that held.

Left out for good: `Server::init` and `main`, and the start of the client
(before any state exists), how the client splits a line into words and what it
prints around a value, log output, functions nothing calls (`tree_delete`,
`zeq`, `append(Buffer)`, `expect_zset`, `buf_append`), the tests and build files.
