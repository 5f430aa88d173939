# A TLA+ model of system-sexp

system-sexp is an interpreter for s-expressions written in C. A host (`src/src/main.ct`) starts an
interpreter, which runs in threads of its own, and talks to it through channels. This directory holds
models of its channels and dispatchers, its reader and printer, its hash tables, its evaluator and the
memory behind it, the TLC runs that check them, and proofs of the safety properties of the channels, the
dispatchers, the reader, the hash tables, the evaluator's call tree and the memory. Paths below are relative to `src/src/` of the repository
unless they start with another directory.

## 1. The system

| component | source | state | operations |
|---|---|---|---|
| channel | `master_slave_channel.c` | a linked list with `head`, `tail` and a spinlock for each direction; a `MasterSignal` (`has_msg`, mutex, condition) | `slave_send_msg`, `master_await_msg`, `master_receive_msg_if_exists`, `master_signal_block_while_empty`; `master_send_msg`, `slave_await_msg`, `slave_receive_msg_if_exists` |
| dispatchers | `interpreter.c` 234-323 | per thread a job queue (a channel) and a current job | `interpreter_begin`, `dispatcher_loop`, `interpreter_push_call` |
| host | `main.ct` | the `Interpreter` it owns | start, receive until `()`, `interpreter_free` |
| reader | `reader.c`, `primitives.c` 98-331 | position in `in_stream`, `error_flags`, calls in progress | `reads`, four reader macros |
| printer | `sexp.c` 166-239 | a buffer | `sexp_format` |
| strings | `lps.c`, `buffer.c` | length-prefixed strings, growing buffers | encode, decode, compare, hash; reserve, append, move to a C string |
| read table | `readtable.ct`, `hashmap.ct` | open-addressing table, `capacity`, `num_elements` | new, insert (with upscale), get |
| hash table | `include/ht.h` | slots with hashes and marks, `count`, `impl_filled_slots` | put, find, delete by pointer, walk, reset, expand |
| symbol tables | `symboltable.c`, `primitives.c` 30-95 | hash tables from symbols to sexps, macros and reader macros | set, remove, peek, get_ref |
| evaluator | `interpreter.c` 37-191, `intrinsics.h` | call tree: a node has a parent, an arena, a symbol table, `call_results` | `eval`, `p-exec` and the intrinsics |
| memory | `arenapool.c`, `allocators/`, `include/nob.h`'s dynamic arrays | all arenas with their regions, the available ones; the blocks that nodes have in them | get, return, alloc, realloc, reset, free |
| sexps, intrinsics | `sexp.c`, `intrinsics.h`, `primitives.c` | immutable trees; some ninety intrinsics | |

How they interact. The host calls `interpreter_begin`, which creates the channel to the interpreter and
one job queue per dispatcher and starts the threads. Dispatcher 0 polls its queue and, when it is
empty, calls the reader for the next top-level sexp of `in_stream`; the other dispatchers wait for
jobs. A dispatcher evaluates its job, stores the result in the parent node's `call_results` and, unless
the parent is the root, queues the parent to itself. Every node that the evaluation makes takes an arena
of the pool; its symbols are in a hash table, which looks its keys up by the hash of `lps.c`. The program
sends messages with `p-sendmsg` and receives with `p-awaitmsg`; at the end of the stream dispatcher 0
sends `()`, and the host frees the interpreter without joining anybody. The reader looks every char up
in the read table and calls the macro it finds, which may call the reader again; `p-read` and `p-load`
call it for other streams.

What is hard: threads that share a list and test it outside their lock; signals that are sent only
sometimes; the end of the program racing the free of everything it uses; jobs that the dispatchers
queue while the host pushes others; an evaluator whose scopes are so many nodes of a call tree that every
intrinsic builds in its own way, and which must give back the arena of each; arenas that are reset and
given out again while lists in them move; a hash table that hands out pointers into itself, keeps
tombstones and is emptied during a walk; a hash map that rehashes within itself by recursion; streams
that a program switches while they are read; a reader that looks ahead and unreads across calls of
itself. `PROJECT.json` lists these hazards at their lines, also those that no property covers, with the
reason.

What makes each component correct: the channel is a first-in first-out mailbox whose sleepers are
woken; the interpreter shows its host the messages of a sequential program and then the end, does not
touch what has been freed, and evaluates every job once with what it needs; the reader returns the
text's tokens in their nesting and reports exactly the texts that are no program, and what is printed
reads back; the tables are maps, and their probes end; the evaluator finds the innermost binding and gives
every arena back; no block in use is laid over another.

## 2. Modules

| module | models | used by |
|---|---|---|
| `Channel` | one list: spinlock, the writes of `channel_queue` and `channel_dequeue` one at a time | both channel modules |
| `Mailbox` | abstract specification of a direction: post, lose (if malloc fails), take | refined by both channel modules |
| `SlaveToMaster` | several slaves and one master that awaits, polls and blocks, with `MasterSignal` | `MCSlaveToMaster`, `SlaveToMasterProofs` |
| `MasterToSlave` | several senders and several receivers that await and poll | `MCMasterToSlave`, `MasterToSlaveProofs` |
| `Dispatcher` | host, dispatchers, job queues, call tree as far as jobs go | `MCDispatcher`, `DispatcherProofs` |
| `HashMap` | `hashmap.ct` as `readtable.ct` uses it, with the stack of insert and upscale calls | `MCHashMap`, `HashProofs` |
| `Buffers`, `Lps` | `buffer.c`, `lps.c`: operators on buffers and on strings with their prefix | `SourceSexps` |
| `Characters` | the chars the reader tells apart, and what they stand for in strings and numerals | `Buffers`, `Syntax` |
| `Syntax` | what a text says, without reading it: its tokens, and whether it is a program | `Reader` |
| `SourceSexps` | the sexps that the reader makes | `Reader`, `Printer` |
| `Reader` | `reads` and the reader macros, with the stack of calls | `ReadBack`, `ReaderProofs` |
| `Printer` | `sexp_format` into a buffer | `ReadBack` |
| `ReadBack` | the reader beside the printer | `MCReader` |
| `Map` | abstract specification of a hash table: a map, a pointer to one value, a walk | refined by `HashTable` |
| `HashTable` | `ht.h`: probing, tombstones, rehash, pointers to values, `ht_foreach` | `SymbolTable`, `MCHashTable`, `HashProofs` |
| `HashEq` | the hash and the equality the program's tables are given | both `MC` modules of tables |
| `SymbolTable` | `symboltable.c` and the tables of `primitives.c` over `HashTable` | `MCSymbolTable` |
| `DynArrays`, `Arenas` | the dynamic arrays of `nob.h`; `arena.h` behind the `Allocator` of `arena-alloc.c` | `Memory` |
| `Doubling` | a capacity that is doubled until it is enough (`nob.h`, `ht.h`) | `HashTable`, `DynArrays`, `Lemmas` |
| `Memory` | the pool, the arenas of the call tree's nodes, and the blocks in them | `Memory.cfg`, `MemoryProofs` |
| `Sexps` | sexps as values, their constructors and readers, and which intrinsics there are | `Intrinsics`, `Evaluator` |
| `Intrinsics` | what the intrinsics compute that only compute; the copy of a sexp and the replacement of a symbol | `Meaning` |
| `Evaluator` | `eval`, `p-exec` and the intrinsics of control, scopes, streams, words, doubles and lists on one dispatcher: call tree, arena pool, symbols, streams, stack of C calls | `Scopes`, `EvaluatorProofs` |
| `Meaning` | what programs mean, with nested scopes and no call tree: the evaluator's abstract specification, as an operator | `Scopes` |
| `Scopes` | the evaluator beside the meaning of its program | `MCEvaluator` |
| `Lemmas` | what several proofs need: recursive functions over an interval, doubling and powers of two, the linked list of a channel | all proof modules |
| `SlaveToMasterProofs`, `MasterToSlaveProofs`, `DispatcherProofs`, `ReaderProofs`, `MemoryProofs`, `EvaluatorProofs` | theorems about the module they are named for | |
| `HashProofs` | theorems about `HashTable` and `HashMap` | |

Each `MC` module gives a module its constants for TLC.

**Channel.** The step is one access to shared memory or one pthread call, and `pc[t]` names the next one,
so that every interleaving of the C code's accesses is a behaviour. `spin_lock` is one step that waits:
the loop on `atomic_exchange` has no other effect. A node of the list is identified with its message.
`queue` is an auxiliary variable, changed at the linearization points (the store that links a node, the
store that moves `head`), and `ListOK` relates it to the pointers. `pthread_cond_wait` is two steps,
releasing the mutex and sleeping at once, then locking it again, and it may wake up spuriously. The plain
reads of `head` and of the atomic `has_msg` are single steps; `head` is read without the lock at lines
166 and 180, which the model interleaves with the writes.

**Dispatcher.** Channels are queues here, which is what the channel modules show them to be.
A sexp is one of four kinds, by what its evaluation does to the modelled state: nothing, `p-sendmsg`,
`p-awaitmsg`, `p-read`. Every program up to `MaxSexps` sexps is an initial state. Jobs are nodes of
the call tree: the number of a top-level sexp, or a node of the host's. The host may push jobs to any
dispatcher, as `interpreter_push_call` allows, and answer messages, which `main.ct` does not do; both
are bounded by constants. `interpreter_free` frees everything and joins nobody, and `main` returns: with that
the process ends, and no dispatcher takes another step. Two assumptions about hosts are stated in the module: no program sends a `()`
of its own (`Nil`), and no two pushed jobs share a parent (`OneChild`).

**HashMap.** `upscale` calls `insert`, which may call `upscale`: the calls in progress are the stack
`calls`, and the table changes one insertion at a time. A slot holds a key or `EMPTY`; a key stands for
its macro too. `HM_index` keeps the arithmetic of the code, in which `^` is exclusive or.

**Reader and printer.** `stream` is what is left of the text, `unreadc` puts a char in front. `calls` is
the stack of `reads` and macro calls; a tail call replaces its caller. The chars of a token go one by one
into a buffer, whose capacity doubles; what is written behind what `buffer_reserve` reserved would break
`TypeOK`. Symbols and strings are moved from the buffer into a length-prefixed string, in which every
byte of the prefix is computed and decoded again, with bytes of three bits so that the shapes change at
lengths that occur. Errors are added to `errors` (auxiliary) and toggled in `error_flags`, as `^=` does.
`Syntax` says what a text means without reading it char by char: its tokens, whether its parentheses match,
whether it is a program. The section "Sexps beside tokens" of `Reader` says which tokens sexps are written
as: a token is matched with the first sexp that is still to come (`Matched`), which an opening parenthesis
replaces by its items and a mark for its end (`Close`). `PrintsBack` prints
every sexp that was read with `Printer` and matches the tokens of that text with it; strings are left out there,
since `sexp_format` prints them without their quotes.

**HashTable and SymbolTable.** A slot is a hash, a key and a value; hashes 0 and 1 are the marks for empty and
deleted, and a key whose hash is one of them is moved to `HT__FIRST_VALID_HASH` onwards. `value` is the
pointer the caller has from its last find or put, `NULL` once an expansion, a reset or the removal of
its key has invalidated it; through it the caller writes and deletes. `iter` is the slot of the walk in
progress, in which the entry it is at may be deleted. `Map` is the same without slots. `SymbolTable` is
`symboltable.c` and the two tables of `primitives.c` as callers: `symboltable_remove` and
`primitives_unset_macro` give `ht_delete` the key for the pointer, and the mark lands behind the chars of
the key, outside of the table.

**Memory.** An arena is a list of regions of words, given out in order from `end` on; a reset keeps the
regions, so that later allocations find them with whatever capacities they have. Memory is bytes: byte
`i` of object `o` is `<<o, i>>`, and memory that is not given out has no content. Nodes nest, and the
youngest ends first; a node's header is in its parent's arena, its symbol table and results are in its
own, and `p_ct_alloc` and lists allocate in any node a program can point to. A list that grows moves,
by `inner_realloc`, which copies.

**Evaluator.** `calls` is the stack of C functions in progress, innermost first; a function that calls
another one pushes a frame, and one that returns gives its value to the frame below. `nodes` is the call
tree, in which `calltree_child_at` makes a node and takes an arena (`arena_pool_get`), and
`calltree_destroy` removes it and returns the arena; a frame knows whether its caller destroys its node
(`own`), which `p_slice_eval` does not do. `vals` of a frame are what the C function has in its
locals and in `call_results`: no node is entered twice in what is modelled, since every evaluation starts
at a new node and nothing resumes a job, and so the tests for a result that is already there fail, but for
one. The node that `p_slice_eval` makes for an empty slice has no results; its `call_results[0]` is the next
word of its arena, where `p_exec` has just put the macro's expansion (`intrinsics.h` 205-217). `p_exec`
takes that for the result, returns it unevaluated and does not destroy the node that it has made for the
macro (`ExecMacro`, `NoCallResults`, `ReturnBefore`). `abandoned` has that node and those of `p_slice_eval`.
A pointer from `p-get` is a node and a name, which are the symbol's value at any later time. `parent_ctx` and
the walk up to a symbol are the code's, over `nodes`. A failed assertion, `abort` and an access through
`NULL` or to a closed stream set `aborted`. Streams are sequences of sexps, what `reads` gives;
`in_stream` is the one that is read, which the program, `p-load` and the loop over the program share.
Words have `WORD_BITS` bits and an int `INT_BITS`, so that the conversions of `p-if` and `p-not` and the
wrap of arithmetic take place at small numbers; doubles are those that are whole numbers. A pointer is to
a symbol's value in the table of a node, to a child of a list, to a stream, or to a sexp that `p-adrof` has
put into an arena.

A program assigns with `p-memcpy`, from a sexp to a symbol, as the `c:=` of `repl.ss` does. The sexp is put
into the arena of the node of `p_exec` (`intrinsics.h` 471), and that arena is back in the pool when
`p-memcpy` gets the pointer; then its third argument is evaluated, at a node that takes this very arena.
`cells` has the pointers whose sexp is still there: a node that gets the arena may write over it, except for
one of the `EVAL` macro, which writes less in it than the node before had written when `p-adrof` was called
(both have a symbol table and one result, and `p_exec` adds a sexp and the header of one child). Reading
what is lost stops the model (`Pointee`), where the program would go on with what lies there; `Meaning` knows
no arenas, and there the sexp of a pointer stays. `ScopesAgree` therefore also says that no program of the
run reads a lost one.

What a primitive makes of the values of its arguments, the copy of a sexp and the expansion of a macro are
parameters of `Evaluator` (`Compute`, `Dup`, `Expand`): nothing it does to the tree, the pool and the stack
looks into them, the theorems hold whatever they are, and the recursion over sexps stays in `Intrinsics`.
`Scopes` is run with `Computed`, `sexp_dup` and `Expansion` for them.

`Meaning` says what the same program means without any of this: an environment is a sequence of scopes,
a call opens one, and `let` binds in the scope of the call around it. `let` is not an intrinsic but a
macro of `examples/std.ss`, which goes up four scopes; the programs define it as that file does, and the
comparison shows that four is right at every place where the runs put a `let`, except in a file loaded at
the top level.

## 3. Runs

| run | question | instance | distinct states |
|---|---|---|---|
| `s2m` | is the slave-to-master channel a mailbox with sound locks, list and wakeups, and does every message arrive? | 2 slaves with 2 messages each, a master mixing await, poll and block, malloc may fail | 351,682 |
| `s2m_block_sleeps` | does `master_signal_block_while_empty` wake up? (no) | 2 slaves with a message each, a master mixing poll and block | |
| `m2s` | the same of the other direction, with many receivers | 2 senders with a message each, 2 receivers mixing await and poll | 46,034 |
| `dispatcher` | does the interpreter run its program in order, once, without touching freed memory, to its end? | 2 dispatchers, all programs of up to 2 sexps, 2 host jobs one of which has a parent, one answer | 73,891 |
| `readtable` | does the read table keep its macros across its upscale? | the 15 chars of `primitive_reader_macros` | 52,169 |
| `reader` | does the reader read programs, reject what is none, and read back what is printed? | 38,872 texts of up to 7 chars and some longer ones | 444,412 |
| `reader_errors` | can the caller tell a mismatch by `error_flags`? (no) | texts of parentheses, floats and blanks up to 5 chars | |
| `evaluator` | do programs evaluate to what they mean, and give their arenas back? | 1817 programs | 71,442 |
| `evaluator_load` | and does a file with a `let` load at the top level? (no) | two programs, two files | |
| `hashtable` | is the hash table a map, with pointers and walks? | 3 keys, 2 values, from 4 slots on | 66,192 |
| `symboltable_remove` | does removing a symbol remove it? (no) | 2 keys | |
| `memory` | is what the call tree has in memory kept, and are arenas used again? | 3 nodes, 8 objects, regions of 3 words | 2,065,584 |

What the passing runs show.

- `s2m`: `LocksOK` (the exchange and the mutex exclude), `ListOK` (the pointers are the queue at
  every step, and `tail` is right whenever no operation is half done), `NoLostWakeup` (a master asleep
  in `master_await_msg` beside a message has a signal to come, although a slave signals only when it
  found the channel empty), `FIFO` (the channel implements `Mailbox`), `Delivered`, `SendReturns`.
- `m2s`: the same, with `NoLostWakeup` as a count: queued messages never outnumber the signals to come
  and the receivers on their way to look, while a receiver sleeps.
- `dispatcher`: `InOrder`, `NoUseAfterFree` (of dispatcher 0), `OnceWithResults`, `ReadsWhileNotBusy` as invariants;
  `MainExits` (the host is told the end, unless the program awaits an answer that does not come) and
  `JobsServed` as liveness: a queued job is evaluated, unless it comes to dispatcher 0 when that is about to
  read the end of the stream, or is another dispatcher's and the host frees the interpreter first.
- `readtable`: `EntriesKept` (no entry is lost or doubled while the table is rehashed in place),
  `LoadBounded` (an empty slot always ends a probe, although the count of elements is wrong after an
  upscale), `Found`. `Found` is about the fifteen chars that the program adds: the in-place rehash
  (`hashmap.ct` 196-203) can empty a slot in the middle of a probe chain that it has already rebuilt, and
  with the digits and `" ' ; @` for keys one of them is no longer found.
- `reader`: `ReadsText` (between two sexps, the sexps read are written as the tokens of the text up to where
  the stream is), `ErrorsExact` (an error is reported exactly for the texts that are no program), `PrintsBack`
  (what `sexp_format` makes of a sexp of symbols, integers and lists has its tokens), `Terminates`; the buffers never
  hold more than was reserved.
- `evaluator`: `ScopesAgree` (each sexp of the program has the value that `Meaning` gives it, the global
  symbols and what is left of every stream are the same, and the program stops exactly where it has no
  meaning), `ArenasOwned` (an arena is unused, once, or the memory of one node), `ArenasReturned` (after
  each sexp only the nodes that `p_slice_eval` leaves behind are still there, and those of the macros that it
  called with an empty slice). In `Meaning`, `p-st-remove` removes and a macro called with an empty slice is
  evaluated, as their names promise, while `Evaluator` does what the code does. So `ScopesAgree` speaks of
  programs that, within a sexp, bind a symbol again after its removal, and do not look at the value of such a call.
- `hashtable`: `CountsExact` (the two counters that decide on every expansion are what is in the slots),
  `AssertsHold` (the assertions of `ht.h` hold for every key at every time: a probe ends), `PointersHold`
  (a pointer that its caller may still use is to the value of its key), `ImplementsMap` (the table refines
  `Map`: answers, writes through pointers, and a walk that meets every key once though it deletes).
- `memory`: `ObjectsKept` (every block of a living node is within what its arena has given out, and has the
  content it was given), `PoolReuses` (the
  pool has as many arenas as there were nodes at a time, each in one place), and in `TypeOK` that no
  region is used beyond its capacity and that unused arenas are empty.

What the violations show.

- `s2m_block_sleeps`: `has_msg` is not kept in step with the list (`master_slave_channel.c` 181), so that
  `master_signal_block_while_empty` can sleep beside a message, where the header (`.h` 34) says it blocks
  until there is one. (By line 193 it can also stay true over an empty list, and the function return
  without one.) `main.ct` does not use it; `master_await_msg` is not affected.
- `reader_errors`: `error_flags ^=` (`reader.c` 68, 106, and in `primitives.c`) cancels an error that
  happens twice, as an unclosed list in an unclosed list does, and `p-load` takes it for the end.
- `evaluator_load`: `p_load` evaluates the sexps of its file at `parent_ctx(at)` (`intrinsics.h` 565), one
  node above where a sexp in its place would be, although the comment at 544 says "as if at the current
  location". Within a call there is a node to spare; at the top level a `let` of the file counts past the
  root and writes through `NULL`, as `examples/load-test.ss` does.
- `symboltable_remove`: `symboltable_remove` (`symboltable.c` 46) and `primitives_unset_macro`
  (`primitives.c` 78) call `ht_delete` with the key instead of the pointer to the value
  (`include/ht.h` 277): the entry stays, and `count` is lowered. `Evaluator` has `p-st-remove` as one that
  removes nothing.

Oddities that are in the models, with which the passing properties are stated:

- a comment just before a closing parenthesis is an error, since the macro reads the sexp after the
  comment (`WellFormed` treats a comment as a prefix); a numeral must be followed by a blank or a closing
  parenthesis, the end of the stream being an error; a quote at the end of the text gives `(p-quote)` with
  a null sexp and no error; `#` alone is skipped, not the shebang line;
- a float takes the char after it along, which `S_FLOAT` (`primitives.c` 254) does not unread as `S_INT` and
  `S_HEX` do: `(0.0)` loses its closing parenthesis and is reported as unclosed, `(0.0 )` is a program
  (`WordAfter` says so of the text);
- the hexadecimal escape in strings uses the wrong variable (`primitives.c` 170-174), always gives the
  same char and ends the string; a string is cut at its first NUL;
- `p-if` and `p-not` test an int and `p-and` and `p-or` a word, so that they differ on numbers whose low
  half is 0, on pointers and on doubles; `p-umod` and `p-smod` compute `&`;
- `(p-slice-eval m 0 p)` of a macro `m`, with which the `print` of `examples/size.ss` (84) ends, returns the
  macro's expansion unevaluated and leaves two nodes with their arenas instead of one: `call_results` of no
  results is an allocation of no bytes (`interpreter.c` 44), which `arena_alloc` (`include/arena.h`) puts where
  the next one will be, that of the expansion (`intrinsics.h` 205), and the test for a result (213) reads it;
- `hashmap.ct` counts moved entries twice, and its probe is not the quadratic one of its comment.

### Bounds, and why they suffice

`MaxSends` bounds the messages of a slave: two slaves and two messages each give every combination of
an empty, a singleton and a longer list with a slave at each point of `slave_send_msg`, and the proofs
remove the bound for safety. Two receivers are needed for a message to be taken by another than the one
signalled. Two sexps give every ordered pair of kinds, which is what order, `p-read`'s data and the end
depend on; three host nodes give a job with a parent, and one without, on the same and on different
dispatchers.

The fifteen chars are the program's own; they are added by rank (chars below `0`, then `0` to
`7`, then the rest) and freely within a rank, which covers the order in which the intrinsics' table yields
them and many others.

The reader's texts cover all kinds of tokens up to length 4 and fewer kinds up to length 7, with symbols and
strings of up to nine chars; a nesting of three and every pair of adjacent tokens occur. `BUFFER_CAPACITY` is 2 (16 in the code), so that buffers
grow once and twice; `BYTE` is 8 (256), so that prefixes of one and more bytes occur; `HEX_DIGITS` is 2
(16), so that a hexadecimal numeral can be too long. These scale the places where the shapes change and
nothing else.

The evaluator's programs put every form around every leaf (a number, a symbol that may be unbound, a
`let`, a load of a file that binds, a new `env`), and a second form around or after each of these, then
look at the symbol; deeper nesting repeats the same node patterns, since every call makes its nodes from
its caller's alone. Operators are applied to all pairs of the ends and the middle of the ranges of words
of four bits, signed and not, of which an int has three, and to doubles where the result is exact. The
reading programs switch streams, read and load themselves, the keyboard and files, with the stream put
back or not. Slices are empty, of one sexp and of several, for macros and for primitives; a macro that walks
its arguments and ends with the empty slice, as `print` does, is among them.

The hash table starts with four slots (`HT__MIN_CAP`, 32 in the code) and grows to eight with three keys,
whose hashes (of `HASHES` = 8 values) meet in four slots and part in eight; the hash of one is in the range
of the marks. Tombstones fill the table without growth of `count`, so that a rehash into the same capacity
happens too. The number of operations is not bounded. `symboltable_remove` wraps at `SIZE_MAX` = 1000.

Memory has words of two bytes, regions of three words (`ARENA_REGION_DEFAULT_CAPACITY`), a sexp of one
word, a call tree header of three bytes and blocks of seven, which need a region of their own size: every
request is rounded, fits, goes on to a later region, or makes one that is larger than the default.
`MAX_NODES` = 3 has an arena reset and used again under a node that lives on, `MAX_OBJECTS` and
`MAX_CHILDREN` bound the blocks and the lists (a list moves when it grows from one child to two). The
proofs hold for all values of these.

`CHECK_DEADLOCK FALSE` is in the runs whose system stops: senders that have sent what they may, a program
at its end, a read table that is complete, an interpreter that has been freed.

### Fairness, and why the code justifies it

Channels: every thread that is in an operation goes on (weak fairness of its steps), the master or
receiver calls again, and spurious wakeups end; senders need not send. `Delivered` in `s2m` is about a
master that in the end calls `master_await_msg` for ever, as `main.ct` does; one that only polls or
blocks is excluded in the property and not by fairness. The spinlock is held for a few
instructions and is released by its holder, so that weak fairness per thread suffices in these
instances; a thread that never wins the exchange is excluded by it. Dispatcher: the host's loop and every
dispatcher go on until the host has freed the interpreter, when `main` returns and the process ends; evaluating
a sexp ends, except in `p-awaitmsg`; the host need not push or answer.
Reader: it goes on reading. The tables, the memory and the evaluator are sequential and have no liveness
property: programs need not end.

## 4. Proofs

Every inductive invariant below was an invariant of a TLC run before it was proved, but for `Reading` of
`ReaderProofs`, which speaks of sequences of tokens that exist and which TLC cannot enumerate: what the run
checks is `ReadsText`, which follows from it. `tlapm` checks `ReaderProofs` from nothing in about a quarter of an
hour, each other module in a few minutes at most.

`Lemmas` has what several modules need. The linked list of a channel: when a node is linked behind the last
one, and when the first one is unlinked, the pointers remain those of the queue (`ListGrows`,
`ListShrinks`). Doubling: the capacity that is doubled until it is enough is enough, and twice a power of
two is one. Recursive functions over `0..n`: there is exactly one for every first value and every step
(`Iterate`), which is proved without an induction rule, from the least number at which one would fail
(`LeastOf`). And among as many slots as a power of two, the triangular numbers come to every slot
(`TrianglesReach`).

**Channels.** `SlaveToMasterProofs` proves, for any set of slaves, any bound on the messages and any mix of
the master's operations, and `MasterToSlaveProofs` for any sets of senders and receivers:

- `TypeCorrect`, with `CallsOK`, what the program points say of the locals;
- `LocksCorrect`: one step per action; a thread that enters a critical section (`InSpin`, `InMutex`) found
  the lock free, and only the one inside leaves it;
- `ListAlwaysOK`: `ListOK` is not inductive. `ListInv` adds that queued messages are distinct and were
  posted (`MessagesOK`), since a node that is its own message could otherwise be queued twice and the
  list be cut; and in the first direction that the slave about to link a node has seen whether the list is
  empty;
- `WakeupCorrect`. With one master, by `ListInv`: the lemmas follow the three ways the premise comes
  about: the master becomes sleepy (then the queue is empty), the queue grows (then the slave that made it
  grow is the signaller), the signaller moves on (then it has signalled). With many receivers it is a count of
  finite sets: every step that takes a signal or a waking receiver away trades it for another or for a
  queued message (`WakeupsKept`, `WakeupsTraded`), and `SenderWakeups`, `SignalWakeups` and
  `ReceiverWakeups` say so of the steps of each kind;
- `ImplementsMailbox`: each step is a `Post`, `Lose` or `Take` of `Mailbox`, or changes none of its
  variables.

**Dispatchers.** `DispatcherProofs` proves, for any number of dispatchers, sexps, answers and host jobs that
satisfy `DispatcherAssumption` and `OneChild`:

- `TypeCorrect`;
- `FreeIsSafe`: by `EndInv`, that a `()` in the channel or taken from it means that dispatcher 0 is done,
  for which it is needed that it is the only one that sends a `()` and that it takes no step afterwards;
- `ReaderIsIdle`: inductive with the types;
- `JobsRunOnce`: `OnceWithResults` by `OnceInv`, which adds that no two dispatchers have the same job, none
  has one that was destroyed, and that a job is known only after it was pushed, read, or unwound into from a
  child that has left its result. Each step makes at most one job known that was not (`OnceKept`);
- `MessagesInOrder`: `InOrder` by `OrderInv`, that what the host has received, what is in the channel and what
  dispatcher 0 has still to send (`Left`) are together the messages of the program; a step moves the front of
  one of the three to the end of the one before.

**Hash table.** `HashProofs` proves, for any finite set of keys, any values, any hash that is a number
an equality that is that of keys, and a `HT__MIN_CAP` that is a power of two from 4 to 1024 (32 in the code):

- `TableWellFormed`, `CountsAlwaysExact`, `AssertsAlwaysHold`, `PointersAlwaysHold`, by `TableInv`: the table
  is `Sound` (entries have the hash of their key, the two counters are those of the slots, a slot is
  empty, and the probe for every key that is there leads to its slot), a pointer is to the entry it was
  returned for, and a walk has seen exactly the keys up to its slot;
- that a probe ends needs both an empty slot, which the load factor leaves, and that triangular probing comes
  to it, which it does because the capacity is a power of two (`TrianglesReach`);
- a rehash moves the entries one by one, and after each the new table has those that were moved (`HasMoved`);
- `TableIsAMap`: every call is the step of `Map` of the same name, over `Contents`, or leaves the map alone.

**Read table.** `HashProofs` proves, for any finite set of chars added in any order that ranks allow, and
an `INITIAL_SIZE` that is even and greater than 4 (with 4, three of four slots are below the load that
upscales, and the table could fill up):

- `MapWellFormed`, `EntriesAlwaysKept`, `LoadAlwaysBounded`, by `MapInv`: every inserted key is at one place,
  a slot or a call in progress (`OnePlace`); only the innermost call has not looked at the load yet
  (`LastInserts`); and `num_elements`, which an upscale raises again for every entry that it moves, is never
  below the number of slots in use, while the keys themselves stay below the load (`Roomy`);
- `ProbesAlwaysEnd`: the probe for any key meets an empty slot, so that the loops of `HM_insert` and `HM_get`,
  which have no bound, end: by `LoadBounded` there is an empty slot, and as the capacity is even the probe, which
  swaps neighbours, comes to every one (`ProbeReaches`).

**Reader.** `ReaderProofs` proves, for any set of texts without nul chars, however long and deep, any number of
hexadecimal digits, any capacity of a new buffer and any base of the lengths' bytes (`ReaderAssumption`,
`BuffersAssumption`, `LpsAssumption`):

- `ReaderErrorsExact`: when the caller gets the null sexp that ends its reading, an error has been reported if
  and only if the text is no program. `ErrorsExact` speaks of the end alone; `SpecIInv` proves `IInv`, of every
  step. `Decides(t, i, d, after)` says that the text `t` is a program if and only if its tokens from `i` on
  complete one (`Completes`) when `d` lists are open and, if `after`, a prefix waits for its sexp. `Promised`: as
  long as no error was reported, the place of the stream decides with as many lists as are open in `calls`
  (`Depth`), and within a token the place where it begins does, with what the call knows of its chars
  (`InString`, `InWord`, `InNumeral`). `Known`: an error was reported for no program, and none at the end of one;
- there is one lemma per char class that says how a token changes what completes a program
  (`CompletesOpen`, ..., `CompletesNoNumeral`, from `LexUnfolds`, which unfolds the recursive function of the
  tokens), and one per action (`ReadsSkipKeeps`, ..., `NumeralErrorKeeps`). The numeral reader's states are
  compared with the definitions of numerals, which are not by state: `IntSoFar`, `DotSoFar`, `FloatSoFar`,
  `HexSoFar` say which words a state can come from, and `DotBroken`, `FloatBroken`, `HexBroken` that a char that
  does not fit makes the whole word none;
- `ReaderTypeOK`: the stream is always what is left of the text, or that after one quote, which a hexadecimal
  escape unreads in place of its second char; and the buffers grow in time;
- `ReaderReadsText`: between two sexps, what was read is written as the tokens of the text up to where the
  stream is. `ReadsText` says nothing in the middle of a sexp, so `SpecReading` proves `Reading` along with
  `IInv`: the tokens of the text are those that the sexps read are written as (`Written`), then for every call
  in progress, from the outermost on, those that it has read of its own (`Has`: an opening parenthesis and its
  items so far, a quote, skipped comments), and then those from the place where the token in progress began
  (`Says`), whose chars so far are in the buffer. When a call returns, its tokens become those of the sexp it
  returns (`Returns`), and an item's become its list's (`HasItem`). No induction over nested sexps is needed:
  `Takes` says what one token does to the sexps to come, as `Matched` does, and `TakeAll` of one token after
  another can be joined (`TakesBefore`, `WrittenJoined`, `WrittenList`), by the lemmas of the section
  "Sequences" on sequences of whatever elements. There is one lemma per action again (`ReadsSkipReads`, ...).
  Chars go into the buffer as the text says: `ContentFrom`, `StringData` for strings with their escapes,
  `NumeralData` for numerals without their prefix;
- `LpsRoundTrip`, on which the chars of symbols and strings rest: the chars of which a length-prefixed string is
  made are those that its users take it to have, for every length and any even number of values of a byte from
  8 on (256 in the code), on both sides of the bound from which the length takes bytes of its own. What the
  recursive functions of the bytes are (`ShiftedValues`, `DecodedValues`) follows from `Iterate`. (The byte
  with the number of the bytes before the chars has no bound in the model: in the code it is at most
  `0x80` + 9, since a `size_t` has eight bytes.)

**Memory.** `MemoryProofs` proves, for all sizes of words, regions and types and any bounds on nodes and
objects:

- `ArenasWellFormed`: no region is used beyond its capacity, unused arenas are empty, no dynamic array holds
  more than it has room for, however its capacity was doubled;
- `ObjectsAlwaysKept`. `ObjectsKept` is not inductive: it does not say that blocks are disjoint, nor that
  nodes have arenas of their own. `HeapOK` does, node by node (`Kept`). An allocation
  `Extends` an arena: it gives out memory that was free (`BlockFree`) and leaves the rest as it was; this
  is proved of `inner_alloc` over the regions that a reset has left, of a new region, and of
  `inner_realloc`. A reset takes one arena's objects with it, and `HeapOK` of the others does not mention
  it;
- `ArenasReused`: `PoolOK`, that the nodes' and the available arenas part `1..most` (`Parted`).

**Evaluator.** `EvaluatorProofs` proves, for all programs, files and widths, whatever primitives compute and
however macros expand (`Compute`, `Dup`, `Expand` are any operators):

- `SpecInv`, that `EvaluatorInv` is an invariant: `TypeOK`, `ArenasOwned`, and two statements about the stack
  and the tree, without which neither is inductive. `StackOK`: a function whose caller destroys its node has
  one that hangs below the caller's, is younger than the nodes of all functions that called it, and belongs to
  no other. `TreeOK`: every node is the root, abandoned (what `p_slice_eval` made for a call, or `p_exec` for a
  macro in a node without results), or held by one such function. So when a function
  returns, its node is a leaf that nobody else in progress will touch, and its arena goes to the pool once;
- `SpecTypeOK`, `SpecArenasOwned`: its parts;
- `SpecArenasReturned`: with an empty stack no node is held, and so only the root and the abandoned ones are
  left.

The lemmas say what a call, a return and a change of locals do to the invariant (`EnteredKeeps`,
`ReturnedKeeps`, `WentOnKeeps`, and `ReturnBeforeKeeps` for `p_exec` in a node without results, which gives its
answer while its own node stays; `Answered` and `AnsweredFrames` are what both ways to return do to the
stack); then there is one step for each group of primitives that does the same to the
tree. `p_slice_eval` and `p_load` are the ones that need the distinction by `own`.

Assumptions of the proofs are the `ASSUME`s of the modules, which TLC evaluates in the runs, those on
constants of the code being weaker than the code's values.

Only model-checked:

- liveness (`Delivered`, `SendReturns`, `MainExits`, `JobsServed`, `Terminates`): fairness and `ENABLED` are
  out of the prover's reach;
- `Found` of the read table, which is a fact about the fifteen chars of the program and not of hash maps:
  with 8 slots and the keys 1, 2, 3, 4, 5, 9, 17 and 18 it does not hold;
- `PrintsBack` of `ReadBack`: what is printed is recursive over sexps (`Format`), and neither recursive
  operators nor induction over data are available to the provers;
- `ScopesAgree`, because `Meaning` is recursive over sexps.

## 5. Not modelled, and why

Left out as a whole:

- the REPL and the example programs: they are programs in the interpreted language, which are input; `let` and
  `read` of `examples/std.ss` are among the evaluator's programs;
- the build (`build.sh`, `src/src/scripts/`) and the generated table of intrinsics: they run once, at build time;
- the rest of the vendored headers: `nob.h` beyond its dynamic arrays is a build system that the program does
  not call; `foreach.h` is macros;
- logging, rows and columns of sexps, wording of errors.

Left out within what is modelled:

- *several dispatchers in the evaluator and the memory*. `arena_pool_get` and `arena_pool_return` take no
  lock, as the TODO at `arenapool.c` 27 says; `main.ct` starts one dispatcher, and with two the properties
  of `Memory` do not hold. `Dispatcher` has several, with evaluation as one step;
- *raw memory*: `p-malloc` and the like, foreign calls, `p-format`, and of `p-memcpy` all but the copy of one
  sexp to a symbol; a pointer of `p-adrof` that a program keeps beyond the call it is made for (the memory has
  been given out again by then);
- *`p-eval-at`*: it reads `call_results[2]` of two (239), and its assertion and its comment disagree about
  its arguments, so that what it should do is not determined;
- *results cached for a resumed job*: nothing resumes one. `p_while` wipes `call_results` from an offset
  scaled twice (756), and so bytes of its arena behind them, with what may lie there: `Memory` does not
  have this write, and `ObjectsKept` would not hold with it;
- *streams*: programs use a closed stream only to stop, `p-fopen` opens for reading, what is typed is
  fixed, and parse errors within `p-read` and `p-load` are in `Reader` alone; a load of a file without a
  sexp returns a result that was never written (567), and the programs have none;
- *doubles*: whole numbers with exact results, no negative zero;
- *pointers into symbol tables*: in `Evaluator` a pointer of `p-get` stays with its symbol. In the code it is one
  into the hash table, which dangles when a later binding makes the table grow (`symboltable.c` 57); of the
  table alone, `PointersHold` says when that is;
- *the end of the process*: what dispatchers other than 0 do with freed memory between `interpreter_free` and the
  return of `main` (the TODO at `interpreter.c` 259). In `Dispatcher` they do not go on;
- *memory*: bytes of a block that were never written have no content; the nodes that `p_slice_eval`
  leaves behind are in `Evaluator`; the wrap of the 16-bit count of children is far beyond the bounds;
- *the value of a numeral* and the range errors of decimal ones;
- *what nobody calls*: `lps_cat`; pop, prepend, clone, `append_cstr` and `append_buffer` of a buffer;
  `sexp_destroy`, `symboltable_destroy`; remove, contains and serialise of the hash map; the functions
  that free channels. `lps_dup`, `buffer_prepend_chars`, `sexp_is_list` and
  `channelpair_get_unread_from_*` are declared and defined nowhere.

Seen in the code and in no property, because nothing it does depends on them today: `buffer_compact` leaves
`cap` as it was, in a buffer that is freed next; `str_reader_macro` and `numeral_reader_macro` do not free
their buffers; `has_msg` may stay true over an empty channel; `interpreter_free` leaves the job that
dispatcher 0 has not taken; `stackstate_new` reads the memory it is about to set in its own initialiser
(`interpreter.c` 41).

What a next step would be: `p-eval-at` and resumed jobs, once the code says what they do; a lock around the
arena pool, and then `Memory` with several call trees.
