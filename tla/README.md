# Verification of libpst and readpst

libpst reads Outlook personal folders (`.pst` files); `readpst` converts them to
mailboxes and other files, with several processes if it can fork. This directory
holds TLA+ modules that model its core, TLC configurations that check them on small
instances, and proofs for every value of the constants.

    tlc -workers 2 -config fork_pool.cfg MCForkPool     # one run
    tlapm ForkPoolProofs.tla                            # the proofs of one module

`PROJECT.json` lists the components, the runs, the mutants (for every checked property
a plausible bug that breaks it), the source lines of each definition, the findings,
the hazards and the theorems. Line numbers are those of `src/src/`.

## 1. The system

| Component | State | Operations | What makes it correct | Module |
|---|---|---|---|---|
| process pool (`readpst.c`) | semaphore `global_children` in shared memory; `child_processes`, `active_children` per process; the stack of `process()` | `process`, `try_fork`, `grim_reaper`, end of `main` | every folder once; no slot lost or created; no deadlock; no child left | `ForkPool` |
| descriptor tree (`libpst.c`) | `d_head`, `d_tail`, and `next prev parent child child_tail no_child` of each node | `record_descriptor`, `add_descriptor_to_list`, `pst_getDptr`, `pst_getNextDptr`, `pst_getTopOfFolders`, `pst_free_desc` | lists sound in both directions; no node lost; orphans adopted; walks end | `DescTree`, `DescForest` |
| index loading (`libpst.c`) | `i_table`, `i_count`, `i_capacity`; recursion over the b-trees | `pst_load_index`, `pst_build_id_ptr`, `pst_build_desc_ptr`, `pst_getID` | sorted table, lookup finds, pointers into the table stay valid, recursion bounded | `IndexTree` |
| block data (`libpst.c`, `libstrfunc.c`) | `pst_holder`: buffer, file, base64 state | `pst_ff_getID2data`, `pst_ff_compile_ID`, `pst_append_holder`, `pst_finish_cleanup_holder`, base64 | all bytes in order, whatever the block boundaries; sane after a failed read | `BlockData` |
| output names (`readpst.c`) | working directory and `file_ll` of every activation; the file system | `create_enter_dir`, `close_enter_dir`, `mk_*_dir`, `mk_separate_file`, `check_filename` | folders do not overwrite each other; no empty file left | `OutputNames` |
| output streams (`readpst.c`) | the stdio buffers of the open folders, copied by `fork` | `process`, `mk_separate_file`, `close_enter_dir`, `exit` | every item in its file, in order, once | `OutputBuffers` |
| item writers (`readpst.c`) | the open mail file; the chain of calls of `write_normal_email`; `extra_mime_headers` shared by them | `write_normal_email`, `write_embedded_message`, `write_separate_attachment`, `write_inline_attachment`, `find_rfc822_headers` | well-formed MIME however messages nest; every attachment kept; headers go to the right message | `EmailWriter` (mails only) |
| item parsing, id2 trees (`libpst.c`) | `pst_id2_tree`, `pst_item` and its attachments | `pst_parse_item`, `pst_build_id2`, `pst_getID2`, `deep_copy`, `pst_free_id2`, `pst_process`, `pst_freeItem` | each tree and buffer freed once, by its owner; attachments keep the data of their own record | `ItemParse`, `MapiFields` |
| MAPI blocks (`libpst.c`) | `pst_mapi_object` lists, sub-blocks, seven offset pointers | `pst_parse_block`, `pst_getBlockOffsetPointer`, `freeall`, `pst_free_list` | no buffer lost or freed twice; counts true; rows found | `PropertyBlock` |
| file handle (`libpst.c`) | `pf->fp`, `fname`, `cwd`; the file offset a child shares with its parent | `pst_open`, `pst_reopen`, `pst_close`, `pst_getAtPos` | no read at the position of another process; the directory is kept | `FileHandle` |
| extended attributes (`libpst.c`) | sorted list `x_head` | `pst_load_extended_attributes` | list sorted, the last definition of a type found | `XAttrib` |
| debug log, output lock (`debug.c`) | shared `output_mutex`, stack of function names | `pst_debug_lock`, `pst_debug_unlock`, `pst_debug`, `WARN`, `DIE` | messages of processes not mixed or repeated, lock not lost | `DebugLock` |
| string buffers, charsets (`vbuf.c`) | buffer sizes; global iconv descriptors | `pst_vb*`, `pst_unicode_init`, `open_targets` | conversions end; the descriptor is that of the current charset | `StringBuffers`, `IconvTargets` |
| compressed RTF (`lzfu.c`) | ring of 4096 bytes, sizes of input and output | `pst_lzfu_decompress` | the ring is the last text; the output is complete | `Lzfu` |
| recurrence, times, escaping | none | pure functions | equal their definitions | - |
| options, other programs, bindings, third party, build and tests | - | - | - | - |

The last two rows are not modelled; section 6 and `PROJECT.json` give the reasons.

How they interact. `main()` opens the file, loads the index (`IndexTree`), which feeds the
descriptor tree (`DescTree`) record by record, and walks the tree with `process()`
(`ForkPool`). Each activation of `process()` opens the output files of its folder
(`OutputNames`) and parses an item (`ItemParse`), whose property blocks (`PropertyBlock`) fill its
fields (`MapiFields`) and whose attachments keep a copy of a part of its id2 tree. A mail is
then written (`EmailWriter`), attachment data is copied (`BlockData`), and an embedded message is
parsed and written in the middle of its outer one. Processes share the
semaphore, the output lock, the file system and, until `pst_reopen`, the offset of the pst
file. There are no threads and no callbacks.

What is hard here: the interleavings of processes that fork, wait and fail; the order of
the records in a file, which nothing guarantees; blocks that cannot be read in the middle of
an operation; loops that change the list they run along; names that are probed first and
opened later; memory that is borrowed across calls that nest. `PROJECT.json` names each place as a hazard with the properties that watch it.

## 2. The modules

**ForkPool** (`MCForkPool`, `ForkPoolProofs`). One program counter per process. A "job" is a folder
or message for which `process()` calls `try_fork`; items that never fork are part of the state
`walk`. The stack of C activations is `stack`; a forked child gets only its own candidate,
because it exits when that activation returns (288-295). `grim_reaper` is one action per
`waitpid` (`Reap`, `ReapFailed`, `Skip`) with the loop index that steps back after a removal.
The test of the semaphore value (208) and `sem_wait` (209) are two actions; so are `sem_wait`
and `fork`. Failures: `fork` returns -1 (`ForkFails`), an item ends in `DIE` (`Die`), a signal
ends the process (`Kill`); `MaxFaults` bounds their number. `exit(status)` with the raw wait
status keeps its low eight bits (`ExitStatus`). Process identifiers are reused after
`waitpid`. A constant tree (`TreeAssumption`) stands for the folders of a file, as the descriptor tree
gives them; what the jobs write is elsewhere.

**DescTree** and **DescForest** (`MCDescTree`, `DescTreeProofs`). `DescTree` has a variable for each pointer field
and an action for each loop iteration of `record_descriptor` (`AdoptOrphan`, `PassOver`),
of `pst_getDptr` (`Down`, `Across`, `Up`) and for the three places that link a record. A file's
records come in any order with any ids: a damaged index may deliver them unsorted.
`DescForest` states what the tree promises, as
sequences of children without pointers; `ImplementsForest` is the refinement. It shows the
adoption of orphans, the search in preorder and the made-up top of folders as single steps. Preorder is not computed there but
defined (`Before`): a node comes before those below it, and before those below a later one of a list it is below.

**IndexTree** (`IndexTreeProofs`). One action per test, entry and recursive call. A block is chosen when it is
read, with any level and any entries, so every tree, every damaged one and a block that leads
to itself are covered without naming file offsets. The decoding of an entry is abstracted: it
gives an id, or lies behind the end of the block (`Overrun`). `pst_getID` is the binary search
of the C library over the table. The growth of `i_table` is kept, because it moves the table.

**BlockData** (`BlockDataProofs`). The bytes are numbered in the order they are read, so that "complete and in order"
can be stated; decryption permutes byte values and is left out. A base64 line has `LineGroups`
groups of four characters instead of 19. Reads may fail at any block.

**OutputNames** (`MCOutputNames`, `WriterProofs`). The file system is a set of directories and a function from paths
to inodes; an inode knows whose items it holds. `fopen` for reading (the probe) and `fopen`
for writing, `stat` and `remove` are separate actions. The mode, `-w` and "may fork" are chosen
in `Init`; in a sequential run only the innermost activation moves. `raced` records that a
name which was found free was taken when it was opened. Four output files per folder differ
only in their extension; one is modelled. `check_filename` is the function `Clean`. Files and directories share
the names of a directory: `mkdir` meets files, `fopen` and `remove` meet directories, and where that
ends in `DIE` the activation is `refused` (in `create_enter_dir`) or `dead`; a sequential run then stops, in
a parallel one the processes that wait for it may follow (`DieToo`).

**MapiFields** and **ItemParse** (`MCItemParse`, `ItemParseProofs`). `MapiFields` says for every property `pst_process` knows
where it is stored and by which of the copying macros, and which buffers `pst_freeItem` and
`pst_free_attach` give back; an element is its field, its kind of value and what matters of it.
`ItemParse` is `pst_parse_item` with one action for each block it reads, the item being the
result of folding `Process` over the rows of the block, and the life of the item in readpst:
`WriteEmbedded` parses an embedded message with the copy of the tree its attachment owns,
before `FreeItem` frees the outer one. Trees and items live at addresses of a heap; a tree is a
function from the numbers of the records of its block to nodes, each with the tree below it, so `deep_copy` is a
new address with the same tree. `pst_build_id2` is a recursive function over blocks and depths. Which blocks exist and can be read is part of the file.

**PropertyBlock** (`MCValues`, `ValueProofs`). `pst_parse_block` for both types of blocks and for sub-blocks. What the file says is
chosen when it is read. A buffer is a number, so a pointer into a sub-block, a pointer that owns
its data and an element that owns a copy can be told apart; the seven offset pointers have
their `needfree`. Of an element the model keeps what became of its slot (NULL, zeroed, filled from a record of
a known or of an unknown reference type), its buffer, whether it has a size, and whether its type is 0, one
of the format or another number. One action per way an element can go: inline, copied, converted, read through
its id2, put off, of an unknown type, or skipped, where its slot is used again. The position
in the row matrix is the only number that is kept.

**EmailWriter** (`MCEmailWriter`, `WriterProofs`). `write_normal_email` in three steps (headers, bodies, attachments) on a
stack of calls, since an embedded message is written by the same function. The mail file is a
sequence of tokens: boundaries that open and close, and parts inside them. A header string
is a sequence of chunks, the pieces between empty lines, with the little that matters of each:
how its first line looks before and after fields are stripped, whether it announces a message,
which fields it has. `extra_mime_headers` is a chunk of the header of some item; when that item has
been freed, what is read is either the old text or nothing useful. Files of separate
attachments are a function from names to attachments.

**OutputBuffers** (`MCForked`, `ForkedProofs`). What a folder holds is a sequence of items and folders; an
activation of `process()` has the buffer of its stream. stdio may write any part of a buffer at any
time, and the rest stays. `CopyTo` (fork) copies the whole stack, `ExitProcess` flushes all of it. A file is the
sequence of the items in it, each with the process that wrote it. One file stands for the four of a folder.

**FileHandle** (`MCForked`, `ForkedProofs`). An open file description is named after the process that opened it; `fp` says which one
a process reads, so sharing is two equal values. `fseeko` and `fread` are two actions, and each call
of `pst_reopen` is one, with its failure. `dir` is the real working directory and `should` the one the
walk of the folders believes in. A description's offset may move at `fread` and `fclose`, as the C library
is free to do; positions are members of a small set. Reads that begin while somebody is still
(or for ever) on an inherited stream are marked, and only the others have to be right: the code accepts that window.

**DebugLock** (`MCForked`, `ForkedProofs`). A macro is a list of streams to write to, each under the lock, and perhaps `exit`. A
message is written in two pieces, either of which may wait in the buffer. A kill may come
at every step; `exit` flushes and waits for children, as `process()` and `main()` do. The module is about text written
under the lock. `main()` prints "Opening PST file and indexes..." without the lock and without a flush (readpst.c:616). When
standard output is a file or a pipe, this text may still be in the buffer when a child is forked for a mail
(readpst.c:334), and appear once more; no property here covers it.

**XAttrib** (`MCValues`, `ValueProofs`). The list is a sequence, as its walks only go forward. `Half` is 0x8000; maps are not cut
to 16 bits, as in the code, where a field of 32 bits holds them.

**Lzfu** (`MCValues`, `ValueProofs`). One action per group, token and copied byte. The input is chosen as it is read, as no
byte is read twice; a dictionary reference may point anywhere, also at what it is writing.
`history` is the text without any limit, which dictionary and output are compared with.

**StringBuffers** (`MCValues`, `ValueProofs`). Texts are sequences of characters that only have sizes; iconv converts what fits, one
character or shift at a time. The three callers differ in how much room they ask for and in whether
the terminator is part of the text, which is what makes the loop end.

**IconvTargets** (`MCValues`, `ValueProofs`). The static variables of `vbuf.c`. The functions that close and open are operators from states
to (sets of) states, because failed conversions call them from within others. `open` says what
each descriptor of the library converts; the library may give out a closed one again.

**MCValues** and **MCForked** each hold several components that do not touch each other's state. A
behaviour takes the steps of the one that `part` names in its first state, and the others stay
where they are, so the states of the run are those of its parts one after the other, not their
product. `MCValues` has what a value passes through on its way out of the file: PropertyBlock, XAttrib, Lzfu,
StringBuffers, IconvTargets. `MCForked` has what processes share besides the pool: DebugLock, OutputBuffers,
FileHandle; DebugLock and FileHandle have their processes from `ForkedProcesses`, OutputBuffers has its own.

## 3. The runs

| Run | Shows | Bounds |
|---|---|---|
| `fork_pool` | Slots are conserved with failures too; `child_processes` is not overrun; while a process is blocked in `sem_wait`, another one that will post is not; each folder is processed once; no child outlives its parent; the run ends. | 7 jobs in three levels, 2 slots, 6 process ids, 1 failure. Two slots and nested folders give a child that forks, a full pool, a lost race for the last slot and a child that posted but still waits; one failure is enough to lose a slot at any point. |
| `desc_tree` | The pointers are consistent at every step of every loop; nothing is lost, visited or freed twice; orphans are always picked up; all loops end; the pointers implement `DescForest`, which makes every search complete and keeps the children of a node in place. | 4 nodes (three records and the invented top), ids 1..3: repeated ids, self parents, cycles of parents, three orphans of one parent, chains of three generations. |
| `index_tree` | The recursion ends at the depth limit and the table fits its memory; as long as no call has failed, the table is sorted, although bounds come from untested entries; lookup finds exactly the blocks that exist; pointers of descriptors survive. | ids 1..4, depth 2, blocks of 3 entries, 6 entries in all, growth by 1 so that the table moves several times. |
| `block_data` | Complete data in order without failures; well formed base64 across all block sizes, also after failures; a memory buffer holds the size that is returned. | Blocks of 0..4 bytes (every remainder modulo 3), 2 references per table, depth 2, 7 blocks, lines of 2 groups. |
| `output_names` | Without `-w` and without a race between a probe and its opening, no folder loses items; a sequential run has no such race; in separate mode there is none at all; whatever the options, only folders with the same name in the same directory harm each other, and a process dies only where the name of a folder is that of an output file; no empty file stays; the search for names ends. | Four folders with one name, nested and side by side, or the innermost named like an output file (`mbox` with `-r`, `1` with `-S`): all collisions that names can have; every mode, `-w` or not, parallel or not. |
| `fork_failure_hang` | Violation: a failed `fork` loses its slot and the pool can hang. | as `fork_pool` |
| `fork_exit_status` | Violation: a dead child gives exit code 0. | as `fork_pool` |
| `output_overwrite` | Violation: three folders named `a/b`, sequential, without `-w`: one file is overwritten. | as `output_names`, another name |
| `item_parse` | The calls nest no deeper than the tree; each allocated tree has one owner, an open call that built it or an attachment; in the end nothing is left; each attachment has the fields, data and subtree it would have in a message with no other. | Two delivery reports, two or three attachments with reused id2 values, two records, an embedded message, depth 4; every part readable or missing; id2 blocks in a cycle; a file for each field `pst_process` knows and several types of its value. |
| `email_writer` | Parts and boundaries nest; attachments are written once and their files are kept, but for the names made up; embedded messages get headers announced for them, and none is used twice by going back. | Up to three attachments, two levels of embedding, headers of up to five chunks, five names that collide with each other and with suffixes; all combinations of bodies. |
| `property_values` | PropertyBlock: every buffer is owned once at every step of every failure; the objects and elements the caller gets are counted right, were filled from records, and have the data their size speaks of and a type; rows follow the pages. XAttrib: the last record of a type wins, none is lost, the list is sorted. Lzfu: the ring holds the last text, the output is its beginning and long enough, input is used to its end. StringBuffers: buffers hold what is written, terminators included; the loop ends but for one named case (`ShiftStuck`). IconvTargets: no descriptor is lost, closed twice or used for another charset. | PropertyBlock: 2 sub-blocks, 2 elements, 3 objects with 3 elements in all, rows of 2 or 3 bytes on pages of 4: pages with one and with two rows. XAttrib: 3 records over 4 maps, two of them beyond the types, 2 targets. Lzfu: a ring of 5 that starts with 2 bytes, copies of up to 4, groups of 2, blocks of up to 9 bytes, sizes that wrap at 13: the ring wraps, copies overlap themselves and the place of the zero. StringBuffers: texts of up to 4 characters of every ratio of input to output, buffers of 2 and 3 bytes, which are grown by all branches of `pst_vbgrow`. IconvTargets: 3 charsets, 4 descriptors: one more than are ever open. |
| `forked_processes` | DebugLock: messages written under the lock are whole and unique in both files; the lock is free, held or lost by a kill; without such a kill all processes end. OutputBuffers: no item is lost, first copies are in order, text is doubled only if it was in a buffer at a fork, in separate mode never. FileHandle: reads get their position, but in the window of the fork or after a named failure; only a failed `fopen` closes a stream, only the last two failures lose the directory. | DebugLock: 3 processes, 3 messages, 1 kill: a holder and two that wait, one of them a child. OutputBuffers: four folders, nested three deep, with items before, between and after the subfolders; 4 processes. FileHandle: 3 processes (a child of a child, and siblings), 2 positions (the right one and a wrong one), one level of folders: the directory of the file, and one that is not. |

Deadlock checking is off where the modelled program ends: a terminated run has no successor.
`Terminates`, `LoopsEnd`, `EveryFolderDone`, `ConversionEnds` and `LogEnds` say that it does not stop
before. The type invariants of DescTree, IndexTree, OutputNames and ItemParse are conjuncts of `LinksConsistent`,
`LookupFinds`, `OnlyNamesakesHarm` and `TreesOwned`; those of ForkPool, DescTree, DebugLock, FileHandle and PropertyBlock are proved
(section 5).

**Fairness.** `FairSpec` of ForkPool and of OutputNames assume weak fairness
for every process (`WF_vars(Run(p))`, `WF_vars(Work(f))`): the operating system schedules
runnable processes. Nothing is assumed about which process gets a slot, and no failure is ever
forced. Weak fairness suffices for `sem_wait` because a process that finds the semaphore taken
again and again is waiting for a bounded number of forks. `FairSpec` of DescTree assumes weak fairness of the
one thread inside its loops, and none for new records, which a client may never add. DebugLock
assumes weak fairness of every process (`WF_allVars(InLog(p))` in MCForked); nothing is assumed about who
gets the lock, which is enough because the messages are bounded. StringBuffers assumes that the one
thread goes on (`WF_allVars(InString)` in MCValues).

## 4. Findings

- `fork_failure_hang`: a process whose `fork` fails keeps the slot it took (readpst.c:209-213); a
  sibling that read the semaphore before waits for ever.
- `fork_exit_status`: `exit(status)` with a wait status (readpst.c:181) turns exit code 1 into 0;
  folders are missing and `main()` reports success.
- `output_overwrite`: the bumped name is probed before `check_filename` (readpst.c:2465) and opened
  after it (2479): the probe sees no existing file.

Other deviations the models show. No run is spent on them: a property of a passing run names each
as its only exception, so that anything beyond it is a violation.

- With `-w` folders of the same name share a directory and delete each other's files, and in parallel
  runs two folders of the same name can open one file (`KeptUnlessRaced`, `OnlyNamesakesHarm`).
- A folder whose name is that of an output file ends the process: with `-r` a folder `mbox` cannot be entered
  (`mkdir` says EEXIST, `chdir` fails, readpst.c:869-880), with `-S` a file whose number is the name
  of a folder cannot be opened (972-976). `OnlyNamesakesHarm` names these deaths (`Refuse`,
  `WriteRefused`), and `EveryFolderDone` excuses the folders that die with them.
- The comment at readpst.c:1779-1781 says the extra headers are taken from the outermost message only,
  but 1782 takes them from any message as long as there are none: the string may belong to an
  embedded item that `write_embedded_message` frees (1173) before the next embedded message searches
  it (2024, 1735). `BorrowedHeaders` speaks of headers that are still there (`alive`).
- `process()` does not flush the files of a folder before it forks for a subfolder (readpst.c:281), and
  the child ends with `exit(0)` (294): what was in the buffers is written by both. `ItemsWritten`
  allows a second copy of exactly these items (`copied`).
- `try_fork` ignores the result of `pst_reopen` (readpst.c:219); when that fails before `fclose`
  (libpst.c:399-400), parent and child work with one file position, and when it fails after it,
  the child has no stream or another directory. `ReadsRight` and `HandleKept` name these failures
  (`exposed`, `failed`).
- The loop in `sbcs_conversion` asks for twice the input that is left (vbuf.c:83), which is no
  growth when that much is free: a last character of one byte that needs an escape sequence of three
  bytes first is tried for ever. iso-2022-jp is such a charset (libpst.c:4756, 4780).
  `ConversionEnds` excludes exactly this state (`ShiftStuck`).

The following are left as they are too:

- a failed read in the middle of an attachment: `pst_ff_compile_ID` returns 0 (libpst.c:4419-4422,
  4470-4475) while earlier blocks are already in the file;
- the description of a journal entry, which `pst_freeItem` never frees (libpst.c:3854;
  `NothingLeft` names it);
- a record of several objects, which the code itself expects to overrun (libpst.c:1466): its later
  objects are processed into the attachments of the rows behind it, which `AttachmentResolved` therefore
  only speaks of up to the first such record;
- the names made up for attachments without one, which are not probed (readpst.c:1102-1106), so that
  they replace a file of that name (`AttachmentsKept` names it);
- the borrowed headers: the pointer stays at a chunk that was used, so two embedded messages
  side by side that both lack headers can get the same ones;
- an embedded object (type 0x0d) whose id2 cannot be read at all: there is no data then, and
  libpst.c:2030-2031 reads the id from it (`LaterElement` leaves this out); when only its
  data cannot be read, the id is read once more from a buffer that may have been moved or shrunk
  (2035-2037, modelled as any type of the element, `AfterObject`). Line 2068 then replaces a type of 0 by 0x0d, and an id
  that was put off (2010) may be the number of a type as well. So the type of an element does not
  tell whether its data is there; its size does, which `ElementsSound` says. The comment at `LIST_COPY` (libpst.c:2119-2122) guards
  against an element with a size and without data: `pst_parse_block` never returns one;
- a unicode string that is to be read later becomes an empty string with an id2 as its type.

## 5. The proofs

`ForkPoolProofs` proves for every job tree, every finite set of processes and every number of slots,
from the named assumptions of ForkPool on its constants:

- `PoolTypeOK`: the type invariant. It is inductive only with the parts `HasFrame` and
  `HasCandidate`: a process inside `try_fork` has an activation, and the activation has a
  candidate; they are conjuncts of `TypeOK`.
- `PoolSlotsConserved`: inductive given `TypeOK`. Each step of a process changes the sets `Holding`
  and `Claiming` by at most that process (and its child); `EndWith` moves what it held to `leaked`.
- `PoolWorkersBounded`: from `SlotsConserved`, since all working processes but `main()` hold a slot.
- `PoolSlotHolderRuns`: inductive given `TypeOK`. The process that empties the semaphore (`SemWait`) is
  itself about to fork and becomes, or creates, a runner; a runner stops being one only by
  `Post`, which raises the semaphore, or by a failure, which raises `leaked`. This is why the
  pool cannot deadlock on its semaphore.
- `PoolChildrenOutlived`: from `FamilyInv`, which without a failure says that the parent of every process lives and
  has it in its list (`Listed`), and that `grim_reaper(1)` stays at the start of the list, so that a process
  only leaves with an empty one. `RemoveChild` moves the entries behind the removed one; `StillListed` shows
  that none is lost.
- `PoolChildrenBounded`: from `RoomInv`: between the test in `try_fork` and the append the list
  of the process does not grow, so there is still room for the child.

The last part of the module proves `PoolFoldersOnce` (`EachFolderOnce`), which also needs `TreeAssumption`: the jobs are a
tree. With failures, too: what is on a stack was entered and what lies behind it on its list was not
(`FramesOpen`), and no job is on two stacks (`FramesApart`), so the candidate that is entered is new. Without
failures whatever was found but not entered is still `Ahead` of some activation, and whoever has left its
activations has none (`Work`). `Ancestry` says that every set of processes has a member whose parent is outside it,
so that they all come from `main()`: when `main()` has ended, `FamilyInv` leaves nobody, nothing is ahead
of anybody, and the entered jobs are closed under `Kids`, hence all.

`DescTreeProofs` proves `TreeLinked` (`LinksConsistent`) for any number of records with any ids in any order (from
`NodesAssumption` and `IdsAssumption`). That every list is linked in both directions is not inductive: a circle
beside the list would be linked, too, and counted. `TreeInv` therefore has `Acyclic`: every set of hooked nodes has one
whose `next` is outside, which unlinking, moving and appending a node keep (`EndsPart`, `EndsMove`, `EndsAppend`).
`Walks` says that a walk stays in a set of hooked nodes closed under `parent`, so that it never meets the
node that is being recorded.

The same module proves `ParentsFound` (`NoLostParent`) and `NodesOnce` (`EveryNodeOnce`) by `OrderInv`. `Grounded` says that
parents do not run in a circle: a node is hooked under another one only after a walk that
has not met it, and an adopted node had no parent. `WalkOnce` says where a walk is and what it has seen: it stands at the end of one way down from
the top level (`WayDown`), whoever was compared came after its parent and the node before it (`Visited`), and
so the next node is new and a walk that ends has seen everything (`AllSeen`). `Settled` says what the loops of `record_descriptor` owe: what the adoption loop has
passed does not ask for the new node (`Passed`), who has a parent asked for it (`Matched`), and an orphan's parent is
only found below itself (`Orphans`). `FreeOrder` recurses over two pointers, so that `Region`, the nodes it
is to list, is split in those below its first node and those behind it (`Below`, `Behind`); that each of the two
parts takes one level less is shown by `SetInduction` on the number of levels.

The last part of the module proves the refinement, `TreeIsForest` (`ImplementsForest`), from the same assumptions. `Listing` says that
the sequence gathered along `next` from the head of a list spells it (`Spells`): each node of the list once, each leading to
the one after it, the last to none. It follows from no invariant of the pointers by itself, so it is kept through the steps: what a hook
does to the list is an `Append` (`SpellsAppend`), what the adoption does to the top level a `RemoveAt` (`SpellsLeave`), and
nothing else touches a list (`FrameLists`, `StartLists`). `Asked` adds that the top of folders is looked for by an id the message
store may name. With these two the invariant is `ForestInv`, and each action is one of the forest or a stutter (`StepForest`): the
orphan taken in is the first in the list that waits (`FirstWaiting`), since the loop has passed those in front of it; when
the loop is over nobody waits (`NobodyWaits`); a search that ends without a node has none to find (`NoneFound`); and the node it
stops at is the first in preorder (`FirstFound`). For the last one, a node with that id that was not compared either is
below the place of the walk, or hangs on the way down to it behind the node where the way goes on (`FirstUnseen`, `Earlier`).

The proofs are organised by action: lemmas say what `EndWith`, `CallProcess`, `ForkChild`, `Reap`
and `Return` preserve, a step lemma splits `Next`, and each theorem ends in a temporal step.

`ValueProofs`, first part, proves, for any number of sub-blocks, elements and objects and any sizes of pages and rows
(from `BoundsAssumption`), `BlockBuffersOwned` and `BlockElementsSound`. The inductive invariant is
`Inv == Types /\ Owned1(heap, subs, ptr, list) /\ Phase`. `Owned1` says three things of sub-blocks, pointers and
elements together: whatever is allocated has an owner, owners own what is allocated, and no two own
the same. `Phase` says what exists at each program counter, and that all objects but the one being
filled are complete: only with it can an early return hand out its list. That an element is sound (`GoodSlot`) is
shown for each way it is filled (`AfterAdds`, `LaterAdds`). The lemmas are
about `GetPointer` and the ways an element is filled; the step lemma has one step per action.
`RowsWhereTheyBelong` (`RowsInPages`) says that the position which the code keeps by addition and comparison is the
one that division gives: row `d` lies on page `d \div rows` at place `d % rows` (`Lies`). `NextPlace` is the step: the next row
either fits on the page or begins the next one, as the quotient and the remainder do.

The other parts of `ValueProofs` prove the safety of the four components a value goes through after that, for all
values of their constants (from `AttributeAssumption`, `BufferAssumption`, `LzfuAssumption`, `TargetsAssumption`):

- `LastRecordRenames` (`AttributesFound` of XAttrib). `AttributeInv` says that the list is `Sorted`, has every entry as often
  as it came (`AllKept`), has an entry for every map that came (`MapsCovered`), and that the first entry of a map is the newest
  record for it (`FirstIsNewest`), which is what a lookup stops at. The last one needs that `Insert` goes before
  its equals; it is the part the mutant `InsertAfter` breaks.
- `BuffersNeverShort` (`BufferHolds` of StringBuffers). The invariant adds to the property only that a buffer is empty before the loop
  and the text used up behind it; the work is in `GrownHolds`, which says when `pst_vbgrow` makes room for
  what it was asked for: not always, if that is more than one byte, which is where `ShiftStuck` comes from.
- `TextAsCompressed` (`TextDecompressed` of Lzfu). `Window` states the ring by remainders: places less than a ring apart
  differ (`Apart`), places a whole ring apart agree (`Wrapped`). `Paid` gives the bound on the output: each byte of
  input pays for `MaxCopy` bytes of output, and a reference takes two of them before it copies anything.
- `DescriptorsNeverMixed` (`DescriptorsRight` of IconvTargets). The operators of the module map states to states, so the proof
  has a set `Good` of states in which the descriptors that are open are those that are kept, and shows of each
  operator that it stays inside; a failed conversion that opens its descriptor anew is two of them in a row.

`ForkedProofs`, first part, proves `LockNeverDoubled` for any number of processes, messages and kills (from `LockAssumption` and
`ProcessesAssumption`).
`LockInv == Types /\ KilledEnded /\ LockAccounted`: a killed process does not get up again, so that it is
counted once. Two lemmas do the work: a step of a live process keeps the count whatever it does
(`StepKeeps`), and a kill moves a holder to the killed (`KillKeeps`). `MessagesNeverTorn` (`MessagesWhole`) rests on
it: `TextInv` says that only the holder of the lock has text in a buffer (`Flushed`), that a stream with the text of the holder's
buffer behind it is made of whole messages, its own the last of them (`Ordered`), and that a message which has not begun
is nowhere (`Numbered`), so that none is there twice. A process killed in the middle of a message leaves half of
one, but the lock with it, so that nobody writes behind it.

The second part of `ForkedProofs` proves `ReadsGetTheirData` and `HandlesKept` for any number of processes, depth of folders
and set of positions (from `HandleAssumption` and `ProcessesAssumption`). `HandleInv` has, besides its types, the parts: processes
are forked in order (`InOrder`), a description has one maker (`OneMaker`), whoever shares one has
an inherited stream on one side (`Shared`), a read that began undisturbed has its description to
itself until it ends (`Alone`), where a process is inside `pst_reopen` (`Places`), and who has no stream
(`Streams`). `Alone` is the argument: between `fseeko` and `fread` nobody can begin to share the
description, as only the reader could fork.

The third part proves `ItemsNeverLost` (`ItemsWritten`) for any folders and items and any number of processes (from
`EntriesAssumption`: every item and every folder but the first is in one place, and every folder is below the
first). The invariant is `WritersInv(E)` for some set `E` of folders, those that were entered; the state does not keep it, so each
step lemma shows which set the next state has. `NestedIn` says that the folder of an activation is the last entry the one around
it went over. A child inherits the activations around its own, so that several processes have loops over one folder, but
only one moves: `AllPlaces` has the loops each process was forked for, and `ProgressIn` says that no folder has two of them
and that a folder was entered if and only if its entry was passed (`PassedIn`). The text is told by `Together`:
`BufferFor` says that whatever an activation passed is in its buffer or in the file, and
that a buffer continues the file in order, so that a file keeps its order however many copies are written to
it (`TextOf`); `Kept` that an item is nowhere until it is passed, then somewhere, and without a copy in one place. Separate mode has
`Apart` instead: buffers are empty, and an item is in its file, or left to one process that is about to write it. When
all have ended no loop is left, so `E` is closed under subfolders, hence all folders, and every item was passed (`AllPassed`).

`IndexTreeProofs` proves `IndexLoadedSound` for any file, sizes and depth (from `SizesAssumption`). The inductive
invariant is `IndexInv`: besides types and bounds, the frames of the recursion are `Nested`, each
within the ids its caller gave it, and everything in the table is `Below` what the innermost frame may
still add. A bound comes from an entry that is tested only later, so `Nested` and `Below` hold as long as
no call has failed, and the table is sorted (`Sorted`) for the same time. `LookupCorrect` (`LookupFinds`) adds what `pst_getID`
returns: that the recursive function `Search` exists (`SearchEquation`), that a place it returns holds the id
(`SearchLocated`) and that it misses nothing in a sorted table (`SearchReaches`), by induction on the length of
the range. `PointersStayValid` (`DescPointersValid`) needs to know that the table does not move while descriptors
point into it. `Fits` gives its size: each open call gets a weight, that of its caller and the entries its
caller has left, and the innermost one's with the budget bounds the table.

`BlockDataProofs` proves for every depth, block size, number of references and length of lines (from the
assumptions of BlockData) `AllDataArrives` (`DataComplete`), `Base64Decodes` (`Base64WellFormed`) and `BufferNeverShort`
(`BufferHoldsSize`). `DataInv` says what is in the destination while blocks are read (`Holds`): with base64, whole groups of three bytes in
full lines but for the last, and the one or two bytes that wait for the next block behind them; and what is there in the end
(`Arrived`), where the last group may be short. The lemmas say what joining sequences (`FlattenSeq`) does when one is
appended at either level, and that encoding a piece (`WriteGroup`) continues the last line.

`WriterProofs`, first part, proves `FoldersKept`: for any tree of folders in any mode (from `FoldersAssumption` and
`ModesAssumption`), `Spec => []KeptUnlessRaced`, if no name needs cleaning (`CleanNames`; with names like `a/b`
the property is false, which `output_overwrite` shows). The invariant is
`Whole == Types /\ Separate /\ KeptInv /\ ChainInv /\ ProbeHolds`. `Kept` ties inodes, names and folders together: an inode is
only found under the name of its maker, and a folder that has written finds its items there. `Chain` says that
the active folders of a sequential run are one path from the top, so that only the innermost moves,
and `ProbeHolds` that its probe is therefore still true when it opens the file.
`HarmByNamesakesOnly` (`OnlyNamesakesHarm`) assumes nothing about names: `PlaceInv` says where each folder's directory
lies in the tree of directories and what it is called there, so that two folders at one place have
one name, and `Lone` that whoever has a name to itself finds its files as it left them.

The second part of `WriterProofs` proves the three properties of EmailWriter for all messages that satisfy `MailsAssumption`:
any number of them with any headers, bodies and attachments, which embed each other to any depth,
but none itself: a message embeds messages with greater numbers only. In a damaged file that is not so,
and the boundary of such a message is then opened inside itself; how often is bounded by the id2 trees, which ItemParse has.

- `HeadersNeverGoBack` (`BorrowedHeaders`). `Borrowing` adds that the string which is shared belongs to the message all borrowed
  headers came from and is at or behind the chunk that was borrowed last (`BorrowedBefore`), and that where
  it can be read next, it is at the last chunk or behind one that announces a message (`ExtraRight`): the outermost call leaves
  it wherever it likes, but `EmbedMessage` searches before the next call reads it.
- `AttachmentsNeverLost` (`AttachmentsKept`). `OutKept` has for every call what is not yet done, too: no part of the mail carries
  the number of an attachment that waits, calls have different items, and none is greater than the counter (`MailKept`). `FilesKept`
  says that only the outermost call writes files, and of each file whose it is and that its name has the stem of the attachment or
  one of the numbers used so far (`NamedFor`). That a probe ends is `FreeNameKnown`: the names tried differ
  (`SuffixedKnown`), and there is one more of them than there are files.
- `MailsWellFormed` (`MimeWellFormed`). `Legal` says that a text leads from one state of the boundaries to another, a state being the
  boundaries that are open and whether a multipart is due. `MimeKept` says that the mail file leads from `Nothing` to `Now`:
  the boundaries of the calls that are past their headers, from the outermost inwards. Each action appends a text that leads from `Now` to the next
  one. Opening a boundary needs it not to be open already, which is `DeeperLater`: deeper calls have
  greater messages. The recursive function `OpenAfter` is then shown to be the first half of such a trace.

`ItemParseProofs` proves `EveryTreeOwned` (`TreesOwned`) and `NothingIsLeft` (`NothingLeft`) for every file that
satisfies `FilesAssumption` (ids of blocks are not 0, records are triples of numbers, elements are of one of the
kinds `pst_parse_block` makes) and every `MaxDepth`. Blocks may lead anywhere, back to themselves too. The inductive invariant
is `LifeInv`: `Heap` (types, and what was lost), `FrameOK` and `ItemOK` for every call on the stack, `ItemOwned`
(items and calls belong to each other) and `Owned`: every tree is held by exactly one attachment or by the call that built it.
Ownership alone is not inductive, since an embedded message is read through a borrowed tree: `FrameOK` says that only
the first call builds one and only the innermost call parses, and `Height` bounds how far the nesting goes. A tree that
is built has at most `MaxDepth + 1` levels (`BuiltHigh`), the copy an attachment keeps lies two levels below the tree it
was found in, so call `s` can read `MaxDepth + 3 - 2s` levels, and a call with none finds nothing to embed.
`StorableFreed` compares the tables of `pst_process` with the list in `pst_freeItem`: every field a
macro can store is freed, but the description of a journal entry. Heights are stated by families of sets
of trees (`Levels`), as induction over the trees is not available.

From the same assumptions the module proves `AttachmentsKeptApart` (`AttachmentResolved`): what the attachments of a message
hold. The property compares each of them with a message that has no other, so the lemmas compare two runs of
`pst_process`: a row reaches the attachment at its place and does there what it does to an only one (`RowPlace`,
`ListPlace`, by induction over the elements and the rows), and a record does the same for the attachment it was looked
up for and those behind it (`RecordPlace`). The invariant `PairInv` says for each place of a call which attachments it has made
(`Stage`): those of the reports, then those of the table in front of them, then with the records of the first `at - 1` read
(`ByRecords`). It needs `LifeInv`: that the tree a call searches is the one it built or borrowed, and that the copies
of finished attachments are still allocated and unchanged while embedded messages are read (`CopiesStay`), which is where
ownership comes in.

**What the provers allow.** The induction theorems of the library take an operator, which they cannot
instantiate. Where induction over numbers is needed, the proofs have it from the well-foundedness of the order on sets
(`SetInduction`: a set with 0 that is closed under successor is `Nat`). The equation of a recursively defined function is proved from the existence
of such a function, which is found by the same induction (`SearchEquation`, `JoinsType`). This works for functions of one
argument, so functions are written that way where proofs need them.

Every invariant of a passing run is a theorem, and so is the refinement of `DescForest`.
Out of the prover's reach and model-checked only: liveness under fairness (`Terminates`, `LoopsEnd`, `EveryFolderDone`,
`ConversionEnds`, `LogEnds`).

## 6. Limits of the models

- ForkPool: `fork` without the stdio buffers and file offset that the child inherits, which OutputBuffers and
  FileHandle model without slots: there a process may fork whenever a process is left, which includes what
  the slots allow. Signals to `main()` are included, but no signal handlers.
- OutputBuffers: one stream per folder, processes that do not fail. FileHandle: `main()` is not killed, and what a
  read gets from a closed stream is anything. DebugLock: the stack of function names, the
  unlocked message of `main()` (readpst.c:616), and runs without
  shared memory, which are sequential and have no lock.
- StringBuffers, IconvTargets: iconv is external, as sizes of characters and as descriptors. Sizes do not overflow.
- Lzfu: blocks shorter than the header, which the function refuses first.
- OutputNames: attachments, `.type`, `.size` and the kmail index are left out; mkdir, chdir and fopen do
  not fail for other reasons than an existing name; a directory that was removed and made again counts
  as the same.
- BlockData: encryption, and the sizes of blocks on disk.
- IndexTree: field decoding, and the three file formats, which differ only in field widths.
- ItemParse: allocation does not fail; the exits after an error of `pst_process` are left out, since it only
  reports one when called without an item; numbers are kept where they are an id2, a
  method or a sequence number, strings where they are a message class.
- PropertyBlock: what an element contains, and the renaming of properties, which XAttrib has.
- EmailWriter: the sender, dates, charsets and encodings; calendars and vcards; attachment files of
  different messages, which have the number of the message in their names. Boundaries are
  told apart by the block id of the message, as in the code: the model gives different messages
  different ids, which the index guarantees unless a file embeds a message in itself
  (`MailsAssumption` excludes that; how deep such a file is followed is in ItemParse, which allows it).

Not modelled: recurrence, times and escaping, which are pure functions of one record without a
second definition in this repository to compare them with; the other programs, which walk the same tree
and print; vcards, calendars and journals, which format one record each; option parsing,
bindings, vendored code, build files.

## 7. Plan

What the development has left, in this order:

1. The `.type` and `.size` files and the kmail index of a folder.
2. Recurrence and rfc2426 escaping against definitions over bounded inputs.
