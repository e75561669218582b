# CalcOS in TLA+

A verification development for the CalcOS kernel (`src/`): TLA+ modules of its
parts, TLC configurations that check them on small instances, and theorems that
TLAPS proves for every value of the constants.

## The system

CalcOS is a small 32-bit kernel for x86 (with a thin RISC-V port).  One address
space, one processor, no memory protection between the tasks; everything that
goes on at the same time does so because of interrupts: the timer (task
switches), the keyboard, the mouse, the disk, the network card.

| part | state | operations | talks to |
| --- | --- | --- | --- |
| kernel heap (`kernel/mm.c`) | a list of blocks headed in the heap itself | `kmalloc`, `kfree` | every part that makes a task or a buffer |
| tasks (`task.c`, `sched.c`, `signal.c`, `idt.c`) | the ring of `Task` records, `current_task`, `next_pid`, pending signals | `create_task`, `delete_task`, `schedule`, `send_signal`, `check_signals`, `exception_handler` | heap, timer interrupt |
| shell and programs (`kernel.c`, `init.c`, `syscalls.c`) | `bin_running`, `keyboard_lock`, the program at 0x400000 | boot, command, `SYS_EXEC`, `SYS_EXIT`, `SYS_WAIT_STRING` | tasks, keyboard, files |
| keyboard ring (`keyboard.c`) | `kbd_buffer`, `kbd_head`, `kbd_tail` | `kbd_put_scancode` (interrupt), `get_scancode` | line input, desktop, `SYS_READ` |
| line input, hotkeys, clicks, desktop (`keyboard.c`, `keyboard_x86.c`, `mouse.c`, `desktop.c`, `kernel.c`) | mode, windows, buttons, tabs, `ncount`, `ctrl_pressed` | `input_wait_string`, `handle_hotkeys`, `check_ui_clicks`, `graphics`, the loop of `system` | keyboard ring, files |
| files (`fs/fat12/*.c`, `fs/vfs.c`) | FAT, root and data on the disk; `fat_table`, `root_buf`, `cached_fat`, `disk_initialized`; two tables of descriptors | `vfs_open`, `vfs_read`, `vfs_close`, `vfs_create`, `read_file` | disk driver; shell, `SYS_EXEC`, `cat`, `touch` |
| disk driver (`ata.c`) | `use_ram`, `ata_interrupt_received` | `ata_read_sector`, `ata_write_sector` | disk interrupt |
| network (`net/*.c`, `rtl8139.c`) | ARP cache, `tx_counter`, `rx_offset`, the card's ring | `net_ping`, `net_receive`, `rtl8139_send`, `rtl8139_poll` | card's interrupt, `ping` |
| Forth (`forth.c`, `forth` of `manual_x86.c`) | a stack that grows, in the heap; the text `content` | `interpret` and its words | heap, tasks, files |
| multiline editor and assembler (`multiline.c`, `casm.c`) | one buffer and a cursor; a line and the bytes so far | `input_wait_multiline`, `assemble_to_bin` | keyboard ring, files |
| mouse packets, screen, sound, CMOS, PCI, paging, boot | device registers, pixels | straight-line configuration and drawing | - |
| RISC-V port | one thread | the shell's loop over UART or virtio | heap |

What is hard here: the heap without a lock, tasks linked into a ring while others
run over it, crashes handled by looking past at most four tasks, signals that
stop the timer, one keyboard for a shell and a program that do not know of each
other, modifiers decoded late, a mode changed by an interrupt in the middle of a
line, disk writes in an order that a failure of the power may cut, a copy of
the FAT that is older than the disk, a disk that is given up after a wait, an
interrupt that sends while the shell is sending, and stacks that grow in a heap
that may be full.  `hazards` in `PROJECT.json` lists them
line by line, with the properties that cover each.

## The modules

| part | model | properties | instance | proofs |
| --- | --- | --- | --- | --- |
| heap | `Heap` | `HeapProps`, abstract `Allocator` | `MCHeap` | `HeapProofs` |
| tasks | `Tasks` | `TasksProps` | `MCTasks` | `SystemProofs` |
| shell and programs | `System` (extends `Tasks`) | `SystemProps` | `MCSystem` | `SystemProofs` |
| keyboard ring | `KeyBuffer` | `KeyBufferProps`, abstract `KeyQueue` | `MCEditor` | `EditorProofs` |
| line input and desktop | `Console` | `ConsoleProps` | `MCConsole` | `ConsoleProofs` |
| editor, assembler | `Editor` (extends `KeyBuffer` and `Casm`) | `EditorProps` | `MCEditor` | `EditorProofs` |
| files | `Files`, and its table as bytes, `FatTable` | `FilesProps`, abstract `FileStore` | `MCFiles` | `FilesProofs` |
| disk driver | `Ata` | `AtaProps` | `MCAta` | `AtaProofs` |
| network | `Net` | `NetProps` | `MCNet` | `NetProofs` |
| Forth | `Forth` (extends `Words`) | `ForthProps`, abstract `StackMachine` | `MCForth` | `ForthProofs` |

An operator whose comment begins with "Mutated" or "Mutant" is a version of the
next definition with a plausible mistake in it; no specification uses it.  It is
kept to show that the properties notice the mistake.

**Heap.**  `kmalloc` and `kfree` are one action per turn of each loop, one for the
split and one for marking the block, so that a tick may come anywhere
(`KmallocScan`, `KmallocSplit`, `KmallocTake`, `KfreeFind`, `KfreeMerge`).
Addresses are numbers, `size_t` wraps at `SizeMax + 1` (`Wrap`), and headers lie at
addresses in `mem`.  Calls of two tasks may overlap in the code, which takes no
lock; an overlapped call corrupts the list in any way, so the history variable
`overlapped` records it and the promises are stated for runs in which it did not
happen.  `Allocator` says what remains when the list is hidden: disjoint ranges.

**Tasks.**  A task is its pid; the ring is the function `next`.  `CreateTask` draws
the pid with interrupts on, `LinkTask` inserts behind the creator later.  `Timer` is
`check_signals` followed by `schedule`, `Crash` is `exception_handler` for a task,
which resumes the next active task it finds among four and replaces pid 3 once;
`CrashEnds` has the tick that may come in its middle, `create_task` having left
interrupts on (the few instructions after `current_task` is set are left out).
`Garbage` is what `pending_signals` of a fresh record may hold: the code never
writes it.  No record is ever given back, so the heap's size is a number of tasks.

**System.**  The roles the tasks were made for, with `bin_running`, `keyboard_lock`
and the load address.  The shell, and any program, may call `SYS_EXEC`
(`ShellExec`, `ProgramExec`, both `Loads`, then `Makes`), which asks neither who calls
nor for `bin_running`.  `chained` records that a program did: it overwrote itself
and every other program (`ImageIntact` stops there), and one program may then spin for
the other's lock with interrupts off.  `cut` records that `SYS_EXIT`, of an
interpreter or of one of two programs, cleared `bin_running` beside a program, after
which little is promised, because the code keeps little.  The same goes for a sixth
crash: `exception_handler` then may find none that is active among the four it looks
at and resume a crashed task.  `Spared` is neither.  A `SYS_EXEC` of the shell that finds
no file (the disk did not answer) or no room leaves `bin_running` set, and the shell
then waits for ever: `PromptReturns` says what follows once it is cleared.

**KeyBuffer, KeyQueue.**  The ring with its two indexes, each operation one step
since interrupts are off, and the bounded queue it implements.

**Console.**  The loop of `system` with its modes, a program that reads lines, codes
or texts, keys, clicks and the picture.  It uses the queue, not the ring.  Commands
that read for themselves are steps: `Casm` and `Asks` (the line of `casm` and `su`,
called "own"), `Edit` (`touch`, and `SYS_WAIT_MULTILINE` of a program), `Cube`.  They take
codes from the same ring without the console's modifiers, and look at `ncount` never:
what `casm` and `su` read is carried out even if it was cut.  `Beside` is what other
tasks do to the console: an interpreter's `SYS_EXIT` clears `bin_running` beside a
program, and a screen that is full is cleared, which asks for a redraw and cuts lines.
A code carries what was held when it was struck, as history, which is what
`StruckAsMeant` compares with the decoded modifiers; `unheeded` has who missed the last
code of a modifier.  `shown` is the picture last drawn, `ncount` the request to draw
again.  One program is there at a time; what programs do that start others is in `System`.

**Files.**  `create_file` is a step per sector read or written with the computation
that follows it: `ReadTable` (write.c 26-38), `ReadRoot` and `PutEntry` (40-61),
`WriteTable` (63-65), `WriteData` (67-82).  `fat12_open` and `read_file` share
`ReadCache` and `Search`; `ReadCluster` follows the chain in the copy of the FAT;
`Describe` and `Close` are the descriptors of fat12 and vfs.  The commands `Cat` and
`Casm` open a file, read it once (`ReadDescribed`) and close it: cat by `vfs_read`, casm
by the system call, for which descriptor 0 is the keyboard (`sys_read`).  `PowerFails` may come
between any two steps, leaves the disk and clears the memory.  A file that the
kernel makes has one cluster; an image may hold longer ones.  The table may have
more clusters than the disk, as the real one has (3072 entries, 2847 clusters).
`chain`, `whole`, `settled`, `saved` and `fd_slot` are history.  `spoiled` records
that two creations overlapped (`Collide`), which share static tables, that a transfer
of one task met another's (`Meet`: the task switch comes in the wait of ata.c 118-125,
and what the disk then does is in `Ata`), or that the search for a free cluster ran
out of the table; nothing is claimed then.  Openings share only the copy of the FAT and
the descriptors, and overlap freely between their transfers.  `robbed` has the tasks
whose descriptor another task closed between opening and reading: `cat` may then show
the file that was opened in its place, which `FileStore` allows and `LoadsWhole` excepts.
`lost` has the clusters that are marked for no file: a creation in a full root marks
one (`Unentered` are those of one that is cut off in the middle of it).

**FileStore.**  The same without sectors and tables: names, texts, what each task asks
for and what it is given.  A creation enters a name in one step and gives it its text
in a later one; between them, or for ever if the power failed there, who asks for
the name may be given anything.  A call that reads answers in one step with a file
that has the name at that moment, with all of its text as it is on the disk, or with
nothing; only a `cat` that was robbed of its descriptor may answer with another file.  `Named`, `Texts`, `Asked` and `Answers` of `FilesProps` are what the store
sees of `Files`.

**FatTable.**  The same table as bytes, two clusters in three of them, with
`get_fat_entry` and `set_fat_entry`.  `Unpacked` is what `Files` has of it.
`WrittenTo` is a table of which the sectors below one were written.

**Ata.**  The disk with its status, and the driver with the limits of its waits: the
limit may be reached in any wait, at once or never.  `ReadSelect` clears the
interrupt flag before the command, `WriteClear` clears it behind the data, so an
interrupt may be lost there.  `use_ram` sends every call to the copy that the boot
sector left in memory.  The kernel itself lies in that copy, behind the FAT and the
root, and changes it: only the sectors before it are `Kept`; of another a read may
return anything, and a write destroys the kernel (`wrecked`), which is then followed no
further.  The first write looks for the disk once more and may switch back.

Nothing keeps the callers apart: in Explorer mode the shell reads files beside a
program that opens one, interrupts on.  So a call may start in the middle of another,
set its registers, clear its flag or take its words, a command may meet a busy disk,
and a task may be ended in the middle (`Ends`).  `disturbed` records it, and until the
kernel is started again only `CallsEnd` is claimed then: the code promises no more.
The registers are set in one step and the 256 words move in one step; that calls mix
within them makes no difference to what is claimed.  `PowerFails` comes anywhere.

**Net.**  The card's receive ring and status bits, the handler in three steps with
frames arriving between them, the four transmit slots, and the ping command in
steps that an interrupt may come between: a send is four of them (`SendStart`,
`SendRest`, `SendRegisters`, `SendCount`), and each access of `tx_counter` in it
reads the variable or a register, as the compiler likes.  The copying of a MAC
from the cache is two steps.  `spoiled` records that a reply met another send, or
that a slot was filled which the card had not sent; `SentAsBuilt` claims nothing then.

**Words, Forth, StackMachine.**  `Words` says what each word does to a stack.  In
`Forth` a stack lies in a block that `kmalloc` may refuse; `stack_push` grows it, and
goes on with address 0 without a block, as the code does (with stacks of 1024 and texts of
at most 256 tokens a stack never grows in the program as it is; a smaller stack is what
the run has).  Interpreters that have address 0 in common are `lost`.  `word_store` writes
any address: an element of anyone's stack (`StoresIn`), the text (`StoresInText`), nothing
that matters, or a `struct Stack` or the rest of the kernel.  The last is `astray`, and so is
an interpreter without a `struct Stack`; who lost it is "wild", goes on reading
`content` and may be stopped at any word, and nothing more is claimed.  The text
`content` is the kernel's, one for all: `next_token` cuts it where tokens end, so
interpreters cut each other's text, and the shell may load or type another.  `forth`
reads 16 bytes of a file into it; the interpreters that the start of the kernel and the
handler of a crash make (`create_task`) read what is there.  Numbers are read by `atoi`, which passes over a
sign: `-5` is 5.  `StackMachine` has stacks without blocks, of which only a store reaches
another's, in one element.

**Casm, Editor.**  A text is a sequence of pieces, each of which is what one key types.
`Casm` is the loop over the text with its line buffer and its output buffer, folded
over the pieces.  `ByLines` is what it should compute, by counting: which line a piece
is in, what a line keeps, and its instruction.  `Editor` takes codes
from `KeyBuffer`; `meant` is the text as it was struck.

## The runs

| run | question | bounds |
| --- | --- | --- |
| `heap` | do the blocks tile the heap, are allocations disjoint, does every call return, is it an `Allocator` | 66 bytes at an unaligned address, 7-bit `size_t`, requests 0, 1, 8, 45, 125: rounding, whole-block fits, splits of one remainder size to spare, and sizes that would wrap |
| `tasks` | is the ring one ring, does every active task run, what does a lethal signal do | four tasks (three besides the first, so that two may be in the making and one crash), three kinds of garbage |
| `system` | does the shell wait for its program, is it left alone, does the prompt come back, is only one task reading, do crashed tasks stay off | six tasks: the four of boot and two made later, enough for a program beside an interpreter or beside a program it started, and for five crashes, which is what `exception_handler` can look past |
| `keyboard` | does a key mean what it was struck with | two codes waiting, two readers, Enter and one modifier at a time (`OneAtATime`: the two share nothing but the ring), the mouse for the way to the desktop; touch and cube, once begun, go on here, since Escape is not struck |
| `desktop` | is a cut line ever carried out, is the picture current, does a redraw that is due take place, when can the machine hang | every place to click, Enter, Escape and a key that changes the mode, one code waiting.  `DesktopView` leaves out what was drawn before while a redraw is due: the next drawing forgets it |
| `files` | do files survive calls and failures of the power, are they found, are they loaded whole, does cat show its file, are clusters lost, do the descriptors agree, is it a `FileStore` | two tasks, two sectors each of FAT and root with two entries, three clusters on the disk and one that is not there, one failure, two descriptors of fat12 under three of vfs (7 and 32 in the code: fat12's run out first); a disk with a fragmented file behind a deleted entry, and one with a place for one more entry and no room for its cluster.  Files of one name and content are made, as often as there is room, before and behind those of the image, on the second disk beside one of that name.  `Unspoiled` ends a run where nothing is claimed, `Present` forgets what an earlier load read, the tasks are alike |
| `files_edit` | is what was saved last what one reads | one name, two contents: **violated** |
| `files_casm` | does casm assemble the text of its file | as `files_edit`: **violated** |
| `editor` | is what is saved what was struck, does the assembler give each line's instruction, is the ring a queue | a ring of three (two codes: it wraps and is full), four pieces, among them an operand and a separator, texts of three, lines of two, programs of three bytes: each end is reached.  `Going` ends a run when the text is saved or a key was dropped |
| `ata` | does a read return the last write, is a disk given up that answered, does every call return | two tasks; two sectors, one of the root and one where the kernel lies, two values each; a disk that is there, absent, or silent; any number of failures of the power.  A view leaves out what is not read any more |
| `net` | which frames wait without an interrupt, what does the cache hold, do frames go out as they were built | three machines, one of which changes its MAC, two entries in the cache, two frames in the ring, two slots: the cache and the ring are full and the slots go round.  `Unspoiled` and `Present` as in `files` |
| `forth` | is each interpreter a stack machine, does it hold one block, does it carry out its own program | two interpreters, two blocks, so that both may grow and the second is refused, integers of three bits, stacks of one that grow by one, seven programs of at most four tokens, of which three are read; a store may make of a cell of the text its end, a number or another store (`Scraps`).  `Present` tells apart only who reads once something is astray |

Two sectors of each table are enough to separate a table that was written in part
from one that was written; two entries in each to have one before and one behind
another; three clusters for a chain, a file and a full disk.

`files_edit` shows a disagreement: the editor that `touch` opens is titled
"Editing:" with the name of the file and offers "Save and Exit", but `create_file`
never looks for the name.  Saving enters a second file of that name behind the
first, and the first is what is found ever after.

`files_casm` shows a mistake.  `vfs_open` gives out descriptor 0 first (vfs.c 17), and
`SYS_READ` takes descriptor 0 for the keyboard (syscalls.c 57).  `casm`, whose usage is
`casm <asm_file>`, reads by `SYS_READ`: unless something else is open already, what it
assembles is a key that waited, or whatever its buffer held.  `cat` and `forth` call
`vfs_read` themselves and get the file.  Without the branch for descriptor 0 in
`sys_read`, the property holds in the same instance.

State properties of `HeapProps` and `FilesProps`, those of `SystemProps` that say
`Spared`, `SentAsBuilt`, `BlocksHeld` and `OwnProgram` are conditional on what the code does
not defend against (overlapped calls and transfers, a descriptor closed by another task,
a cut, a sixth crash, a reply in a send, a store into the kernel, a text written under
its reader).  The runs reach the unconditional part of them in full; a comment at
each says what is excluded.  `forth` does not check for deadlock: each interpreter
may come to its end, and the shell has no more to start.

## Fairness

`Heap`: weak fairness of each caller's step: a task in the middle of a call runs on.
`Tasks`: weak fairness of the timer interrupt, and strong fairness of the linking of
a task, since its maker is not always the one that runs.  `System`: the same for the
timer, and strong fairness for the boot task and for the shell, each of which runs
whenever the round robin comes to it, again and again but not continuously.
`Console`: weak fairness of the shell and, unless it spins for ever on the lock, of
a program's line; nobody need end touch or cube, and a shell that wants the lock may
find it taken each time it looks, which `Occupied` excepts.  `Ata`: weak fairness of each
caller's steps: tasks go on as long as the timer ticks (`LethalFreezes` is where it does
not); of
the disk nothing is expected, which is what the limits of the waits are for.  Keys,
clicks, frames, crashes, ends and power failures are never required to happen.

## What is proved

Every safety property of the runs that hold is a theorem, for all values of the
constants that the assumptions allow, and so are the refinements.  Each rests on an inductive invariant, which
the proof keeps by one lemma per action or group of actions.

* `HeapProofs`: `IInv`.  `TypeOK` and
  the tiling alone are not inductive: a caller between two steps relies on its
  `current` still pointing into the list and on the size it saw, and `kfree`'s merging
  needs that everything before `current` is coalesced already; `IInv` adds just that.
  From it, for every heap address, size, alignment, header size, `size_t` and set of
  requests: `TypeOK`, `Tiling`, `NoAliasing`, `Coalesced`, `NoLeak`,
  `FailsOnlyWhenFull`, that `Spec` implements `Allocator`, and `Restored`, which follows
  from three of them and is left out of the run.
  Of `CallsReturn` it proves what fairness does not give: `Turns`, the turns that the
  walks of a call have left, is a natural number (`TurnsAreBounded`) that every step
  of the system makes smaller while the call is in progress (`TurnsDecrease`), since
  `next` goes up in addresses and a merge takes a block out of the list.
* `SystemProofs`, in three layers.
  - `TasksInv` (types, `RingIsClosed`, `RingIsWhole`), for any number of tasks and any
    garbage: insertion behind a member keeps every set that `next` does not leave.
    `StayInv` gives `CrashedStayOff`: the handler passes over four behind the task that
    crashes, so it resumes a crashed one only if six in a row have crashed; six in a
    row of a ring that has a seventh, the boot task, which never crashes, are six
    different ones (`SixInRow`, `SixAreSix`).
    `TurnsReachAll` is the part of `NoStarvation` that is not fairness: a set of tasks that
    `schedule` does not leave has all the active ones.  With the tasks looked past
    added, ten looks deep, it is a set that `next` does not leave, hence the ring, and
    what was added is inactive (`LookedPast`).
  - `SystemInv` (types, `OneReader`, readers are tasks that exist); every step of
    `System` uses the ring as `Tasks` says (`StepsOfTheRing`), so that the ring's
    invariant carries over.
  - `AllInv` gives `ShellWaits`, `ImageIntact` and `HangsOnlyWhenSpoiled`.  None of the
    three is inductive, nor are they together: `RolesInv` adds that there is one shell,
    that a program which makes another called `SYS_EXEC` and
    that a task in the making has not begun, and `Kept` that the shell marks
    `bin_running` before it makes a program and that a reader keeps the others from
    the places where they could read too.  Only who is active matters to them,
    which is why `StayInv` comes first.
* `ConsoleProofs`: `ConsoleInv`, for every set of keys, modifiers, lines and places to
  click, and any length of the queue.  `InPlace` says where the two readers can be, who
  may have the lock, and that `bin_running` is clear while the shell is busy with a
  command line, and gives `HangsOnlyAtWindow`; `LinesHeld` that the shell has, whole, what it comes to act
  upon unless a redraw is due, and gives `ActsOnWholeLines`.  `ShownIsCurrent` is
  inductive with them.  `StruckAsMeant` needs `Understood`: a key waits together with
  the codes of the modifiers before it, so what a reader knows need not be what is
  held, nor what was held when the key was struck.  `Steady` says that the codes
  between two codes of a modifier agree on it, `Following` that those before the first
  agree with what the readers know or are about to be told, and `Taken` the same of a
  code that a reader has taken and not yet used.  `unheeded` and `lacks` (a modifier's
  code was dropped, or taken by who does not heed it) are the exceptions in each.
* `FilesProofs`: `FilesInv`, for every size of the tables and sectors, every image that
  `IsImage` admits, any number of tasks, and any number of failures at any place:
  `FilesStay`, `NothingBehindTheEnd`, `ClustersAccounted`, `DescriptorsMatch`, `LoadsWhole`.
  `Creation` says for each step of `create_file` what of the two tables is on the disk
  already: its copy of the FAT is the disk's with one cluster marked, written up to
  `sector`; entries behind which it puts its own are files; a failure anywhere leaves
  `Unfinished` entries, whose cluster is free or an end.  The copy that reading uses is
  only nearly the disk's: `KeptCopy` says it may lack marks of ends (`Recent`), and
  `Loading` that this does no harm, since a file that was complete before has none
  of its links among them.  `KeptOpen` says that a descriptor has the cluster of the
  file it was opened for, and a task the descriptor it opened unless another closed it.  `Grows` says that the tables only ever grow, from which
  what one task knows survives the steps of the others.
  `FilesRefinement`: `Files` implements `FileStore`.  Besides `FilesInv` it takes that the
  entry a call has found still has the name that was asked for (`CallsInv`), and that
  the steps of a creation leave what others have on the disk (`TextsStay`).
  Of the table as bytes, for every table, cluster and value: `set_fat_entry` is the
  update of one cluster in `Unpacked` (`SetIsUpdate`, from `GetAfterSet` and
  `OthersKept`: the word of a neighbour overlaps this one in a byte, of which each has
  four bits), and what a mark may be that was half written (`MarkTorn`).
* `AtaProofs`: `AtaInv`, for every set of tasks, sectors, values and writes and every
  part that is kept: `ReadsLatest`, `ReadsGiveUpSlow`.  `ReadsLatest` says nothing of a
  call that goes on; `ReadKnows` and `WriteKnows` add what the interrupt flag says of the
  disk at each place of a call, `InStep` that a disk in use holds what was
  written last, but for the sector being written, and `AtRest` that a disk given up in
  the middle of a command is not read again.
* `NetProofs`: `RingAccounts`, `CacheIsLatest` and `SentAsBuilt`, for every set of machines
  and frames, cache, ring and number of slots.  The cache needs that its used entries
  are the first ones, so that
  the smallest entry that fits a machine is the machine's own if it has one.
  `SentAsBuilt` needs `InOrder`: the registers from the one the card sends next hold the
  frames that are owed, each its own slot, `tx_counter` is behind the last of them, and
  the slot that is being filled is not the card's.
* `EditorProofs`: types of the ring and that it implements the queue, for every size
  (the lemmas are about `%` on indexes), by itself and under the editor; `TypedText`,
  whose invariant says that the codes that wait lead from the
  text the editor has to the text that is meant, through a row of meanings (`Leads`),
  of which only the last is over: nothing counts behind an Escape; and
  `AssembledByLines`.  For the latter the invariant has to say that what is saved is a
  text of letters; the rest is about `Casm` alone.  Its fold is recursive underneath: a
  number without a step of the loop would be a least one, and there is none
  (`Upwards`); then, after any number of pieces, the line is what is kept of the piece's
  line so far and the output is the instructions of the lines before, cut at the end
  of the buffer (`SofarIs`, `EmitIs`).
* `ForthProofs`: `ForthInv`, for any number of interpreters, any heap, programs, lengths
  and width of integers: `BlocksHeld`, `OwnProgram`, that stacks hold integers of the
  machine (`ElementsFit`), and that each step is a step of `StackMachine`
  (`ForthRefinement`).  Besides types it needs that a stack lies in its block
  (`InBlock`), where a `!` may change elements but no length, and that who has address 0
  in common with another is lost; for
  `OwnProgram`, that while an interpreter is left alone nobody else reads, what
  it has carried out is the beginning of its program, and nothing is cut that it is
  still to read (`Undisturbed`).

The assumptions are those of the modules, which the
runs evaluate: sizes are positive and names distinct.  Besides,
`TasksAssumption`: room for the four tasks of boot; `ConsoleAssumption`: code 0 is no
key's; `EditorAssumption`: no key both types a piece and does something else, and none
types the character 0, which ends the text; `ImagesAssumption`: on an image every
file has its own clusters, all through the FAT; `NetAssumption`: at least two slots;
`ForthAssumption`: finitely many interpreters, and texts of tokens that fit in `content`.

Only model-checked:

* `CallsReturn`, `NoStarvation`, `LethalFreezes`, `PromptReturns`, `RefreshHappens` and
  `CallsEnd`: fairness and `ENABLED` are out of the prover's reach.  What the first two
  rest on besides, `TurnsDecrease` and `TurnsReachAll`, is proved;
* the two violations.

## What is left out

Registers, stacks, paging, devices' configuration, pixels and text; the decoding of
mouse packets, whose clicks are in `Console`; PCI, CMOS and sound, which are
straight-line.  `lib/string.c` and `lib/memory.c` are modelled by what they do
where they are used.

In `Files`: sector 0 with its constants, the offset of a second `fat12_read` (each
command reads once, from the beginning), listing and icons, attributes and
sizes; a transfer that meets no other is taken to succeed.  A mark of a cluster that was half
written when the power failed leads a file on to cluster 255 or 15 (`MarkTorn`);
`Files` writes a sector whole and has no mark on the border of two.  `create_file`
overlapping itself, transfers that meet and calls of the heap overlapping each other are
recognised and then left alone, as said above.  In `Ata`: the registers' bytes, and the kernel
behind a write over its own memory.
In `Net`: bytes, checksums and lengths of
frames, the search for the card, and what is printed.  In `Forth`: what a store into the
kernel does (`astray`); `@` reads anything or faults (`Results`, `MayFault`).  In `Editor`: the
two Shift keys are one, and what was held before it began counts as released, as in the code.
In `Tasks`: two creations that read `next_pid` before either has increased it.  The
RISC-V port has one thread and no files.

## Plan

1. Proofs: that what each reader of `Console` takes is what `KeyQueue` lets it take.
2. The offset of a second read in `Files`, and `Ata` under `Files`: a
   transfer that fails in the middle of `create_file`.
3. The packets of the mouse, three bytes each, of which one may be lost.
