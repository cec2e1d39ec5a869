# SentinelOS: a TLA+ model of the kernel

SentinelOS is a small i686 kernel: preemptive round-robin threads, mailboxes,
a page allocator and a heap, paging with demand allocation, FAT32 and a RAM
file system, a PS/2 keyboard and mouse, a shell and a window compositor. It
runs on one CPU. All of its concurrency comes from interrupts: an interrupt
handler between two instructions of a thread, and the timer handler that hands
the CPU to another thread. The model is built around that.

This file holds the inventory of the system, the plan, and for each module on
disk what it stands for, what its runs check and what is proved about it.

## 1. Inventory

| Component (under `src/src/`) | State it keeps | Operations | Works with | What makes it correct |
|---|---|---|---|---|
| Scheduler: `kernel/scheduler.c`, `kernel/switch.asm` | `threads[16]` (state, saved `esp`), `current_thread` | `thread_create`, `schedule`, `scheduler_yield`, `switch_to_thread` | called by every thread, by the timer interrupt and by `int 0x80`; stacks from the page allocator | a suspended thread resumes in its own frame; one thread per stack; round robin; nobody starves |
| Timer and interrupt entry: `kernel/timer.c`, `kernel/idt.c`, `kernel/interrupt.asm` | `tick`, the gate table, `interrupt_handlers[]` | `irq_handler`, `timer_callback` (reschedules on every tenth tick) | interrupts anything that runs with the flag set; polls the keyboard, draws the dashboard | a handler leaves the interrupted flow as it was; ticks keep coming |
| Kernel start and threads: `kernel/kernel.c` | the threads' loops | `kernel_main`, `receiver_thread`, `worker_thread`, `user_thread_entry`, ... | creates the threads, hands over to the scheduler | every thread starts on its own stack |
| Mailboxes: `kernel/ipc.c` | `mailboxes[16]` (ring, head, tail, count), two totals | `ipc_send`, `ipc_receive` | the worker sends, the receiver polls, the dashboard reads the totals in an interrupt | bounded FIFO: nothing lost, doubled, reordered or made up; totals add up |
| Page allocator: `kernel/memory.c` 1-45 | the bitmap | `pmm_init`, `pmm_alloc_page`, `pmm_free_page` | heap, paging, thread stacks, and the page fault handler | a page has one owner |
| Heap: `kernel/memory.c` 47-156 | block list | `kmalloc`, `kfree` | the back buffer (`vbe.c`), a cluster buffer per `fat32_read`; grows by pages | blocks tile the heap; nobody gets memory in use; free neighbours merge |
| Paging: `kernel/paging.c` | page directory and tables | `paging_init`, `page_map`, `page_fault_handler` | `sys_brk`, page allocator | a fault in the break is served once; no other one is |
| System calls: `kernel/syscall.c` | `current_brk` | `sys_print`, `sys_yield`, `sys_brk` | ring 3 through an interrupt gate | break and mapping agree |
| User mode: `kernel/user.asm`, `kernel/gdt.c` | the TSS (`esp0`) | `enter_user_mode`, `tss_set_stack` | every entry from ring 3 | a ring 3 thread has a kernel stack of its own |
| ELF loader: `kernel/elf.c` | none | `elf_load` | FAT32 file contents, paging | segments land where the headers say |
| Keyboard: `drivers/keyboard.c` | ring of 256 characters, shift state | `keyboard_callback`, `keyboard_poll`, `keyboard_getchar` | interrupt, timer poll and shell thread share one port and one ring | characters in order, none doubled; a full ring drops the newest |
| Mouse: `drivers/mouse.c` | packet bytes, cycle, position, button | `mouse_handler`, getters | shares port 0x60 with the keyboard; read by the compositor | packets decoded in step |
| FAT32: `kernel/fat32.c` | mount data, a pool of 64 nodes | `fat32_init`, `fat32_readdir`, `fat32_read`, `fat32_finddir` | ATA below, VFS above | reads equal the file; a node in use is not reused; walks end |
| VFS, RamFS: `kernel/vfs.c`, `kernel/ramfs.c` | the node tree | `vfs_read`, `vfs_write`, `ramfs_create`, ... | shell commands, FAT32 | what is written is read back within the limits |
| Compositor: `kernel/compositor.c` | window list, focus, drag | `create_window`, `handle_mouse`, redraw | mouse state, frame buffer | the dragged window follows the mouse and stays reachable |
| Frame buffer: `kernel/vbe.c` | the back buffer | `vbe_draw_rect`, `vbe_swap`, ... | compositor, TTY | no cell outside the buffer is written |
| Shell: `kernel/shell.c` | line, length, cursor | `shell_run`, commands | keyboard, VFS, FAT32, matrix | the editor stays in its box |
| Matrix: `kernel/matrix.c` | columns | `cmd_matrix` | waits for ticks in the shell thread | ends on a key |
| TTY, VGA text: `drivers/tty.c`, `drivers/vga.c` | cursor, cells | `tty_putchar`, `vga_*` | frame buffer or text memory | the cursor stays on the screen |
| Dashboard: `drivers/dashboard.c` | none | `dashboard_update` | reads counters in the timer interrupt | reads consistent totals |
| Serial, KTF: `drivers/serial.c`, `kernel/ktf.c` | the port | `serial_write`, `ktf_log` | called from threads and interrupts alike | one event per line |
| ATA: `drivers/ata.c` | the controller | `ata_read_sectors` | FAT32 | one command at a time |
| Splash, fetch, boot code, `src/copy` | none | straight-line set-up, output, unused duplicates | - | not modelled |

What is hard in it:

* **No locks.** Only `ipc.c` clears the interrupt flag. `schedule()`, the heap,
  the page allocator, FAT32, ATA and the log run with interrupts on, and both
  threads and handlers call them.
* **The interrupt flag is not part of a thread.** `switch_to_thread` saves
  `ebp ebx esi edi` and the stack pointer. The flag follows the CPU, unless the
  flow resumed was suspended in an interrupt, whose stub restores it.
* **`current_thread` and the stack are two things**, and they change at
  different instructions, with a write to the serial port in between.
* **One PS/2 controller** serves two devices, three readers and two ways to
  read (interrupt and poll).
* **Limits**: 16 threads, 16 messages, 64 FAT32 nodes, 256 characters, 68
  characters on a line, 16 MB of identity mapping.

`PROJECT.json` lists each of these at its line under "hazards", with the
properties that cover it, or why none does.

## 2. Modules on disk

| Module | What it is |
|---|---|
| `Scheduler.tla` | threads, `schedule()`, the context switch, the timer interrupt |
| `SchedulerProofs.tla` | theorems about Scheduler |
| `MCScheduler.tla` | instances of Scheduler; three configurations |
| `Ipc.tla` | the mailboxes, one assignment at a time, under preemption |
| `Mailbox.tla` | what the mailboxes promise: a bounded FIFO per thread |
| `IpcProofs.tla` | theorems about Ipc |
| `MCIpc.tla` | an instance of Ipc |
| `KHeap.tla` | the kernel heap: `kmalloc` and `kfree`, one loop iteration at a time |
| `KHeapProofs.tla` | theorems about KHeap |
| `MCKHeap.tla` | instances of KHeap; two configurations |
| `UserMemory.tla`, `MCUserMemory.tla` | page allocator, page tables, fault handler and `sys_brk` under a user program |
| `UserMemoryProofs.tla` | theorems about UserMemory |
| `Ps2Input.tla`, `MCPs2Input.tla` | the PS/2 controller, its set-up, the keyboard and the mouse |
| `Files.tla`, `MCFiles.tla` | ATA, FAT32, the RAM file system, the path walk, `ls`, `cat`, `exec` and the ELF loader |
| `Desktop.tla`, `MCDesktop.tla` | the compositor's loop over the frame buffer and the mouse; two configurations |
| `DesktopProofs.tla` | theorems about Desktop |
| `FilesProofs.tla` | theorems about Files |
| `Screen.tla`, `MCScreen.tla` | the cells of the text screen and everything that writes to them |
| `Ps2InputProofs.tla` | theorems about Ps2Input |
| `ScreenProofs.tla` | theorems about Screen |

How they fit together: Scheduler shows what a thread may count on (it gets the
CPU again and again; it can be interrupted anywhere), and the other modules
take that as their interleaving and fairness. UserMemory has the page allocator
that KHeap sees only as `OtherPage`; Files sees `kmalloc` only as a buffer that
comes or does not; Desktop sees the mouse of Ps2Input as `Packet`; Screen
sees the keyboard's characters as `Letter`, `Backspace` and `Enter`.

### Scheduler

**State.** A *flow* is a stack that code runs on: one per thread slot, and
`Boot`, the stack of `kernel_main`. `flow` is the one the CPU is on;
`current` is the variable `current_thread`. `esp[s]` stands for
`threads[s].esp`: the flow whose saved frame it points to, or `None` once that
frame has been popped. `kind[f]` says whether the frame of a suspended flow
lies under an interrupt frame, which decides what happens to `iflag` when it is
resumed: the stubs of `interrupt.asm` end in `sti; iret` (lines 100-101 and
122-123), `switch.asm` in a bare `ret`. `pc[f]`, `prev[f]`, `next[f]` are the place and
the locals of `schedule()` on that stack.

**Actions.** `schedule()` called by a thread is interruptible, so it is one
action per assignment to shared state:

| Action | `scheduler.c` |
|---|---|
| `Pick` | 48-59: scan behind `current_thread`, `prev = current_thread` |
| `Demote` | 60: `prev->state = READY` |
| `Point` | 61: `current_thread = next_thread` |
| `Mark` | 62: `current_thread->state = RUNNING` |
| `Switch` | 64-66: the log line, then `switch_to_thread` |
| `Create`, `BootPoint`, `Mark`, `BootJump` | `thread_create`; the branch for the first thread (38-46) |

Called from the timer handler (`Preempt`) or from `int 0x80` (`UserYield`) the
same function runs with the flag clear, because the gates are interrupt gates,
and is one action, `ScheduleInHandler`. `Mark` chooses between the slot
`current_thread` names now and the one assigned a line earlier: the variable is
not volatile and the kernel is built with `-O2`, so either is what the build may
use. `Tick` is a tick that leaves the CPU where it was.
`IpcCall` (cli ... sti), `EnterUser` (iret with the flag set) and `SpinStart`,
`SpinEnd` (the delay of `cmd_matrix`) are there because they are what changes
or depends on the interrupt flag. `UserReturn` is the one way a thread ends:
`user_thread_entry` finds no program, returns, and there is nothing on its stack
to return to, so the CPU is lost (`flow = None`).

**Left out.** Thread ids and entry points, `switch_count`, the count of live
threads, log contents. At most one thread goes to ring 3 (`SchedulerConstants`):
`esp0` of the TSS is one stack for all of them, so a second one, which the
`exec` command of the shell can create, is left to the planned UserStacks.
`tick` is kept modulo `Period`. The variable `torn` is a history variable: it becomes TRUE when a
tick reschedules while the CPU is not on the stack of `current_thread`.

**Properties.**

* `CurrentOwnsTheCpu`, `ContextIntegrity`: as long as no switch was torn, the
  CPU is on the stack of `current_thread` except between `Point` and `Switch`,
  and every waiting thread's slot points to its own frame.
* `NoSharedStack`: without any condition, no frame is reachable from two slots,
  or from a slot while the CPU runs on it.
* `CurrentIsRunning`: a thread in its own code is marked RUNNING, although ticks
  fall anywhere in its `schedule()` and undo parts of it.
* `RoundRobinOrder` (action property): `current_thread` moves only to the next
  runnable slot, although `next_thread` may be rounds old when it is used.
* `StarvationFree`: every thread gets the CPU again and again, unless a switch
  is torn, the matrix command hangs, or the user thread finds no program.

**Fairness.** `WF_vars(CpuStep)`: the CPU executes instructions.
`WF_vars(Tick \/ Preempt)`: the timer keeps firing and is taken while the flag
is set. Nothing is assumed about when a tick comes, so a thread may be
interrupted anywhere. Every other fairness between threads has to come out of
the round robin.

### Ipc and Mailbox

**State.** The rings (`messages`, `head`, `tail`, `count`), the totals, the
thread on the CPU, the interrupt flag, and for each thread its place, its `mb`
and its message. `got` is a history variable: what the last completed
`ipc_receive` returned.

**Actions.** One per assignment: `SendFind` (lookup), `SendCli`, `SendFull` or
`SendStore`, `SendTail`, `SendCount`, `SendSti` for `ipc.c` 20-40, and
`ReceiveFind` ... `ReceiveSti` for 42-62. Nothing makes a call atomic except
the flag that it clears itself: `SwitchIn` gives the CPU to another thread
whenever the flag is set. `ipc.c` sees the scheduler only as `SwitchIn`; that
the flag is arbitrary afterwards is what module Scheduler says of it.
Counters wrap at `Wrap` (2^32 in the code).

**Properties.**

* `RingsWhole`: whenever an interrupt can be taken, `head`, `tail` and `count`
  agree.
* `StatsAddUp`: whenever an interrupt can be taken, sent less received is the
  number of waiting messages (`Held`: the places taken in all the rings), also
  after the totals wrap; the dashboard reads both in an interrupt.
* `ImplementsMailbox`: the rings implement the bounded FIFO of `Mailbox`, with
  the queue read off the ring. A message becomes accepted with `count++` and
  delivered with `count--`.
* `EveryMessageMoves`: a waiting message does not wait for ever.

**Fairness.** Strong fairness of getting the CPU for each thread: that is
`StarvationFree` of Scheduler, checked there. It is strong because the action is
disabled whenever another thread has the flag clear. Strong fairness of a
thread's own steps, because it executes whenever it has the CPU but has it only
from time to time.

### KHeap

**State.** A word is four bytes, the unit `kmalloc` rounds to. The block at
address `h` is `size[h]`, `free[h]`, `next[h]`. Fields of addresses that are not
in the list are kept at zero, so that one list is one state. `page` is what
`pmm_alloc_page` gives next: it is first fit and nothing in the kernel calls
`pmm_free_page`, so pages come in ascending order. `op`, `curr`, `req` are a
thread's place and locals. `buffers`, `heads`, `owned`, `overlap` are history:
the buffers handed out and not freed, the headers in the list, the words the
heap has got, and whether two calls were ever under way at once.

**Actions.**

| Action | `memory.c` |
|---|---|
| `Malloc`, `Pass`, `Find` | 66-78, 91: the call, one step of the walk, the first block that fits |
| `Split`, `Take` | 78-86, 88-89 |
| `GrowLast`, `GrowNew` | 94-122: a page that continues the last block, or one that does not; then the recursive call, as a new walk |
| `Fail` | 96-99 |
| `Free`, `Merge`, `Onward`, `Done` | 125-144: mark, one merge, one step of the walk, the end |
| `OtherPage` | 20-35, for any other client of the page allocator |

A split and a growth are one step each; the walk, the check and the mark are
not, which is enough to show what goes wrong when calls overlap. The walk from
the first block to `last` (101-104) is part of the growth: without overlap it
ends where the walk before it ended.

**What it promises, and when.** Nothing in `memory.c` turns interrupts off, so
two threads can be inside at once, and then nothing holds (`kheap_overlap`). All
properties but the liveness are conditional on `~ overlap`: they say what the
callers get if they keep out of each other's way. After an overlap the calls
under way run to their end, no others begin (`Call`), and the model ends where a
buffer was given twice, a size went negative or a walk left the list
(`Damaged`); `Beyond` lets it stop there, so that deadlock is still checked
everywhere else.

**Properties.**

* `HeapTiled`: the blocks are in address order and tile the words of the heap.
* `BuffersOwnBlocks`: buffers and blocks in use correspond one to one, and each
  block is large enough. With `HeapTiled`: buffers are disjoint and hit no header.
* `Coalesced`: between calls no two free blocks are neighbours, although `kfree`
  makes a single pass.
* `GrowsOnlyWhenFull` (action property): a page is taken only if no block of the
  whole list fits.
* `EveryCallReturns`: also when a request takes several pages, or all of them,
  before it is met or fails.

**Fairness.** `WF_vars(Step(t))`: a thread inside a call gets the CPU again,
which is `StarvationFree` of Scheduler.

### UserMemory

**State.** Pages and frames are numbers. `bitmap` and `count` are
`memory_bitmap` and `used_blocks`. `directory` is the part of `page_directory`
above the identity map; `content[f]` is what frame `f` holds when the processor
reads it as a page table. `brk` is `user_brk_current`; `access` the address the
program is reading or writing. `faults` is the stack of fault handlers under
way: the handler itself may fault. `kernel` is a thread that grows the heap.
`heap`, `highest`, `overlap`, `stray` are history.

**Actions.** `SysBrk` is `sys_brk` with its three early returns as guards.
`Access`, `Resume` and `Retry` are the program. The handler is one action per
allocation or write of it: `Refuse`, `Exhausted`, `TakeData`, then
`page_map` as `TablePresent` or `NoTable`, `TakeTable`, `ZeroTable`, and
`WriteEntry`. It runs with interrupts off, so nothing comes between but a fault
of its own: the kernel reaches a frame through the page of the same number
(`paging.c` 60-69), and above the 16 MB that `paging_init` maps there may be no
such page (`NestedFault`), or one of the program (`stray`: a table is then
written into a page of the program, `Reaches`). `GrowFind`, `GrowTake`,
`GrowHeader` are `kmalloc` in a kernel thread, where `pmm_alloc_page` finds a
bit in one step and sets it in another; `overlap` records that the handler
allocated in between.

**Left out.** The flags of an entry, the text of the report, the contents of the
program's pages, `pmm_free_page` (nothing calls it).

**Properties.**

* `FramesAccounted`: the marked frames are exactly those in use, each with one
  user, and `used_blocks` counts them. The conditions say when this fails in the
  code: an allocation inside another, a table beyond the identity map, and the
  last frame, which `page_map` loses when it finds none for its table.
* `MappingsStand` (action property): a page keeps its frame whatever the break
  does (`sys_brk` unmaps nothing), and only pages inside some break the program
  had are ever mapped, to the byte.
* `HaltedForAReason`: the machine stops under a program only if it left its
  break, or memory ran out, or a frame the kernel had to write lies beyond 16 MB.
* `AccessEnds`: an access is served or the machine halts; a handler that
  returns without having mapped the page does not come back for ever, because
  each round takes a frame.

**Fairness.** `WF_vars(Handler)`: the handler runs on. `WF_vars(Resume \/ Retry)`:
the scheduler comes back to the program.

### Ps2Input

**State.** `out` is the output buffer of the controller with what queues behind it
in the devices; each byte carries who sent it and, for comparison, the character
it means. `pending` are the interrupts raised, `config` the configuration byte,
`last` what a read of an empty buffer gives. `kb_*` and `mouse_*` are the
drivers' variables. `boot` and `reply` are the place and the local of
`keyboard_init` and `mouse_init`, `reader` those of `keyboard_getchar`.
`down`, `expect`, `aim` are what the user did; `astray`, `lost`, `bothDown`,
`dropped` say what went wrong on the way.

**Actions.** The devices: `TypeKey`, `ShiftDown`, `ShiftUp`, `MovePointer`. The
handlers, one step each because interrupts are off: `Tick` (`keyboard_poll`),
`Irq1`, `Irq12` (`mouse_handler`). The set-up, one step per access to the ports:
`KeyboardInit`, `MouseInit`; it runs with interrupts on, so ticks and keys fall
anywhere in it. `ReaderTake` and `ReaderAdvance` are `keyboard_getchar`.

**External.** The controller and the devices are modelled from what the drivers
expect of them: one buffer, first come first served, an interrupt when a byte
becomes the first. A wait for the controller to take a command ends at once. A wait
for an answer may time out in `mouse_init` (so it reads at any time) and never does
in `keyboard_init`.

**Properties.**

* `KeysInOrder`: what was typed and not yet got is in the ring and on its way, in
  order, once, in the right case - across the wrap of the ring, with two readers
  of the port and a thread taking characters.
* `PointerTracks`: the driver is in step with the packets, and the pointer is
  where they take it.
* `BootEnds`: the set-up ends with both devices and both interrupts enabled and
  the other bits of the configuration byte as they were.

Their conditions are the mix-ups the code allows: the poll read a byte of the
mouse, or an answer (`lost`, `astray`); a full ring dropped a character; two
shift keys were down and one came up (`kb_shift` is one bit); a packet arrived
before the pointer was put in the middle. Without one of them the properties hold.

**Fairness.** `WF_vars(Setup)`, `WF_vars(Tick)`: the boot code runs on between
interrupts and the timer ticks.

### Files

**State.** `Disk` gives of each sector what a reader would see in it: directory
entries, words of the table, bytes. It ends where its domain does; a read behind the
end is never answered. What the disk holds is described beside it, by constants: the
clusters of each chain (`Chain`), the children of each directory (`Children`), how
many of them stand before each of its sectors (`Before`), and the nodes a path leads over
(`Trail`). `VolumeConstants` and `PathConstants` tie them to the sectors, one sector,
one entry, one name at a time, so that they say what a FAT32 volume is without the
loops that read it. `..` of a first-level directory has cluster 0 (the root, by the
FAT32 standard), and there the code lists nothing; the description agrees with
the code in this. `nodes` and `next_node` are the pool of
`fat32.c`; `lba` and `data` are the registers of the drive and the sector it has
ready. `cmd[t]` is the command of a thread with its result, `io[t]` its innermost
call: the sector it waits for and the locals. `overlap` and `starved` are
history; `taken` in a command counts the nodes handed out since it began to
hold one.

**Actions.** Reading a sector is `Address`, `Command` and the step that takes the
data (`Arrives`); a thread is preempted between any two of them. What comes with
the data is named after the loop it belongs to: `Entries` and `NextEntries`
(`fat32_readdir`, from the first entry for every number, as the code does),
`Skip`, `Bytes`, `NextBytes` (`fat32_vfs_read`). `Walk` is `vfs_finddir`
with the dispatch to RAM or disk, `List` the loop of `ls`, `Read` the calls of
`vfs_read` of `cat` and `elf_load_file`, `Buffer` the `kmalloc` of a
cluster, which may fail. `Start` is a command of the shell; the user thread does
one `exec` at its start (`kernel.c` 58-63).

**Left out.** `fat32_init` (the Init is a disk it accepts), the decoding of short
names, the addresses of an ELF segment, of which a file here has one.

**Properties.**

* `FilesAreRead`: `cat` shows and `exec` loads what is on the disk, over
  scattered clusters, skipped clusters, the end of the file inside a cluster, an empty
  file, reserved bits in the table; a missing path and a directory are told so.
* `DirectoriesAreListed`: `ls` shows each child once, in order, none deleted.
* `CommandsEnd`: every command ends.

`Reliable` holds the conditions, each a way in which the code does go wrong: two
threads used the drive at once (nothing locks it: one gets the other's sector, or
waits for ever for data the other took), no memory for a buffer, a node handed
out again after 64 others, and a path that ends in one slash, which
`vfs_finddir` takes for an empty name (`ls disk/` finds nothing, `ls disk//`
does). `elf_load_file` does not look at how much of a header it could read:
`Headers` lets the rest be whatever the stack held, so an empty file or a
directory may seem to be loaded; the properties leave that case out.

**Fairness.** `WF_vars(Steps(t))` for both threads: `StarvationFree` of Scheduler.

### Desktop

**State.** `windows`, 1 drawn over 0; `mouse`; `at`, `mx`, `dragging`, `off`
are the place and the locals of `compositor_loop`; `front` is the picture on the
screen: of each pixel whether it shows a title bar and whose, the rest of a window,
the top bar, or wallpaper.

**Actions.** One per read of a variable the mouse interrupt writes: the button
(`Released`, `Pressed`), the column, the row with the hit test and the focus
(`Row`), the two coordinates of a drag with their clamps (`DragColumn`,
`DragRow`); then `Frame`, the drawing and the swap. `Packet` is the interrupt.
The variables of the mouse are not volatile and nothing in the tests is called, so
the `-O2` build loads each coordinate once per frame.
`InRect` is `vbe_draw_rect` in words that wrap; `InText` is a string, whose
pixels are cut one by one.

**Left out.** Colours, what is written inside a window, the pointer. A cell of a
character inside a window that is cut by an edge of the screen is taken as blank.

**Properties.**

* `SeenIsTaken` (action property): a press where the screen shows a title bar takes
  that window and brings it to the front. The picture was drawn from `windows` a
  frame ago, the hit test and the drawing are separate pieces of code with
  different widths in mind (signed there, words here), and the windows swap places
  in the array. It is conditional on the one in front not sticking out on the left:
  there the picture misses what the hit test still has (the finding).
* `TypeOK` also says what the clamps are for, that a window is held by its title
  bar, and that the one in front is the active one.
* `TitleBarVisible` (`desktop_title`) is the comment of `compositor.c` 262.

### Screen

**State.** `cells` is `vga_char_buf` with its attributes, a function of the row and
then the column; what writes several cells of a row is `Over`, and writes that
follow each other in the code follow each other in the model. `shadow`, `row`, `col`,
`style` are the terminal's; `shell` says what the one thread that draws is doing;
`cmd_len` is the length of the line; `switches` a counter of the kernel and `last`
the value of it the dashboard drew. `full` is history: a line has been full.

**Actions.** `DashboardDraw` and `DashboardForce` (`dashboard_init`), `TtyInit`,
then `PrintChar`, `PrintNewLine`, `PrintTab` (`tty_putchar` with erasing and
drawing the cursor), `Style`, `ClearCommand`; `MatrixBegin`, `MatrixDrop`,
`MatrixEnd`; `Letter`, `Backspace`, `Enter`, `Finish` of the line editor; and
`Tick`, the update of the dashboard in the timer interrupt. A character is one
step: the only thing that can come in between is the tick, and it writes to other
rows.

**Left out.** The clock, the memory bar and the labels of the dashboard: they are
redrawn on a change like the counter, but for two details that are display only.
`dashboard_init` does not reset what was last drawn of the uptime, and a
percentage of memory of four digits is cut by its `%`. The separator in the
IPC field likewise lies over the fifth digit of a large count.

**Properties.**

* `EachOwnsItsCells`: each part of the screen shows what its owner wrote last. The
  terminal shows its shadow buffer after any printing, scrolling or matrix, and no
  cursor is left behind (`TerminalShown`); the input row shows prompt, line and
  cursor and nothing of a longer line (`LineShown`); the borders stand
  (`BordersStand`), but for the one cell of the wall where the cursor of a full
  line is drawn: `input_redraw` clears only the inside of the row, so it stays.
* `CountersShown`: the counter on the screen is that of the last update, without
  digits of an older value, although an update draws only what changed and may come
  while `dashboard_init` draws.

## 3. Runs

| Run | Instance | Shows |
|---|---|---|
| `scheduler` | 5 slots, 4 threads: a receiver (cli/sti), a shell that may enter the matrix delay, a ring 3 thread, a plain kernel thread; a reschedule on every 2nd tick, delay of 2 ticks | the invariants, `RoundRobinOrder` and `StarvationFree` |
| `scheduler_torn` | 3 threads | violated: `ResumesWhereItLeftOff` (finding) |
| `scheduler_hang` | 3 threads | violated: `KeyboardStaysPolled` (finding) |
| `ipc` | 3 threads, one receiver, two senders, capacity 2, totals modulo 3, two messages | the ring invariants, the totals, the refinement and the progress of messages |
| `kheap` | 2 threads; header 1 word, page 7, heap of one page that may grow to three; requests of 7 bytes (2 words) and 28 (7 words); 3 buffers in use | the five properties above |
| `kheap_overlap` | the same with two pages, two buffers, no fairness | violated: `BuffersPrivate` (finding) |
| `user_memory` | 12 frames, 6 identity-mapped pages, 2 frames taken at boot, tables of 2 pages, pages of 2 units; break between pages 8 and 14 | the five properties of UserMemory; 49,000 states |
| `ps2_input` | a ring of 3, one letter and both shift keys, one movement; 3 keys, 2 packets, 3 bytes in the controller; a screen of 3 x 3 | the properties of Ps2Input; 520,000 states |
| `files` | a disk of 15 sectors: root and one file over two clusters that do not follow each other, a directory, an ELF file, an empty file; a pool of 4 nodes; one of 9 commands while the user thread loads its program | the properties of Files; 300,000 states |
| `desktop` | a screen of 4 x 3, two windows of 3 columns, words of 16 values | `TypeOK`, `SeenIsTaken`; 150,000 states |
| `desktop_title` | the same | violated: `TitleBarVisible` (finding) |
| `screen` | a terminal of 2 rows of 3 columns, a line of 2 letters, a counter modulo 3 of two binary digits | the properties of Screen; 220,000 states |

*Bounds.* Scheduler: one slot stays FREE, so that the scan has to jump it and
wrap; every kind of thread the kernel has is there once; with `Period = 2` both
kinds of tick occur at every place of `schedule()`. A longer period only adds
ticks that do not reschedule. Ipc: two messages fill a mailbox, the indices
wrap after two, two senders compete for it, `Wrap = 3` is not a multiple of the
capacity so the totals wrap at every state of the ring. In the kernel one
worker sends; two are modelled because any thread may call `ipc_send`.
KHeap: a page of 7 words holds two small blocks of 3, and a request of 2 words
may find a free block of exactly 2, of 3 (taken whole: the rest is no block) or
of more (split); a request of 7 words is larger than what a page holds and
needs one page or two; `OtherPage` makes holes between the pages; three buffers
give a free block neighbours on both sides. About 180,000 states. The theorems
cover all other sizes.

UserMemory: four frames are left below the end of the identity map when boot ends
and six beyond it, so data, tables and heap each fall on both sides; the pages of the program (8 to 13) are numbers of frames too (up to
11), so a table above the map may be reached through nothing or through a page of
the program; breaks are taken below the start, at it, cutting a page, at the limit
and beyond, addresses on both sides of each. All frames can be used up.
Ps2Input: the ring holds two characters, so three keys fill it and wrap it; the
first byte of the movement (25) is also the scancode of a letter, so what the poll
makes of a mouse byte is seen; two packets are enough to be out of step.
Files: reads of four bytes cross sectors, clusters and the end of a file of five;
the pool wraps within one `ls`; one word of the table has reserved bits set.
One command of the shell is enough: it leaves only `next_node` behind, and the
other thread moves that.
Desktop: coordinates from -1 to 3, so that a window leaves the screen on the left, the
right and below, covers the other one or not; words of 16 values leave room between
the largest coordinate and the wrap as 2^32 does. The border around the fill of a
title bar (2 pixels in the code) is 0 here: two more columns are too many states.
Screen: two rows scroll at every second line, three columns have a tab stop inside
and a full row; the full line puts its cursor on the wall (a prompt of 1 and 2 letters in 3 columns) as
in the code (10 and 68 in 78). The dark body of a matrix drop, three rows behind its head, does
not show with two rows; it is the same write as the body. A counter of one or two
digits shrinks and grows.

*Deadlock* is not an error in the Scheduler configurations: the machine really
stops there, when a torn switch loads a used-up frame, or when the matrix delay
is entered with interrupts off, or the user thread returns. Nor is it in
UserMemory, where the machine halts, in Ps2Input, where the user stops typing,
and in Files, where the commands have ended. It is checked for Ipc, KHeap,
Desktop and Screen, not for `kheap_overlap`, which looks for one state.

## 4. Findings

All are disagreements between the manual or a comment and the code, each shown
by a run.

1. **A switch can be torn.** `schedule()` called by a thread sets
   `current_thread` at line 61 and switches at line 66, with interrupts on and a
   serial write in between. A tick that reschedules in between saves the frame
   of the interrupted flow in the slot of the thread that `current_thread`
   already names. The manual says (line 196) that a thread "resumes exactly
   where it left off". `scheduler_torn` finds it already at the first switch
   from the boot stack. The theorems below show that it is the only way:
   everything else holds until it happens.
2. **The matrix delay can hang the machine.** A thread that yielded and is
   resumed by a switch in the timer handler goes on with interrupts off. If that
   is the shell and it runs `matrix`, the delay loop waits for a tick that cannot
   come. The manual says (line 289) that polling on every tick "ensures 100%
   reliable input even during high CPU load".
3. **Two callers of `kmalloc` can get the same block.** The test of `is_free`
   (line 76) and the mark (line 88) are apart, with interrupts on. The shell and
   the user thread both allocate in `fat32_read` (`fat32.c:211`). The manual
   says (line 146) that the memory layers ensure that processes "cannot corrupt
   each other". As with the scheduler, the theorems show that this is all:
   without an overlap the heap keeps its promises.
4. **A title bar can lose its fill.** The comment at `compositor.c` 262 says that
   the boundaries are restricted "so the window title bar is always visible". A
   window dragged beyond the left edge has a negative x, and `vbe_draw_rect`
   takes words: x + w wraps to a small number and its loop draws nothing of the
   borders and of the fill of the title bar, of which 50 columns lie on the
   screen. The letters of the title and the buttons that lie on the screen by
   themselves are still drawn, on what is below. `desktop_title` finds a window
   with no pixel of its title bar filled.

Other behaviour of the code that the conditions of the properties name, with no
document that says otherwise: two threads that use the drive at once mix up their
commands; the pool of 64 nodes hands out nodes in use; a path that ends in one
slash is not found; `page_map` without a frame for a table loses the frame of the
data; a tick inside `keyboard_init` may take the answer it waits for; the poll
reads bytes of the mouse; a full command line overwrites a cell of the wall.

## 5. Proofs

The theorems are about every module of the system. All theorems hold for every
value of the constants that satisfies the named assumption of the module
(`SchedulerConstants`, `IpcConstants`, `HeapConstants`, `UserMemoryConstants`,
`Ps2Constants`, `FilesConstants` with `DiskConstants`, `VolumeConstants` and
`PathConstants`, `DesktopConstants`, `ScreenConstants`); TLC evaluates them on every run. The
assumptions that are more than types, and why the code meets them:

* the slots of the mailboxes are a finite set (`mailboxes[16]`);
* of the desktop: a window and the screen together are narrower than a word, the part
  of a title bar that stays on the screen is no wider than the window, the text and
  the buttons lie in the title bar, and the windows start where a drag may leave
  them (`compositor.c` 15-120, `DesktopConstants`);
* of the screen: a line holds at least one character, and prompt and line
  together are no longer than the row (10 + 68 = 78); a counter fits its field;
* of the devices: the ring has two slots at least (128), a key of `Keys` is a scancode below
  128 that is no shift key (those have actions of their own), the two tables of
  characters cover 0 .. 127 (`keyboard.c` 19-40), and the first byte of every packet
  of the mouse has the bit the PS/2 protocol sets in it, by which `mouse_handler`
  knows it;
* of the disk: a sector has the bytes, the entries and the words of the table its views
  say, any values in them; the clusters of a word that was cut (`Mask`, 2^28) include the
  marks of a chain's end (`EndOfChain`, 0x0FFFFFF8);
* of the volume: what a correct FAT32 volume has, which nothing in the code checks: a
  chain ends, a file's is as long as its size says, a directory's children are the
  entries of its chain up to the end mark, and `Trail` is the way of a path over them,
  in which a slash stands behind each name but the last (`VolumeConstants`,
  `PathConstants`; the theorem about the types uses neither);
* of memory: the boot code marks no more frames than the identity map has, and the
  program's pages begin at its end or beyond.

**SchedulerProofs**

| Theorem | States |
|---|---|
| `TypeCorrect` | `TypeOK`, torn switches included |
| `CurrentCorrect` | `CurrentOwnsTheCpu` |
| `ContextCorrect` | `ContextIntegrity` |
| `RunningCorrect` | `CurrentIsRunning` |
| `StacksUnshared` | `NoSharedStack`, torn switches included |
| `RoundRobinCorrect` | `RoundRobinOrder`, torn switches included |

*Argument.* `TypeInv` adds to the types what the locals of `schedule()` are at
each place. `StackInv` says that while no switch was torn, either the CPU was lost by a
user thread that returned (`Lost`), or the stacks are in order (`Own`): the locals of a flow name
its own thread (`OwnLocals`), a flow that waits is never between `Point` and
`Switch` (`WaitingNotInTransit`: this is exactly what a tear destroys), the CPU
flow is the current thread except in transit (`CpuFlow`), the marks
(`RunningMark`) and the frames (`OwnFrames`). `ContextIntegrity` is not inductive
without `WaitingNotInTransit`: a flow suspended in transit would be resumed
with a `current_thread` that others have moved. `FrameInv` needs no such
condition: a switch only moves frames around, so it keeps them distinct, and
frames not yet given out (`FreshStacks`) keep `Create` from repeating one.
`OrderInv` says that a `next_thread` picked earlier is still the successor of
the slot it was picked from, because nothing changes which slots are runnable
after boot; a stale pick is therefore harmless.

**IpcProofs**

| Theorem | States |
|---|---|
| `IpcTypeCorrect` | `TypeOK`: indices in the ring, counts in 0 .. Capacity |
| `RingsCorrect` | `RingsWhole` |
| `RingsImplementMailbox` | `ImplementsMailbox`: every step is a step of the bounded FIFO or a stutter |
| `StatsCorrect` | `StatsAddUp` |

*Argument.* Types are not inductive alone: `count++` needs room, which was
tested two steps earlier. `RingInv` has `LockedRuns` (a thread inside the
critical part has the CPU and the flag is clear, hence there is at most one),
`RoomLeft` (the test still holds at the increment) and `RingShape` (each ring is
whole up to the `Drift` of the one thread inside).

The refinement needs what a call has in its hands (`InHand`, in `FifoInv`): the
message that was stored is the one in the slot behind the last, and the message
copied out is still what the slot held before `head` moved past it. `RingAppend`
and `RingRemove` are the arithmetic of a ring; `SendCount` and `ReceiveCount` are
then the two steps of the FIFO, and every other step stutters.
For the totals, `Balanced` says that sent less received, with what the call under
way has counted in its mailbox only (`Owed`), differs from the number of waiting
messages by a multiple of `Wrap`. The waiting messages are a finite set of places, so
that no sum is needed: `count++` adds one place and `count--` takes one away.

**KHeapProofs**

| Theorem | States |
|---|---|
| `HeapTypeCorrect` | `TypeOK`, overlapping calls included |
| `HeapTiledCorrect` | `HeapTiled` |
| `BuffersCorrect` | `BuffersOwnBlocks` |
| `CoalescedCorrect` | `Coalesced` |
| `GrowthCorrect` | `GrowsOnlyWhenFull` |

*Argument.* `HeapInv` says that unless calls overlapped, the heap is `Sound`:
the list is a tiling below the next page and no block is empty (`List`), one
thread is inside (`Solo`), what its walk found still holds (`Callers`), a walk
for memory has passed no block that fits (`Passed`), and two free neighbours are
either the halves of a split just made or still ahead of the one `kfree` under
way (`Seam`); the last two are what makes growth and coalescing inductive.
`SplitTiles`, `MergeTiles`, `GrowLastTiles` and `GrowNewTiles` carry the geometry,
one lemma per step that changes the list; a lemma `Sound...` for each action
follows from them. `TypeOK` after an overlap needs an invariant of its own,
`RangeInv`: no header's block ends beyond memory, what is no header is not free, and
what a thread holds between its test and its split or mark was a block when it was
tested. Two calls may then split and merge each other's blocks, but until the
heap is `Damaged` no address leaves memory.

**UserMemoryProofs**

| Theorem | States |
|---|---|
| `UserMemoryTypeCorrect` | `TypeOK` |
| `MappingsKept` | `MappingsStand` |
| `HaltsForAReason` | `HaltedForAReason` |
| `FramesAreAccounted` | `FramesAccounted` |

*Argument.* `MemoryInv` has no condition: it holds after allocations that overlapped
and after tables were written into pages of the program. It follows the handlers
under way: what each knows (`HandlersKnow`: its page is not mapped, the table it is
to fill is there) and what one that was interrupted by its own fault waits for (a
frame beyond the identity map). `FramesApart` says that tables, frames of data
and frames in hand are all different and marked; this is what makes a write into a
table change one entry and nothing else. It would fail if the kernel could write into
a table it did not mean, and that it cannot rests on two more parts: a table
beyond the identity map is never written at all (`FarTablesBlank`: the write goes
to the frame its page is mapped to), and such a table exists only when every
nearer frame is taken (`NearFirst`, because the allocator is first fit).
`MappingsKept` follows: the one step that maps is the last write of a handler,
and it maps the page of the fault. `Accounts` is `FramesAccounted` with its sets
named; each step moves one frame from one of them to another.
The least element of a set of numbers (`LeastElement`, for the first free frame)
comes from the well-founded order of subsets, because the induction theorems of
the library take an operator as a parameter.

**Ps2InputProofs**

| Theorem | States |
|---|---|
| `Ps2TypeCorrect` | `TypeOK`: the pointer on the screen, the ring's indices in it |
| `PointerCorrect` | `PointerTracks` |
| `KeysCorrect` | `KeysInOrder` |

*Argument.* Both properties are about bytes still on their way, any number of them, from
devices that interleave. What they will do is stated without recursion: `Takes(R, q,
a, z)` says that there is a sequence of states from `a` to `z`, one step of `R` for
each byte of `q`. A byte sent adds a state at its end (`TakesMore`), a byte read
takes one off its front (`TakesRest`), and a whole drain is compared with the run
state by state (`UpTo` is the induction the prover has: from `LeastElement`).
`InStep` says that, while no byte of the mouse was lost, the bytes waiting take
the driver as it is now (packet, cycle, pointer) to the start of a packet with the
pointer at `aim`; that the cycle counts the bytes still to come modulo three follows
by one more induction (`PointerIs`). `Typing` says that the bytes waiting type
exactly the characters that were typed and are not in the ring, and leave the
driver's shift flag as the user holds the keys. It needs `OneShift` (one shift key
down at a time, while `bothDown` is false: the driver has one flag for two keys) and
`ReaderKnows`: between the two steps of `keyboard_getchar`, interrupts may push
characters, but not into the slot at the head (`PushIs`), so that the one the reader
holds is still the oldest. `RingPushed` and `RingRemoved` are the arithmetic of the
ring.

**FilesProofs**

| Theorem | States |
|---|---|
| `FilesTypeCorrect` | `TypeOK`: while two threads share the drive and the pool, whatever a sector holds |
| `FilesAreReadAlways` | `FilesAreRead` |
| `DirectoriesAreListedAlways` | `DirectoriesAreListed` |

*Argument for the types.* `Flow` says, for each thread, which call goes with which place of its
command: in a directory the walk is at a cluster in use, a `skip` has clusters left
to skip, and the buffer holds whole sectors of a cluster, fewer than it has. From
this the arithmetic: a part copied out of the buffer lies in it (`CopiedType`), a read
is cut to the file (`ReadType`), the offset lies in the cluster. The two threads share
nothing that a type depends on but the pool, of which any node will do
(`NodeType`).

*Argument for the contents.* Both properties are about a command that has ended; the
invariant `FilesInv` says what one that is under way has found so far, for a command
that can still be relied on (`Trusted`). Nothing of it could be kept without two
facts about what the threads share. `DriveInv`: while no two threads used the drive at
once, at most one waits for it, and the sector the drive has is the one that thread
asked for. `PoolInv`: the index of the pool has moved on from the slot of a command's
node by as many nodes as were handed out since (`taken`), so while these are fewer
than the pool has, the slot still holds that node (`Spared`, on the arithmetic of
`RoundOn` and `NotRound`). `ProgressInv` then follows the command:

* `Walking`, `Finding`: the rest of the path is a tail of it, the node is the one the
  trail has at this depth, and no child before the number asked for has the name;
* `InDir`: the cluster is one of the directory's chain, and the entries counted so far
  are those that stand before this sector (`DirSector`: the entry of a number is the
  child of that number, `DirCluster`: the chain goes on or the children are over).
  `fat32_readdir` counts from the beginning for each number, so this is needed anew for
  every entry;
* `Listing`: the names so far are the first children, in order;
* `Reading`: cat has the first bytes of the file, exec its header;
* `InFile`: where a read stands in the chain: `skip` clusters before the offset
  (`OneSkipped`), a buffer with the first sectors of the cluster (`SectorRead`), and the
  bytes copied are those from the offset on (`PartRead`, `ClusterRead`); a chain as long
  as the size says has a next cluster while bytes are wanted (`ClusterFollows`).

`Proceeds` is what every step of a command has in common: it takes no node (`Alone`) or
one (`Takes`), keeps its own progress and disturbs the other thread's only through the
pool. There is one lemma `...Proceeds` for each action, and `ProceedsInv` is the
induction step for all of them. `FilesInv` needs the volume to be what its tables say
(`VolumeConstants`, `PathConstants`), and nothing of the order in which the threads run.

**DesktopProofs**

| Theorem | States |
|---|---|
| `DesktopTypeCorrect` | `TypeOK`: the windows stay where a drag may leave them |
| `SeenIsTakenAlways` | `SeenIsTaken` |

*Argument.* `PictureFresh` says that from one drawing until a drag moves a window,
the picture is what drawing it now would give; `PictureShows` says what a pixel
of a drawing shows, and `TitleIsHit` and `HitIsBody` that the hit test agrees with
it: in a window that does not stick out on the left, `x + w` does not wrap, so the
rectangle in words is the rectangle (`RectIs`).

**ScreenProofs**

| Theorem | States |
|---|---|
| `ScreenInvariant` | `ScreenInv` |
| `ScreenTypeCorrect` | `TypeOK` |
| `CellsHaveOwners` | `EachOwnsItsCells` |
| `CountersAreShown` | `CountersShown` |

*Argument.* `TerminalShown` is not inductive alone: a new line blanks the rest of its
row in the shadow buffer and not on the screen. That is right only because nothing
stands to the right of the cursor or below it (`RestBlank`), which holds because
nothing moves the cursor back. `CountersKept` is `CountersShown` from
`DashboardForce` on; before it, a tick may have drawn a value that
`dashboard_init` wipes, and that is why it forces the next update. Each writer is
shown to leave the rows of the others alone (`Apart`).

*Only model-checked:*

* liveness under fairness, which is out of the prover's reach: `StarvationFree`,
  `EveryMessageMoves`, `EveryCallReturns`, `AccessEnds`, `BootEnds`, `CommandsEnd`;
  every invariant and every action property of a passing run is a theorem.

## 6. Not modelled

* **The kernel stack of ring 3 threads.** `esp0` of the TSS is one stack; the
  `exec` command of the shell makes a second ring 3 thread that shares it.
  Scheduler has one. Planned as UserStacks.
* **Serial port and KTF log** (`serial.c`, `ktf.c`): lines may be mixed; nothing
  reads them back.
* **Output** (`splash.c`, `fetch.c`), labels, colours, the clock and the memory
  bar, what is written inside a window, the pointer.
* **Set-up that runs once, before any concurrency** (`boot.asm`, `gdt_flush.asm`,
  descriptor tables, the PIC, `vbe_init`, `fat32_init` on a disk it rejects).
* **Functions nothing calls**: `pmm_free_page`, `ata_write_sector`, and others of
  `vga.c`.
* **ELF segments at arbitrary addresses**: the loader copies to where a header
  says; a model of it would only say that it does.
* **`src/copy`** is not part of the build.

## 7. Plan

1. **UserStacks**: `esp0` of the TSS, ring 3 entries and `exec`; **KtfLines**: a log
   line in an interrupt inside a line of a thread.
