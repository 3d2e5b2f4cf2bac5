# A verification of cw4aai

cw4aai is a computer built from the processor up: `memu`, an emulator of a MIPS
machine written in C with POSIX threads; `os`, a kernel in assembly that runs on
it; `mass`, the assembler that kernel is built with; and `preproc`, the
preprocessor in front of the assembler. This directory holds TLA+ models of it,
the TLC runs that check them on small instances, and theorems about them that
the TLA+ proof system checks for every instance.

`PROJECT.json` lists, for every definition that models code, the lines it models,
and for every run its properties. This file says what it all means.

## The system

| part | state | operations | talks to |
|---|---|---|---|
| `memu/memu.c`, `interrupt.c`, `reg.c`: the processor | PC and its two successors, EPC, EXL, IE, `wait`, `interrupt_state` | `main_loop`, `interrupt_set/test/entry/reset`, `reg_advance_pc` | the threads, through `interrupt_state` and a condition variable |
| `memu/inst.c`, `decode.c`: instructions | registers | one function per instruction | the processor, memory |
| `memu/daemon.c`: threads | keyboard ring in machine memory | `keyboard_daemon`, `timer_daemon`, `display_daemon` | the processor (`interrupt_set`), the kernel (shared memory, no lock) |
| `memu/mmu.c`, `mem.c`, `hdd.c`: memory and devices | memory, GDT, device registers | translate, read, write, disk, DMA, power | the processor |
| `os/proc.lib`, `sys.s`: processes | `PROC_INFO`, `CUR_PROC`, `MAX_PROC`, `REGS_BUF`, the GDT entry of user space | fork, exec, waitpid, sleep, exit, `PROC_SCHEDULE`, `PROC_SLEEP_UPDATE` | interrupt handlers |
| `os/interrupt.lib`: handlers | `k0`, `k1`, saved registers | `INT_SYSCALL`, `INT_TIMER`, `INT_KEYBOARD` | all of the kernel |
| `os/hwio.lib`, `terminal.lib`: terminal | keyboard ring, cursor, scroll offset, line buffer, buffer of complete lines | `HW_*`, `TERM_*` | the keyboard thread, programs |
| `os/filesystem.lib` | table of files | add, stat, read | disk |
| `os/shell.s`, `lib/*.lib`, `demo` | none in the kernel | user programs | system calls |
| `mass` | symbol table, code buffer | declare, reference, patch labels; generate code | |
| `preproc` | macros, functions | expand, emit functions with their dependencies | |

What is hard here, and what must hold of it:

* **The processor** runs beside two threads that raise interrupts at any moment.
  An interrupt saves one register, EPC, although two more (the branch target in
  flight) make up the state of the pipeline. Interrupts must be invisible to the
  program interrupted; a system call must be answered before its caller goes
  on; no interrupt may be lost; a processor that waits must wake.
* **The process table** is changed by five system calls and a timer in any order
  and for any family of processes. A parent must not wait for a child that cannot
  wake it; exactly the sleepers have time left; the processor runs a ready
  process in its own address space; each process must find its registers and
  memory as it left them, which all but LO are; no ready process may starve.
* **The keyboard ring** is shared by a C thread and an interrupt handler in
  assembly, without a lock. No key may stay in it unnoticed or come out of it
  that nobody pressed; keys should come out once and in order.
* **The screen** is a ring of cells that scrolls by moving its start. Programs
  must see a grid: no row lost but the first, no old text in the row that comes in,
  the cursor where it belongs and never off the frame buffer. A thread
  copies and draws the ring while the kernel writes it.
* **The terminal** moves lines between two rings, both of which can be full. A line
  is the terminal's until newline, then the programs'; characters must come out in
  order and once, and no erasure may reach what was handed over.
* **Power and reset** go through `longjmp`: some state is cleared, some is not, and
  threads run until they are joined. A program must start again as at first,
  and interrupts from before must neither be lost nor end up in the wrong mode.
* **Instructions, translation and ports** carry all of the above. The code that runs on
  them must meet what it is for at every boundary of a word; a process must run
  behind a descriptor table as it would alone.
* **The assembler** must encode what the decoder reads and the processor implements, wherever
  labels are declared; where it does not, exactly those lines should be known. What it cannot
  translate it must say, and it does, though not always instead of writing output.
* **The file table** is a hash table whose probe wraps: a file must be found with what
  was stored last under its name, whatever collides with it. A read must bring its sectors to
  the process that asked; a fork must copy one process's memory and no more.

`hazards` in `PROJECT.json` lists each delicate point at its line, and the properties
that cover it.

## The modules

| module | models |
|---|---|
| `Processes` | what the kernel promises: each process has a state, registers and memory of its own |
| `Proc` | `os/proc.lib` with the parts of `interrupt.lib` and `sys.s` that use it; refines `Processes` |
| `MCProc` | sets of register contents for `Proc` |
| `ProcProofs` | theorems about `Proc`, that it implements `Processes` among them |
| `SeqMachine` | a processor with delay slots and without interrupts, that can be shut down and reset |
| `Cpu` | `main_loop`, `interrupt.c`, the instructions that matter to it, the threads, power and reset; refines `SeqMachine` |
| `MCCpu` | a program for `Cpu` |
| `CpuProofs` | theorems about `Cpu` |
| `Keyboard` | `keyboard_daemon` and `INT_KEYBOARD` with `HW_GETC`, one memory access at a time |
| `KeyboardProofs` | theorems about `Keyboard` |
| `ScrollingScreen` | what programs expect of a screen: a grid with a cursor |
| `Screen` | the screen half of `hwio.lib` and the output half of `terminal.lib`; refines `ScrollingScreen` |
| `ScreenProofs` | theorems about `Screen` and `Display` |
| `LineDiscipline` | what programs expect of the keyboard: a line being edited, and text handed over |
| `Terminal` | `terminal.lib`: both rings, keys with their echo, reads; extends `Screen`, refines `LineDiscipline` |
| `TerminalProofs` | theorems about `Terminal` |
| `Display` | `display_daemon` beside the kernel that writes; extends `Screen` |
| `Mass` | the assembler: grammar actions, encodings, labels, patching, output |
| `Decode` | the decoder of `memu/decode.c`: every table and function |
| `Loader` | `Mass` and `Decode` together: what the processor makes of what the assembler writes |
| `LoaderProofs` | theorems about `Loader` |
| `MCLoader` | source files for `Loader` |
| `Memory` | `mmu.c`, `mem.c`, `hdd.c`: translation, loads, stores, the disk and copy ports |
| `Machine` | `inst.c` and the registers of `reg.c`, on `Memory` |
| `MachineProofs` | theorems about `Machine` and `Programs`: types, processes behind a descriptor table, arithmetic, calls, macros |
| `Programs` | code of the repository that runs on `Machine`, and what it is for |
| `Files` | `os/filesystem.lib` as such code |
| `Requests` | `FS_READ` behind its lookup, and the copy of `PROC_FORK`, as such code |
| `ProgramsProofs` | theorems about what `MEMWORDCPY` and the code of `Files` and `Requests` do |
| `MCMachine` | operands, programs and a descriptor table for `Machine` |

The definitions headed "Variant" are the code with a plausible mistake. Nothing
uses them; each of them is listed in `PROJECT.json` with the property that it
breaks, which shows that the property says something about the code.

### Proc

The state is the process table (`procState`, `parentPid`, `waitingChild`,
`sleepTime`), `MAX_PROC`, `CUR_PROC`, the registers of the processor and those
saved per process, the memory of each process, and `gdtBase`, the process whose
memory the GDT maps to the user addresses. A system call or a timer interrupt is
one action: the kernel runs with interrupts off from entry to `eret`. Each action
contains the whole handler, the scheduler and the return through
`INT_PROCOPEND` with its conditional write of `$v0` included. `UserWork` is any
program between two traps. Registers and memory are members of small sets
chosen so that values of different processes can be told apart.

The abstract specification `Processes` has no scheduler, no `REGS_BUF` and no
GDT: a call touches the process that made it. That `Proc` implements it says that
contexts are saved, switched and restored without a leak, `$v0` included, and without a loss
but one. `cache_regs` moves `$fp` by a word before it stores LO, which `restore_regs` loads from
where it should have been stored (`Cached`, `Restored`): LO is 0 after each entry to the
kernel that saves registers. `Processes` says so (its `Interrupt` does nothing else), and
`proc_lo` shows it against the comments of the two macros.

### Cpu

An iteration of `main_loop` is several steps, because the threads run
meanwhile: the wait (`Block`, `Resume`, `WakeSpuriously`), the advance of the
pipeline (`Begin`), the interrupt test with the choice of the source (`Test`), the
entry (`Take`), and the instruction (`Exec...`). `interrupt_set` wakes the
processor only when it is already blocked: `pthread_cond_signal` does not wait
for a waiter. An address counts instructions; what a branch compares is not
modelled, so it may go either way.

`SeqMachine` sees of the processor only the next two instructions. The
refinement mapping takes them from the pipeline, or from EPC while a handler
runs. A handler's instructions map to stuttering.

A store to the power port is `ExecReset` or `ExecShutdown`. `fini` cancels and joins the
threads (`Cancel`), which may tick until then; `Restart` is `longjmp` and `init`:
`reg_init` clears EPC, EXL and IE, while `interrupt_state`, `wait` and PC stay as they
were. `SeqMachine` sees a reset as a program that asks for it (or whose handler does) and
starts again at `Boot`.

### Keyboard

Each access of the daemon or of the handler to the ring is a step. The daemon
logs between its stores, so no build merges them; the host keeps the stores of
one thread in order. A key is represented by the number of its press: this
tells apart what order, loss and duplication are about, and leaves the
key's code to the terminal. `last` is history.

### Screen, Terminal and Display

`Screen` keeps what the kernel keeps in machine memory: the cells, `SCR_OFFSET` and
`CURSOR`. Positions count cells, while the code counts bytes; `SCR_UNIT_SIZE` is left
where the code is about bytes, in the bound of `HW_GOTOXY` and in the copy
of `display_daemon`. The driver's functions are operators from a screen to a
screen, combined as the code combines them, and each call of the terminal is one
step: it runs in a handler. The refinement mapping unrolls the ring into a grid.

`Terminal` adds the two rings of `terminal.lib` with their data as it is in
memory. The data matters: `FLUSH_TO_LIB` and `TERM_INBUF_PUSHC` write a slot before
they find that the ring is full, and that slot must be the free one. `FLUSH_TO_LIB` is a loop in
the code; here it is its effect, that what there is room for is appended, and what
there is no room for is written, character over character, into the free slot. A full
line therefore does not take its own newline: it stays until a key is erased.
`LineDiscipline` says so (`Enter` has a guard).

`Display` has a step for the reads of the offsets, one for the copy and one for
the drawing. The kernel may write between any two of them. `quiet` and
`current` are history: they say whether it did. A refresh disturbed by a write may show
anything, which the code accepts as it draws again.

### Mass, Decode and Loader

`Mass` has an action for each kind of line the grammar accepts, and one for each way it
can fail: a label declared twice, an offset that is not aligned, a line the grammar has not
(`SyntaxError`), a token the lexer has not (`BadToken`). The parser
returns at the end of the file or at a syntax error, which it only prints
(`ParserReturned`); `main` does not look at what it returned, so `Finish`
patches all references and writes the output of the lines before the error too, unless
a label is undeclared (`FinishUndeclared`). `message` says whether anything was printed. The four tables of `bingen.c` are functions; a word of code
is the record of its bit fields, so that patching the low 16 or 26 bits is a
change of fields, and so is what happens to the bits that are not masked. Raw data counts
in addresses and is not kept. `Ref` adds the mode RELATIVE to every reference, because
`LABEL_REFERENCE` is defined as the same bit (`symbol.h:33`).

`Decode` has each table of `decode.c` as a sequence or, where it is sparse, as a function,
and one operator per function. It keeps what the manual's table holds for instructions that
neither the assembler nor the processor knows.

`Loader` reads the words `Mass` writes with `Decode` and the fields that the functions of
`inst.c` take (`jalr` links `$ra` whatever its `rd` field says), knows which instructions
have a function there (`Implemented`), and compares the instruction with the line it came from. Only
the lines the parser comes to count (`Readable`). Addresses are
computed a second time, from the sizes of the lines, so labels are checked against
the source and not against the assembler's table.

### Memory, Machine, Programs and Files

`Memory` has bytes, and words made of four of them; the widths are a parameter. The
descriptor table is in memory, as in the emulator, so a program that writes there changes
its own translation; what an entry that lies behind the memory says is undefined, and reading
it may end the emulator. The ports act when the first word of their block is written. A copy that leaves
memory or disk is undefined: it ends the machine ("crash").

`Machine` has one action per instruction, each with the fetch (which may record a page
fault), the advance of the pipeline, and the access. Undefined results are choices: a shift by
more than a word, an address that `mmu_addr_trans` does not assign, a division
that traps. Code is kept apart from data (`start.code`): a program that writes over itself
is outside the model.

`Programs` has the macros of `pseudo_inst.inc` with the `nop`s of `jmp_fix.inc`, `MEMWORDCPY`
and calls, instruction for instruction. The properties say what
each of them is for in terms of its operands. `Alone` is `Machine` again, with a memory
that is the process's addresses and no table: `Relocated` says that a step of a process
behind a table is a step of that machine. The table is the one `procinfo.b` gives each process: its
own addresses are at `Home`, and those of the kernel (24M to 32M there) are at `Window`, which is
physical memory with the kernel, the ports and the table itself. Nothing keeps a process
from them, nor from physical memory by an address that no entry has.

`Files` is `FS_GET_FILEITEM_BY_NAME`, `FS_ADDFILE` and `FS_INIT` as a program. Names are
words, so that `STRCMP` is a comparison and `ELFHASH` its last step, the remainder; the stack
frame of each function is left out. Where the table is and how many items it has are
constants. An item is half as long as the kernel's, which leaves out the size of the file and
the reserved word, and `FILE_TABLE_ITEM_SIZE` is twice an item as it is there. `Reached` is the number of
items, those of the table first, that a search may come to: the table's, unless names collide
near its end (`Sparse` says that they do not), and else those behind it that the even and
the odd items need.

`Requests` has the two requests the kernel makes to a port: `FS_READ` from the return of its
lookup on, with the address of the buffer computed from the number of the current process and the
shift of bytes to sectors, and the copy of the user space in `PROC_FORK`. The kernel's own
addresses are physical in it. The transfer is complete when the
store of the command is: `hdd_read` and `mem_write` call `memcpy`, although `spec.txt:79` says of
reads and writes of the disk "both are asynchronize". `ReadsFile` says what the code does:
sectors that are whole in the count of bytes are read, so what is left over (`filesystem.lib:181`) is
not, nor is the count compared with the size of the file. `spec.txt` apart, a caller that
sees the return of `FS_READ` sees the data.

## The runs

| run | instance | shows |
|---|---|---|
| `proc_safety` | four process slots; sleeps of 0, 10, 15, 20 with a tick of 10; fair timer | the invariants of the table under every order of calls; a suspended process is only resumed by the exit of the child it waits for; process 0 gives way; waiting chains end; sleepers wake, ready processes run |
| `proc_refines` | four slots, two memory images, interchangeable (symmetry) | `Proc` implements `Processes` |
| `proc_lo` | three slots, registers with LO 0 and 1 | *violation*: LO is lost in a system call |
| `cpu` | a program with branches, a system call in and one out of a delay slot, an `eret` in a delay slot, an unimplemented instruction, a reset and a shutdown; a handler that may reset; two keys, any number of ticks | types, precise system calls, `Cpu` implements `SeqMachine`; waits end, interrupts are taken, one from before a reset too |
| `keyboard` | three slots, eight keys, any backlog | no key is stranded or invented; the ring drains |
| `keyboard_overrun` | the same | *violation*: a key is stored in a full ring |
| `keyboard_wrap` | three slots, one unread key at a time | *violation*: keys delivered twice |
| `screen_bounds` | three rows of three cells, with columns beyond the screen that `HW_GOTOXY` accepts | *violation*: the cursor leaves the frame buffer |
| `terminal` | rings of three slots, a screen of one row | `Terminal` implements `LineDiscipline` |
| `display` | two rows of two cells; cursor moves to columns and rows on the screen and to ones that are rejected | the cursor and the scroll offset stay in bounds; `Screen` implements `ScrollingScreen`; an undisturbed refresh shows the screen, whatever earlier ones copied |
| `mass_loads` | every instruction alone; every file of up to five lines out of two labels, a branch, a jump, an address, 32767 words of data, and offsets; files of up to four with lines and tokens that are not in the language | what the processor makes of a line is what the source says, except for exactly the lines listed in `Miscoded`; error messages come for exactly the files without meaning, and output none the less after a syntax error |
| `machine` | bytes of three bits, words of twelve; programs with operands on both sides of every boundary; every instruction as a process on either side of the border of two segments; processes that store to any kind of address outside theirs; file tables of five items; reads of a file by three processes, into their memory, beyond it and over the ports; forks of any of eight processes | macros, copies, calls, the file table, the read of a file and the copy of a fork do what they are for; a process runs as it would alone; one that changes memory of others is recorded, or used the kernel's addresses |

Bounds. Four process slots give, beside process 0, a parent with two children or a chain
of three, whatever process ends first, which is every relation between two entries that
`proc.lib` looks at; sleep times cover zero, one and two ticks and one that
is no multiple of a tick. The program of `cpu` can be interrupted at every
address in each of its paths; a second key arrives while one is being handled, and ticks
without end. Three slots let the tail wrap with the head at any distance,
and eight keys wrap it twice and overrun it. Two rows of two cells let the ring be unrolled at any row, a row
be the first or the last, and a cell the first or the last of its row; the theorems are for screens of any size. In the terminal, rings of three slots hold two characters: each ring
fills, wraps, and is flushed into with room for all, part or nothing of the line; the screen
is as small as it can be, as `display` covers it.

In `machine`, bytes of three bits keep every relation between widths: a word is four
bytes, an immediate is half a word, a branch counts words. Operands are 0, 1, a small number, and
the numbers around the least negative word and the largest one. The two segments
lie in memory in the opposite order of their addresses, so that running over a border is
seen. The file table has five items, odd in number like the 203 of the kernel; the names
collide with their neighbours at the last item, or at the first one, where they stay in the table.
Memory that no search should come to is not clear. In `mass_loads`, 32767 words of data lie between a
branch and its label, so that branches are in range, at its end and beyond it; five lines put two
labels before, behind and between the references, twice or not at all.

Fairness. `proc_safety` assumes that the timer interrupt goes on, and nothing of the
programs: `timer_daemon` loops for ever. `cpu` assumes weak fairness of the main
loop and of the timer thread, both of which are loops on threads of their own, and of `fini`,
which runs on the main thread while a cancelled thread ends at its next sleep or read. Nobody
has to press a key. `keyboard` assumes the daemon finishes what it does with a
key, and that the handler is entered when its interrupt is pending and goes on; the
former is a thread, the latter is what `InterruptTaken` shows of `Cpu`.

`display` and the theorems about it and the screen assume `GotoOnScreen`: programs pass columns that are on the screen or
that `HW_GOTOXY` rejects. `screen_bounds` shows what happens otherwise.

`keyboard`, `cpu`, `machine` and `mass_loads` are run without a deadlock check: when no key is
pressed nothing happens in the first; the others end, shut down, at an instruction that is not
implemented, and with the output written.

### What the violations show

* `keyboard_overrun`. `daemon.c:115` tests `(iq_tail - iq_head + 4) % iq_size` with
  the *addresses* of the two words, so the result is always 5. The comment beside it says
  "input queue not full". When the ring is full the tail reaches the head, and all
  keys in it are lost.
* `keyboard_wrap`. `daemon.c:118` stores the tail past the end, and line 129 stores 0
  later. A handler that is still draining at that moment reads round the ring again.
  `spec.txt:70` calls the buffer a round buffer. `NoStrandedKey` and `OnlyTypedKeys` hold
  in spite of both.
* `proc_lo`. `cache_regs` stores LO in the word behind the one `restore_regs` loads it from
  (`proc.lib:29-32`, `proc.lib:71-72`), which is also behind the 35 words that `FLUSH_REGS`
  and `FETCH_REGS` copy. The comments of the macros say "store epc, hi, lo" and "restore epc, hi, lo".
  A program that divides and is interrupted before `mflo` reads 0.
* `screen_bounds`. `hwio.lib:10` compares the column with the width of a row in bytes,
  four times its width in cells. Column 11 of the last of three rows is accepted,
  the position is wrapped once, and the cursor is behind the frame buffer, where the next
  character is written. The comment at `hwio.lib:7` says "boundary check".

### Disagreements that hold as properties

`RunsSource`, `Diagnoses`, `FilesFound`, `ReadsFile` and `EscapesRecorded` describe the code as it
is, so the following are in what they say rather than in a violation.

* The processor has no function for some of the instructions that the assembler knows (`sra`,
  `srav`, `lbu`, `lh`, `sh`, `bgtz`, `blez`, `break` and those of floating point, `inst.c:242-463`): they
  end the emulator. For `sra` the function exists (`inst.c:1313`), but the dispatch table does
  not name it (`inst.c:423`).
* `jalr` with a register to link in it links `$ra` (`inst.c:854`).
* After a syntax error `mass` writes the output of the lines before it (`mass.c:172-178`).
* `bgez` has the opcode of `bltz` (`bingen.c:69`), and nothing sets the `rt` field that tells them
  apart, so the decoder reads `BLTZ`; `blt`, which `mass.y:409` builds from `bgez`, is affected.
  `mass/README:38` says that all instructions of its reference are supported.
* `li` of a value from 0x8000 to 0xffff gives `addiu` from `$zero` (`mass.y:423`), which
  extends the sign.
* A branch beyond its 16 bits is cut without a message (`symbol.c:163`).
* The probe of the file table looks for an end at twice the length of the table
  (`filesystem.inc:3`, `filesystem.lib:66`) and steps by two items: it may store behind
  the table when names collide near its end. Lookups agree in spite of it, if what is there
  is clear. Of the kernel's own six files two collide, at item 60 of 203 (`app2.img` and
  `earth.dat`); they are `Sparse`, and stay in the table.
* `MEMWORDCPY` returns 0 (`string.lib:25`), where `string.lib:5` says "dst mem address". `CopiesWords`
  demands only what both agree on, -1 if and only if it failed.
* `spec.txt:95-97` gives a process the addresses from 0 to 24M; its table has 8M of them
  (`procinfo.b:10-13`). An address between 8M and 24M has no entry and is used as it is
  (`mmu.c:79-81`), which is the memory of another process. `EscapesRecorded` says that it
  is then in PFLA.
* A read of the disk is complete when its request is stored, where `spec.txt:79` calls it
  asynchronous.

## The theorems

All hold for every value of the constants that satisfies the named assumption of
the module.

* `ProcProofs`. The inductive invariant `IInv` is `TypeOK`, `NoLostWait`, `CurrentRuns`
  and `SleepersHaveTime` with three facts: `FreeSlots` (entries
  above `MAX_PROC` are untouched, so a fork finds a clean one), `InitStays` (process 0
  neither sleeps nor exits, so forcing it to be ready is sound) and `LoIsLost` (no saved
  context has an LO, which the refinement rests on). There is a lemma per
  system call, over one about the effect of the scheduler. `TableConsistent`, `Types`,
  `WaitSafety`, `SwitchSafety` and `SleepSafety` follow. `Moves` lists how the status of
  a process may change in one step, and `LifeCycle` says that every step obeys it:
  `WaitsEndByExit` and `IdleGivesWay` rest on it.
  `NoDeadlock` (`WaitsEnd`) needs no induction over chains. A child is younger than its
  parent (`ChildrenYounger`), so each waiting process waits for a younger one, and the
  youngest of those that wait, which exists because pids are bounded (`LeastNumber`, from
  the library's `WFMin`), waits for one that does not wait. Only process 0 is ever
  suspended without waiting (`OnlyInitSuspended`), so that one is ready or asleep.
  `Refinement` maps the table, `REGS_BUF`, the processor and the GDT to
  the processes of `Processes`, where each entry to the kernel takes the LO of the process that
  ran and nothing else. Each kernel call has a lemma; that what the scheduler does
  to the contexts cannot be seen is `SwitchUnseen`, which they all use. It rests on `IInv`.
* `CpuProofs`. `SyscallPrecise` is not inductive: that the next thing to run is the
  handler needs that the pipeline is in sequence whenever a system call is
  outstanding, and this needs that it is so when an interrupt is taken. `Sequential` says
  both. `SyscallInPlace` and `Transparency` (the refinement of `SeqMachine`, resets
  included) hold for every program, `Code` being a constant. `Types` adds that the program
  stays inside `Code` (`InProgram`), which the model does not force on it; its invariant
  needs `Enabled`, that a handler runs only with interrupts enabled, for `eret` to restore
  what was there.
* `KeyboardProofs`. `OnlyTypedKeys` needs `InUse`: as long as there is a slot never
  written, the ring has not wrapped, and everything before the tail is written.
  `NoKeyStranded`, `NoKeyInvented` and `Types` hold for every ring size and pace of typing.
* `ScreenProofs`. `ScreenTypeOK` is inductive under `GotoOnScreen`, an assumption
  about programs that the theorem names. The lemmas say that each of the
  driver's functions keeps a good screen good; `RowsFit` is the arithmetic behind them: a
  position inside a row of the ring, wrapped once, is inside the ring. `Refinement`
  (`ScrollsAsGrid`, under the same assumption) looks at the ring from its first row:
  cell `k` shown is at `Place(s, k)`, and has one row and one column (`CellOf`, `RowsApart`), so
  each function of the driver is a move in a line of cells, and that is one in the grid.
  `RefreshShows` (`ShowsScreen`, again under `GotoOnScreen`) needs that, as
  long as nothing is written, the daemon's two offsets are those of the screen
  (`ReadRight`) and the cells before the first row are behind the ring (`CopiedRight`).
* `TerminalProofs`. `Types` and `Refinement` (`EditsLines`). The invariant `TInv` adds to the types
  that both rings *contain* characters, whatever their other slots hold. Below it are lemmas
  about a ring of any size: `PushAppends`, `FreeSlotUnseen`, `EraseTakesLast`,
  `ReadTakesFirst` and `FlushExtends` say what each change of the indices and slots does to
  the sequence the ring holds, all from `WrapOnce` (a position is wrapped at most once).
* `LoaderProofs`. `DiagnosesAll` (`Diagnoses`) holds for every set of sources, lines out of the
  grammar in them included; `SourcesAssumption` is about the operands of lines that are in it. The invariant
  `IInv` says that the parser has only passed lines it can read (`AllRead`), that it stopped at one it cannot
  (`Ended`), and that there has been a message if and only if it stopped or failed (`Told`). It relates what the assembler knows to the lines it has
  parsed: a label has an address if and only if one of them declares it (`AddrKnown`), at most
  one does (`DeclaredOnce`), and there is a reference to a label if and only if one of
  them uses it (`RefsUsed`, `UsesRefd`).
  `RunsAllSources` (`RunsSource`) compares two computations of every word: the one of the
  assembler, which writes what it knows and patches references after the last line, and the
  one from the source alone. The invariant `LInv` says that the lines parsed follow each other
  from address 0 (`Counted`, `Ordered`), a label stands for the address of its declaration
  (`LabelsAt`), the references are those of the lines (`RefsAt`), and the words of a line are at
  its address, unpatched before the output is written (`WordsAt`) and patched after it
  (`PatchedAt`), when the lines parsed are the `Readable` ones. What a word decodes to, the lemmas from `PlainMeans` to `LlaMeans` find in the
  tables of `Decode`, once for each instruction of the grammar and for all its operands.
  `SmallSources`, an output below 2^28 bytes, lets a jump reach its label (the index
  has 26 bits); `Miscoded` lists what the theorem excepts.
* `MachineProofs`. `RegistersAreWords` (`MachineTypeOK`) holds for every width and memory. Its
  lemmas are about the arithmetic of the instructions: what a sum of bits can reach
  (`SumOfBits`), a remainder and quotient of either sign, a word made of bytes. The invariant
  `MInv` adds only that `start` is one of the programs.
  `ProcessesRelocated` (`Relocated`) has the hypothesis `TableInPlace`: each address of the
  process is translated to where `Home` places it, without a fault. It follows an
  instruction on both machines, `Machine` and `Alone`; that they fetch the same, compute
  the same and store into the same place is what the lemmas say.
  `ProcessesIsolated` discharges the hypothesis: if the table is in place at first, a process that
  stays within its addresses leaves it there (`ProcessAssumption`: the kernel keeps the table
  outside the process's memory, and the process does not write `GDTBASE` or `MMUD`).
  `EscapesAreRecorded` (`EscapesRecorded`) assumes `TableExact` whenever a store is next: that
  the table places the addresses of the process at `Home` and those of the kernel at `Window`, as
  `procinfo.b` has it, and no others. Both hypotheses hold in every
  state of the instance `machine` that they are about. What the theorem does not say is that a store
  through the kernel's addresses leaves a trace: it does not.
  For each program of `Programs`, the invariant says for each position in
  the code what the registers and the memory are, as functions of what it was started with; that
  a step leads from one position to the next has one lemma per program
  (`ArithmeticSteps`, `CallSteps`, `ComparedSteps`, `AlignedSteps`, `OverlapSteps`, `LoadSteps`). Below them: `PlacedCode` (which instruction is where),
  `ExecutesCurrent` (a step executes that one and no other), `SumOfWords`, `LowBits` and
  `HalvesOfWord` (what `and`, `or` and the shifts do with words given as sums of bits),
  `BytesOfWord` (a word stored is four bytes of it), `StoredElsewhere` (and nothing else changes).
* `ProgramsProofs`. `WordsAreCopied` (`CopiesWords`) has an invariant (`CopyInv`) for a loop:
  `Looping(k)` says that the first `k` words are those of the source, and that the pointers and
  the count have moved by `k`, or by `k + 1` in the middle of the body; `MovesWord`
  needs that the ranges do not overlap, so that the words still to be read are those
  of the beginning.
  `FilesAreFound` (`FilesFound`) is about a program as long as the list of files it adds, and
  about a table of any size. `FilesInv` has a clause for each stretch of the code: the
  stores after search `k` (`Returned`), the hash and the addresses (`Hashing`), the loop
  (`Searching`). Under them is `Holds(m, k)`, the table in memory `m` after `k` files:
  names in it are those of files added (`NamesAdded`); the last file of each name is at an item
  that a search for that name comes to, as all items before hold other names
  (`FilesThere`, `Probing`); an odd item is free from `2 * k` items behind the table on
  (`OddFree`), and of sparse files nothing is beyond the table (`SparseFree`), so searches stay
  within `Reached`; where nothing collides each name is at its own item (`InBuckets`), and nothing
  outside the table has changed (`InTable`). `FileAdded` is that a file stored at a free item, or at its own,
  disturbs none of them: a search for another name passes the same items as before and one more name
  that is not its own. `FoundLast` is that two searches for one name end at one item, of which one would
  otherwise pass the other (`OneFirst`). `FilesCodeParts` says where in the code of `n` files the
  `k`-th call is; that the code of a list exists and is where it should be is shown by the least number
  of files for which it would not be (`AddedFiles`, `AddedCode`, `LeastNumber`). The theorem is about
  safety: among names that fill all even items a search for another goes round for ever, and
  never ends to give a wrong answer.
  `FilesAreRead` (`ReadsFile`) has an invariant in three phases: the address of the buffer is
  found from the current process (`Finding`), the parameters go to the words of the port
  (`Demanding`), the command has been stored and the result is set (`Concluding`). The phases
  carry what memory is outside the port, so that the item is still what it was when its
  sector is loaded. `SpacesAreCopied` (`SpaceCopied`) likewise: addresses are computed (`Placing`), the
  request is put down (`Ordering`), and the two spaces are equal (`Twins`). That the two do not
  overlap, since their numbers differ, is all the copy needs (`RequestWords` bounds them).
  Both rest on lemmas about one step each: `LoadsAt`, `StoresOn`, `SetsUpper`, `SetsLower`.

What the theorems about `Machine` and its programs assume is named. `NamedPrograms` ties a name to its code, and to what
the code is called with: ranges of memory apart from the ports, since a copy that stores to a
port starts it; for `MEMWORDCPY`, ranges in memory that end below the last word, since the
ends that `sovlp` computes would wrap. `StartsAssumption` is the types of what a program starts
with. `ProgramsAssumption` wants a byte of at least three bits, so that the
addresses and immediate values of these programs are words and halves of words.
`MemoryAssumption` places the two ports at least 16 bytes apart; in the emulator they are 32.
`NamedFiles` has the items that a search may come to in memory, apart from the ports, and clear. For those of the table
the kernel sees to that (`filesystem.lib:22`). For those behind it nothing does, and the theorem says
nothing of a kernel with something else there and names that collide near the end; for sparse files,
such as the kernel's, there are none. `FilesAssumption` keeps the ends of the table words, `FILE_TABLE_SIZE` among
them, which is twice its length. `NamedRequests` wants the item apart from the ports, and of a fork two
processes with memory; `RequestsAssumption` that the sector is a power of two and that the number of the
current process is apart from the ports. `machine` evaluates all of them.

Checked by TLC only: everything under fairness (`SleepersWake`, `ReadyRuns`, `WaitEnds`,
`InterruptTaken`, `Drains`), which the prover cannot do. Every other property of the passing runs is a
theorem.

## What is not modelled

* The preprocessor and the lexer of `mass`: text matching, evaluated once and in sequence.
  What the macros expand to is modelled in `Programs`.
* Strings, included files, constant expressions, options and the byte order of `mass`.
* `FS_STAT`, the size of a file, and the loops over strings of `lib/string.lib`.
* The shell and the demo programs: `Proc` and `Cpu` cover any program.
* The jump through the table of system calls, and the wrappers of `lib/io.lib`.
* Self-modifying code; a fetch beyond memory, whose result is whatever the stack
  held; the speaker; accesses of two bytes, which no implemented instruction makes.
* The floating point, cache and TLB instructions beyond their decoding: the emulator
  does not implement them.
* The configuration file, and the devices left from an earlier target (`malta_mem.c`,
  `gt64120.c`, `iic.c`).

## The plan

1. `Reader`: the poll-and-wait loop of `lib/io.lib`, composed with `Terminal` and the wait of
   `Cpu`.
2. What a fork past the last slot of `PROC_INFO` overwrites, given a layout of the kernel.

Operators in modules with theorems are not `RECURSIVE`: recursion there is by recursive
functions or folds.
