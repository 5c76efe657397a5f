# A TLA+ model of DahleOS

DahleOS is a small 32-bit operating system in C: it boots into a shell with an
in-memory filesystem and an alias table, which it keeps on an ATA disk. This
directory models the parts of it that keep state across commands, interrupts
and reboots, model-checks them with TLC on small instances, and proves with
TLAPS, for every size, nearly all of the safety properties that the runs check. All paths below are
relative to the root of the repository.

## The system

| Part | State it keeps | Operations | Meets the others by |
|---|---|---|---|
| Filesystem, `fs/fs.c` | `pool[64]` of nodes linked by index, `pool_used`, `cwd` | mkdir, touch, rm, cd, ls, pwd, cat, load | calls `persist_save_fs()` after a change; its pool is overwritten by `persist_load_fs()` |
| Persistence, `storage/persist.c` | `disk_present`, `savelist_flags`, one static header buffer per function; the disk's header, alias and filesystem sectors | probe, save and load of either category, set the save list | called by the commands and at boot; calls the ATA driver |
| ATA driver, `drivers/ata.c` | none in memory; the drive's status, sector and cache | detect, read, write and flush | its results are returned to, or ignored by, persistence |
| Keyboard, `drivers/keyboard.c` | ring `buf[256]`, `head`, `tail`; `shift`, `caps`, `ext` | interrupt handler, getchar, poll, shift_held | the handler interrupts the shell, which sleeps in getchar |
| Shell, `shell/shell.c` | the line, the history and its cursor, `run_depth` | boot, edit keys, run a line | reads the keyboard, calls the commands |
| Commands, `shell/commands.c` | alias table, random seed, D/D/F trap, window positions | some forty commands | called by `run()`; `repeat` and aliases call back into it |
| Screen, `drivers/screen.c`, `vga_text.c`, `vbe.c`, `gui.c` | mode, cursor, colour | print, scroll, clear, switch mode, draw | called by everything that prints |
| Interrupts, `cpu/*` | handler table, `ticks` | dispatch an interrupt, panic on an exception | calls the keyboard handler and the tick |
| Boot, `boot/`, `kernel/kernel.c`, `gdt`, `idt` | descriptor tables | set up once, start the shell | - |
| libc, ports, font, build, tools, docs, tests | none | - | - |

The system has one thread, which runs the shell, and interrupts. So the real
concurrency is between the keyboard interrupt and `keyboard_getchar()`; the
rest of what is hard comes from failure (power, a disk that stops answering,
ignored results), from sequences of commands that share indices and static
buffers, and from limits: 64 nodes, 16 entries, 32 levels of pwd, 255 waiting
characters, the width of ints. `PROJECT.json` lists each such hazard at its
line, with the property that would notice it going wrong.

What makes each part correct:

- *Filesystem*: the links by index always form one tree with distinct names in
  every directory; the current directory is in it; what is saved is such a
  tree too, because nothing checks it when it is loaded; a user sees exactly a
  tree of names; every change is saved when its command ends.
- *Persistence*: a load takes what has the checksum of a complete image, or nothing, and nothing of it is
  older than the last acknowledged save; an acknowledged save survives later
  power failures; success is reported only when everything was saved; the save
  list on disk is the one in memory.
- *Keyboard*: characters are read once and in order, whatever the interrupts
  come between; no byte types a character it should not or swallows one; a
  character that was typed is read in the end.
- *Running a line*: a line runs the commands its words mean, each as often as
  they say, whatever earlier lines have left behind; it ends; the loop guard
  takes no short chain of aliases for a loop and bounds the recursion (the last
  does not hold, so the first is claimed of chains within the guard's limit, and the
  second not of an alias that repeats itself).
- *ATA driver*: a call that returns `ATA_OK` did what it says, whatever an
  abandoned call has left the drive at; no call touches another's sectors; an
  error is not forgotten; every call returns; a write is flushed (the last
  does not hold).
- *Line editor and screen*: what the editor will run is what the user sees, in
  either mode and across any change of mode; nothing is left behind the cursor.
- *Desktop*: windows stay where they can be reached, what is painted is what
  the next key acts on, and a key means what it meant when it was typed (the
  last does not hold).
- *Calculators*: results lie where they must, wrapping does not change what a
  determinant is, only two inputs trap, and a result can be typed as the next operand (in decimal, the smallest int
  excepted, and in binary if it is not negative and fits a token).

## The modules

| Module | Stands for |
|---|---|
| `FileSystem` | `fs/fs.c`, one action per command, and the outcome of the save it ends with |
| `FsTree` | the filesystem a user is promised: places spelled by names, no nodes |
| `FsRefinement` | the map from nodes to places, and `FileSystem => FsTree` |
| `FileSystem_proofs` | the tree, what stays in it, what is saved, and where pwd leads, for every size |
| `FsRefinement_proofs` | that the pool implements `FsTree`, for every size |
| `Persist` | `storage/persist.c`, one action per sector written or header read, with the drive's faults, the commands that call it and the boot |
| `SavedCopies` | what persistence promises: one copy of each category, or none, in doubt only while it is being saved |
| `PersistRefinement` | the map from disks to copies, and `Persist => SavedCopies` |
| `Persist_proofs` | what a load gives back and a save has kept, and that `Persist` implements `SavedCopies`, for every size, image and set of faults |
| `Ata` | `drivers/ata.c`, one action per wait with the register accesses after it, and the drive on the other side of the registers |
| `Ata_proofs` | that an error lasts until IDENTIFY, that calls stay in bounds, and what `ATA_OK` means, for every size |
| `Keyboard` | `drivers/keyboard.c`, the handler as one step and getchar as one step per access; the keyboard and the timer around it |
| `KeyQueue` | the bounded queue that the ring implements |
| `Keyboard_proofs` | that the ring is that queue and that keys type their characters, for every size |
| `ShellRun` | `run()` of `shell/shell.c` with the commands that call it again or that it depends on: alias, repeat, load, alu's division, ddf |
| `ShellRun_proofs` | that the loop guard is never early, that lines without loops run what they mean, and types, for every size |
| `Screen` | the text layers of `drivers/screen.c` and `drivers/vga_text.c`, as operators on one record |
| `Terminal` | the line editor of `shell/shell.c` on that screen, one operator per branch of its loop |
| `Desktop` | `cmd_dahle()` and its helpers: windows, focus, launcher, applications, the key queue and shift |
| `Session` | editor and desktop together: one screen, one queue of keys, one user |
| `Session_proofs` | the line, the screen, windows and painting, for every size, prompt and number of windows |
| `Words` | the int of the machine, for any width, and the conversions to and from strings |
| `Calculator` | scp, alu and matrix of `shell/commands.c`, one action per command |
| `Calculator_proofs` | ranges, traps, printed numbers, overflowing determinants and names, for every width |
| `MCFileSystem`, `MCPersist`, `MCAta`, `MCKeyboard`, `MCShellRun`, `MCSession`, `MCCalculator` | values of the constants for TLC |

An operator named `...Late`, `...Unchecked`, `...TooEarly` and the like, marked
"Mutant" in its comment, is not part of a model. It is a faulty version of the
definition after it; putting it in that definition's place makes one of the
properties fail, which shows that the property depends on that piece of code.

### FileSystem

`pool`, `pool_used` and `cwd` are the statics of `fs.c`; a node has the fields
of `fs_node_t` but for the file contents, which no command ever writes. `disk` is
the image in the filesystem sectors (or `NoSnapshot` when they hold none or
parts of two) and `header_ok` says whether the header vouches for it. An action
is one command to its end, as the shell runs one at a time:

- `Mkdir`, `Touch`: `node_find_child`, `node_alloc`, then `Attach` (with the
  save) or `Leak` (the directory is full: the node stays allocated and nothing
  is saved). A command that is refused before it changes anything is a stutter
  and no action.
- `Rm`: a file of the current directory is unlinked and the children after it
  shift left. The stale index behind `child_count` and the slot of the node
  stay, as in the code.
- `Cd`: the whole walk over the components, with "", "." and ".."; a bare cd
  and `cd /` return before the save, every other cd saves.
- `Save`, `Load`, `SavelistSet`, `SaveAliases`: the filesystem's side of the
  commands that touch the disk; `Reboot` is `shell_run()` up to the prompt.

`SaveFs` is what a command can see of `persist_save_fs()`: skipped, done, or,
with `DiskFaults`, stopped before the data, among them, or before the header,
and with a header rebuilt from an older one. Names and paths are members of
small sets; the lengths 63 (names) and 510 (the printed path, which loses its end beyond that) are left out.

### Persist

An image is a function from sectors to opaque contents; of each category there is a set of them,
of which the aliases' holds the image of zeroed memory and the filesystem's that of the tree
`fs_init()` builds (`ImageAssumption`). What sectors hold is always a mixture of images (`Content`). `disk` is what the drive
would read back, `durable` what it would be after losing its cache; a power
failure keeps any subset of the sectors in the cache, and ata's flush at the end of
each write empties it. The environment may, by the variable `faults`, which is chosen at the
start and kept (`FaultModel` lists the choices): cut the power between any two steps; let a transfer time out; let a transfer fail and
leave ERR in the status, after which `ata_wait_bsy()` refuses every transfer
until IDENTIFY clears it at the next boot; lose the last sector or the flush of
a write without a word (`drivers/ata.c:97` ignores it); be absent.

`todo` holds the calls that a command has still to make, `step` the next step
of the current one: each data sector, the header read (a failure leaves the static
buffer as it was, and is ignored), and the header write. A load changes nothing on
disk and is one step. `mem` is the alias table and the pool, as images; `Change`
is any command that changes one of them, to an image the user may choose under these faults (`Chosen`). `recent` and `acked` are history
variables: the images since the last acknowledged save, and the categories that
nothing has touched since theirs.

`SavedCopies` leaves out sectors, headers, buffers and the cache. Of each category it has the copies that the
next load may turn out to find: one, or several while a save is under way or after one that failed. `FoundOf` computes
them from what any power failure may leave of the disk. An abstract step brings the copies of one category into
doubt (`Try`), replaces them by the image in memory (`Acknowledge`), or lets those of all others lose
alternatives (`Settles`: a flush stores the other category's sectors too); a restart picks one; a load takes one
or leaves memory alone. Memory, the images tried since the last acknowledged save and whether a command
runs are the same in both.

The checksum is a byte sum, and two images with the same bytes in another order have the same one, so a mixture of two
images may have the sum of a third. `Alike` is what may be taken for an image: the images, and the mixtures with
the checksum of one. Memory holds what is alike an image, since a load may have taken it, and
`NoTornImage` says that a load takes nothing else. `ChecksumAssumption` says that no mixture is alike an image;
`AcceptedIsRecent` and `SavedCopies` are claimed only of images for which this is so, as those of the run are. `WriteData` and `WriteHeader` take
the flush at the end of a call to be heard by the drive; `ata_flush` below shows a kind
of drive that does not hear it, and there `SavedIsDurable` is more than the code gives.

### Ata

The driver is `pc` with the call in progress; the drive is its status bits, the
command it executes (`job`), its sectors and those of them that are only in its
cache. A poll that succeeds, with what follows it up to the next poll, is one step;
the drive's steps come between any two. A poll may give up while the drive
shows BSY only if that drive is slow, and always when there is nothing to wait
for; then the call returns and the drive stays where it is, so the next call may
find it in the middle of another command. Drives differ (`setting`): a *prompt* one
lets a command replace what it is doing; a *strict* one shows BSY while it stores a
sector and ignores a command while it shows BSY or DRQ. Some fail commands with
ERR, some are slow. `Trusted` leaves one of the four out of the data properties: a
strict and slow drive gives an abandoned command's sectors to the next call, and
nothing in the driver can notice.

### Keyboard

Each interrupt is one step, since the gates disable interrupts. `Test`, `Hlt`,
`Read`, `Advance` are the accesses of `keyboard_getchar()`; the test and the
`hlt` are two steps, so an interrupt may come between them, and one that does
ends no sleep. `Press` and `Release` are the keyboard: scancode set 1, with
repetition, the E0 prefix, and the shifts a keyboard fakes around grey keys
while NumLock is on. The letter stands for the table entries, Up for the arrows.
Each byte carries, as a history value the handler does not see, the key that
it should type.

### ShellRun

A line is the sequence of its words. `input` is the argument of the call of `run()`
about to start, `stack` the calls that wait: of `run()` for the
expansion of an alias (line 100), of `cmd_repeat()` for a repetition. A step is one
call up to the next call or to its return; `run_depth` moves with `Expand` and
`FromAlias`, and `LoopDetected` sets it to 0. The order of the look-ups is in
the guards: blanks, the answer to the D/D/F trap, ddf, the built-in commands, aliases, unknown. "echo"
stands for the commands that touch none of this. `SavedTable` is what a load or
a boot may find; the save that ends `alias` is in `Persist`.

`Runs` is a reference definition by recursion over the words alone, without stack or
counter: what a line runs when a number of aliases may still be expanded, from the answer
of its first word (`Answer`) and the repetitions (`Times`). `Meaning` gives it the expansions of a guard that starts at 0.
`expected` is what of it the current line has still to run and
`as_written` whether it ran that so far.

A guard that starts below 0 lets longer chains pass, so `Meaning` is not the whole truth of every
line. A line is `settled` if `Meaning` is what it means also with any longer guard (each of its chains ends within the limit
or is a loop), if it changes no alias it still needs, and if "actually" is no alias
(the D/D/F trap looks at a line before aliases do); `LineRunsAsWritten` says that such a line runs
what it means. Of a longer chain it says nothing: that is taken for a loop at first, and after a loop goes
on to its end, which `GuardBoundsRecursion` below is about.

A line is `simple` if its meaning has no loop and, unless it is one command, none that may change the
table while more is to come, and if "actually" is no alias. `SimpleLinesRunAsWritten` says that such a line runs what it means,
whatever earlier lines have left in `run_depth` or the trap.

`EveryLineEnds` has two exceptions in its text. One is a line that changes the table of aliases for ever. The other is an alias
that comes back to itself and repeats on the way (`RepeatsItself`), like a for "repeat 2 a": each detected
loop sets the counter back and the next repetition starts another, so `run()` (lines 89 and 100 of `shell/shell.c`, and
line 709 of `shell/commands.c`) calls itself until the kernel's stack is gone.

### Screen, Terminal, Desktop, Session

`screen` is a record: the mode, the cells of the buffer in use, the cursor,
`cur_fg` and `cur_bg` (together the ink) and `vga_attr`. Entering a mode clears
its buffer, so the other one is not kept. A framebuffer cell is two bands of
pixels, since 600 lines are 37 rows of 16 and half a row: scrolling moves the strip below
the last row into the text. An attribute and an ink are told apart.

`Terminal` has one operator per branch of the loop of `shell_run()`. `line`,
`live` and the history's entries are arrays with NUL, and `StrNCpy` is what it is in C
(the last byte stays). A command is one of its effects on the screen
(`Outcomes`): it prints, clears, sets a colour, or changes the mode, as
`graphics set` and `graphics test` do. The branches for Ctrl-P and Ctrl-N
are modelled as they are written although no key of the keyboard driver gives their
characters: `shell/shell.h:17` speaks of arrow keys, which the loop ignores.

`Desktop` is `cmd_dahle()`: `at` is the loop that waits for a key, `queue` what was
typed ahead, `shown` what was painted last. Each queued ESC carries, as history, whether shift was held
when it was typed. Painting is one step. `Session` puts them
together: `Dahle` is Enter on a line that runs dahle, up to the first key the desktop takes;
`LeaveDahle` is the rest of that Enter. While the shell waits it takes a key as
soon as it is typed, so only keys typed behind the desktop's ESC wait for it. Without a
card the desktop runs all the same, on the text screen, unseen.

### Words, Calculator

`Half` is 2^31; all sums and products go through `Wrap`, as the i386 build computes
them (in C the overflow is undefined), and `Traps` says where idiv does.
`IntToStr` and `IntToBin` differ as they do in the code: one loops while a signed
number is positive, the other on an unsigned one. A number as it is written is a `Text`: a radix ("0b" or none), a sign,
digits. The inputs of alu are such texts. `Tokens` is how `cmd_alu()` cuts a line into three tokens of 19
characters (`TokenMax`): the rest of an operand that is too long becomes the next token, and what follows comes one late.
`Readable` and `Operand` are `parse_operand()`, which refuses a binary that is negative or has another digit.
The inputs of scp and the matrices are what their parsers have read; `Refused` is one they could not. An unhandled exception
(`Halted`) is the end, as in `isr_handler()`. `MatrixDet` is the code's recursion, and
`AlongFirstRow` its loop over the first row, wrapped at every product and sum. `Expansion` is the same
expansion in unbounded integers, `Leibniz` the sum over all permutations.

## The runs

| Run | Question | Bounds |
|---|---|---|
| `fs_reliable` | `FileSystem` implements `FsTree`; printed paths, directories and saves with a disk that works | 5 nodes, 3 entries, names home, tmp and `..`; pwd prints 2 levels and directories are up to 3 deep |
| `fs_faults` | pool and saved pool stay trees when saves are cut short | 5 nodes, 3 entries, 2 names |
| `persist` | what is taken for an image has the checksum of one, nothing older than the last acknowledged save is loaded; durability, honest reports, the save list and `SavedCopies` on a steady drive | 2 + 1 data sectors, up to 3 images of the aliases and 1 of the filesystem; five sets of faults: timeouts with 3 images; power failures with timeouts; with errors that last and 3 images; the same with both categories taken on and off the save list; with lost writes |
| `ata` | `ATA_OK` is true, calls stay inside their sectors, errors last, calls return | 3 sectors, calls of 1 or 2, 2 contents, 4 drives |
| `keyboard` | the ring is a queue; bytes type what they should; every key is read in the end | ring of 3, a letter and Up, 4 bytes on the wire, NumLock shifts |
| `shell_run` | lines run what they mean, and end; the loop guard is never early | the guard passes 2 expansions (depth 1; the code has 8), 3 aliases in a table of 3, and further ones named echo and actually; 4 values and those of `Definitions`, 22 lines, repeat up to 2, `run_depth` from -2 at the prompt |
| `session` | line, screen, mode, desktop and queue agree | lines of 2, history of 2, 2 letters and 2 commands; VGA 3 rows of 2, VBE 3 rows of 3 and a strip; 2 windows with 2 places on an axis; 2 keys ahead, 3 entries, the desktop at most after one |
| `calculator` | ranges, traps, printed numbers typed again, determinants, names | int of 5 bits at its edges, tokens of 5 characters, matrices up to 4 by 4, 3 names in a table of 2 |

The bounds are enough for what the properties tell apart. Three nodes are
taken by the default tree, so five leave room for a directory below a
directory, a removal and a creation in the freed slot's place, and exhaustion of the
pool; three entries are enough to fill a directory and to shift two children. Two sectors are the fewest that can tear, and with three images a failed
save can leave a mixture that is an image again; one sector for
the other category keeps the pair small, and the header is the sector they
share. On the drive, two sectors in one call and a third outside it are the least
that tell a sector moved twice, missed or misplaced from the right one. The screens are
just larger than prompt and line, so that each line wraps and the third scrolls; the history
wraps with its third entry. `VisitBound`, `QueueBound` and `ShellLetters` keep the
product of editor and desktop small: the desktop is opened with an empty or a
one-line history only, and the second letter is typed only in the desktop's queue. Five bits
make every edge of an int (the smallest number, ranges of 2^w and of more than
2^(w-1)) a few steps from zero, and a token of five characters has room for every decimal but cuts the binary numbers
from 8 on, as one of 19 does from 2^17 on; names are interchangeable, so the run uses their symmetry. A ring of three has an empty, a full and a wrapped state in each
position, and four bytes on the wire hold an arrow with its prefix or several keys of one
byte; caps lock is in `Keyboard` but outside these bounds. In `shell_run` the guard passes two expansions, so that
three aliases make what ten do in the code: a chain that the guard takes for a loop, until a loop has
lowered `run_depth`, and then runs to its end. They also make a loop of one, two or three, and a loop inside a
repetition; a definition is repeated, and an alias loads the table, in the middle of a line. The values are
such that no line grows while it is expanded, and none is an alias that repeats itself, whose
states have no end. `LowMax` lets a second loop start
from the counter the first has left; `shell_guard` has the code's depth 8 and follows the counter down to -9.

Four more runs each check a sentence of a comment that the code does not keep:

- `persist_header_fields`: `storage/persist.c:36` header fields "are preserved", but
  not when reading the old header failed, as its result is ignored.
- `shell_guard`: `shell/shell.c:53` "recursion guard for alias loops", but line 89 sets
  the counter to 0 below calls that still count down, so it ends at -9 and the
  next loop is expanded twice as deep.
- `ata_flush`: `drivers/ata.h:41` "then flush cache", but `drivers/ata.c:96` writes the
  command while the drive may still be storing the last sector, and a drive that shows
  BSY for that ignores it; the call returns `ATA_OK` with that sector in the cache.
- `desktop_esc`: `shell/commands.c:328` "Shift+ESC → open App Launcher", but line 590 asks
  for shift when ESC is taken from the queue; typed ahead, it leaves the desktop.

Others were met while modelling and have no run:

- a bare cd and `cd /` are not saved (`CHANGELOG.md:48` "fs on mkdir/touch/rm/cd");
- the default tree is built at boot also when the power failed during a save, since
  data sectors are overwritten in place (`shell/shell.c:129` "no FS data saved yet");
- one of two held shifts released clears the flag (`drivers/keyboard.h:7` "1 if a Shift key is held right now");
- below 32 levels pwd prints only the end of the path (`fs/fs.h:49` calls it absolute);
- rm refuses every directory (`README.md:56` says it removes a "file or directory");
- a save without a disk returns `ATA_ERR_NODRIVE` (`storage/persist.h:57` "returns ATA_OK");
- `hist_get(0)` and offsets beyond the ring give an entry although `shell/shell.c:36` promises
  NULL out of bounds;
- after dahle the shell stays in VBE mode, so the first check of `graphics test` fails
  (`shell/commands.c:1496` "shell always runs in VGA text mode");
- `graphics set vbe` says "Switched" also without a card;
- `int_to_str()` prints the smallest int as a lone minus sign.

### Fairness

`keyboard`, `shell_run` and `ata` assume some. In `ata` the driver goes on
polling, since nothing else runs, and the drive goes on with its command; that a poll
ends when the drive does not is the code's, whose loops count down. In `shell_run` the code that runs a line goes on
running: there is no other thread and no call in it waits. In `keyboard` the shell takes its next step whenever it is
not asleep (there is no other thread), which includes that it calls getchar again;
a command that never ends, such as halt, is outside this run. The timer ticks for
ever (`pic_remap()` unmasks every line and nothing masks one), and the interrupt of a
waiting byte is taken. Nothing is assumed of the user. Without the timer the property
fails: a key between the test and the `hlt` would wait for the next key.

No run disables the deadlock check: there is always another key, command, reboot
or tick. The halted machine of `calculator` stays halted by a step of its own.

## The proofs

The theorems hold for every value of the constants that satisfies the named assumptions
of each module, which TLC evaluates in every run. The assumptions give types, and say of sizes and names: at least
three nodes, two entries per directory, a ring of two, one window, one data sector; names without "" and
"/"; NUL and newline are no letters, the prompt has no newline, and prompt and line leave a row
of either screen free (as 255 characters do in 80 columns); a token has room for every int in decimal. One is more than the code
gives: that the checksum tells an image from a mixture. `NothingOlder`, `DiskKeepsCopies` and
`DiskIsCopies` rest on it, and no other theorem does.
Where a property needs more it says so in its own text (`DriveIsSteady`, `Trusted`), or the theorem has `~DiskFaults` as
its hypothesis.

| Theorem | Property | Inductive invariant |
|---|---|---|
| `TypeCorrect`, `TreeStaysWellFormed`, `SavedTreeStaysWellFormed` | the invariants of `FileSystem` | `TreeInv` |
| `DirectoriesNeverMove` | `DirectoriesStay` | `TreeInv` |
| `ListedIsSaved` | `ListingChangesAreSaved`, with a disk that works | `TreeInv` |
| `PwdAlwaysLeadsBack` | `PwdLeadsBack` | `TreeInv`, `StandInv` |
| `PoolIsATree` | `FileSystem` implements `FsTree`, with a disk that works | `TreeInv`, lemmas on places |
| `TypesHold`, `NothingTorn` | `TypeOK`, `NoTornImage` | `Sound`, whatever fails, and whatever mixtures the checksum misses |
| `NothingOlder` | `AcceptedIsRecent` | `PersistInv` |
| `SavedSurvives`, `SavedIsLoadable`, `SavelistsAgree` | `SavedIsDurable`, `SavedMeansLoadable`, `SavelistAgrees` | `PersistInv` |
| `DiskKeepsCopies`, `DiskIsCopies` | `KeepsCopies`: `Persist` implements `SavedCopies`, on a steady drive | `PersistInv`, lemmas on what a disk may be found to hold |
| `ErrorsStayUntilIdentify` | `ErrorsLast`, any drive | `ErrorInv` |
| `DriverStaysInBounds` | `TypeOK`, any drive | `BasicInv` |
| `ReadsAreExact`, `WritesAreStored`, `NoStrayWrites` | `OkReadIsExact`, `OkWriteIsStored`, `WritesStayInside` | `AtaInv` |
| `KeyboardTypes`, `OldestStaysSafe`, `RingIsQueue` | `TypeOK`, `OldestIsSafe`, `ImplementsQueue` | `RingInv` |
| `KeysTypeTheirCharacters` | `TypesWhatWasTyped` | `WireInv` |
| `NeverEarly` | `GuardNeverEarly` | `GuardInv` |
| `SimpleLines` | `SimpleLinesRunAsWritten` | `GuardInv`, `SimpleInv` |
| `ShellRunTypeCorrect` | `TypeOK` | `GuardInv`, `TableFits`, `RestOK` |
| `SessionWindowsStayReachable`, `SessionDisplayIsCurrent` | the two of the desktop | `DesktopInv` |
| `SessionLineEnds`, `SessionLineIsShown`, `SessionNothingBehindCursor` | the three of the editor | `SessionInv` |
| `SessionTypeCorrect` | `TypeOK` | the three and `QueueInv` |
| `ScpStaysInRange`, `PanicsStayAtTheEdge`, `NamesStayDistinct` | of the same meaning | `ScpInv`, none, `VarsInv` |
| `CalculatorTypeCorrect` | `TypeOK` | both |
| `DetsAreExpansions` | `DetIsExpansion` | `VarsInv` |
| `PrintedCanBeTyped` | `PrintedReadsBack` | none: each command by itself |

*Filesystem.* The invariant is `TreeInv`, the three properties together:
the pool's shape does not hold by itself, because a load puts the snapshot in its
place, and the snapshot's because it is a copy of the pool. `WellFormed` has
seven parts that need each other. Entries are younger than their directory
(`EntriesPointBack`), which makes the tree acyclic without talking of paths and
keeps a new node apart from the one it is attached to; creation order makes the slot
to remove unique; `UnusedSlotsEmpty` says that a node about to be allocated has
no entries; `NoOrphanSubtree` and `CwdInTree` are what cd and rm preserve for each
other, as only files are unlinked. The proof has a lemma for each command on the
shape alone (`AttachKeepsShape`, `LeakKeepsShape`, `RmKeepsShape`,
`EnterStaysInTree`, `DefaultShape`) and one that carries it to the snapshot for
each outcome of the save. The walk of cd is a function of bounded length, and the lemma
`TrailStaysInTree` follows it by choosing the first component that would leave
the tree.

That pwd leads back needs one thing more. mkdir takes names that cd cannot walk down to: ".",
"..", and names with a slash. `StandInv` says that the user, and the current directory of
the saved image, stand in a directory above which there is none of these: nobody can have entered one. `ClimbOf` is
the climb of `fs_pwd_str()`, of at most 32 directories; the walk of cd goes back down along it, from the root
if the climb got there. From deeper directories it starts at the ancestor where the climb stopped, and typed
after a "/", as pwd prints it, such a path leads elsewhere or nowhere: `PwdLeadsBack` claims nothing else of it.

*The tree of names.* `PlacesIn` gives every node of the tree its place by recursion over parents. Each fact
about it (it exists, two nodes have different places, a new node adds one place, rm removes
one and leaves the others) is shown for the least node of which it could be
wrong, since parents are older than their entries. Then each command is a step of `FsTree`, or a stutter,
the leak of a node for one.

*Persistence.* `PersistInv` has three layers, by what may fail. `Sound` always holds: the call is at one
of its steps, memory holds what is alike an image (but for the pool the boot has yet to fill), and a header
that sets a category's flag, on the disk or in any of the three static buffers, has the checksum of
a whole image. A mixture that is taken for an image and saved again changes nothing of that, since it has the
checksum of an image. So `NoTornImage` needs no assumption on the checksum. As long as no write is lost
without a word, `ReportedInv` adds that every sector on the disk is of an image
tried since the last acknowledged save, unless no header anywhere has the flag. On a steady drive `SteadyInv` adds that
the header in the buffer is not stale when it is written back (`BufferInv`), and what acknowledged
means (`Kept`).

This proof changed the property. That a load takes wholly one of the images saved since the last
acknowledged save is false when single transfers time out: a save that fails halfway can leave two halves of
two images that together are an image of long ago, and the next save of the other category, whose read of
the header fails too, writes back a header that is old enough to vouch for it. TLC has the behaviour with three images. `AcceptedIsRecent`
therefore speaks of each sector when transfers may time out, and of the whole image on a steady drive.

`KeepsCopies` is the refinement written for all sets of faults at once, of which those that leave the drive
steady are held to it. That `Persist` implements `SavedCopies` rests on three facts about `FoundOf`. What is found of a category depends only
on its own sectors and its fields of the header (`FoundDepends`), so the failures
that matter can be chosen for one category without the other (`MixtureIsLeft`), and a flush takes
alternatives away from a category and gives it none (`CopiesSettle`). Nothing is found without a header that
vouches for it, so what is found was tried (`FoundIsVouchedFor`). And with an empty cache there is one copy or none
(`NothingCached`): that is what makes the header's flush an acknowledgement.

*ATA.* `ErrorInv` says that ERR never stands together with BSY, and that after a reported error ERR
stands and no call has passed its first wait: one that had would not look at ERR
again before it moves a sector. `BasicInv` relates status and job of any drive. `AtaInv` adds, for a trusted drive, where driver and drive stand
to each other: a strict drive has nothing to do when a call begins; a read that waits is given the
next sector of its own; a write is done, wanted, in the drive's hand or being flushed
(`Done`, `Wants`, `InHand`, `Flushing`).

*Keyboard.* The invariant of the ring, `RingInv`, is inductive as it stands: the handler moves
`head` only to a slot other than `tail`, and writes only at `head`, so
it leaves alone the slot at `tail` once the ring is not empty. The queue is `buf` from `tail` on, and each
step that moves an index is a step of `KeyQueue`. `WireInv` says that what is still on the wire, read from
the state the handler is in, is whole keys: a 48 stands behind an E0 exactly if it should type Up.

*Running a line.* The invariant behind `NeverEarly` adds to it the types of the lines that are put on the
stack (`ControlOK`). `CallsPush` and `CallsPop` count the expansions as the
stack grows and shrinks; setting the counter to 0 keeps the inequality, which is why this
direction holds and the other, `GuardBoundsRecursion`, does not.

For `SimpleLines` it has to be shown first that `Runs` has a value at all (`RunsUnfolds`): each call needs one with
fewer expansions left or fewer words, so no call can be the least that has no value. `SimpleInv` then says that what a simple
line has still to run is what its current call means, with enough expansions left for what it
means, followed by what the waiting calls owe, from the top of the stack down (`Waits`); that the table changes only
when nothing more is owed; and that all it has still to run is one command over and over (`Quiet`), so that
a line that armed the trap goes on with divisions, which cannot spring it. That the counter is never above the number of waiting expansions is
`GuardInv` once more: it is why the guard does not stop such a line.

*Session.* `DesktopInv` joins the type of the desktop's state to its two properties; the position of a window
before an arrow is what the guard of the arrow is about. `LineInv` says that the letters of the line are where `len` says,
with zeros behind them, and that every array of the history holds a string: `strncpy` copies a
full array without a NUL, and only the last byte, which it never writes, keeps it one. `ScreenInv` says that a screen is good at every
moment (the cursor on it, blank from there on, either mode), and that
while the shell waits the prompt and the line stand before the cursor and the pen has the ink that was set. It
rests on an order of positions (a row and a column are one number), on lemmas for a
character, a new row, a scroll and a backspace on either layer, and on the runs of `kprint()` and of
the loop of backspaces.

*Calculators.* `ScpInv` adds the range of the seed to its property, and `VarsInv` the types of the table to
its own. The range of scp is an argument about `Wrap`: the draw is below the unsigned range, so the
sum stays below the upper end even when the range itself wrapped to a negative int. The printed
numbers are one about remainders: a wrapped value may go on being multiplied by the base and is still the
number, wrapped (`WrapStep`), so reading digits undoes writing them in every base (`DigitsReadBack`). A binary that is cut
reads as one of the numbers its digits go through while they are written, which are all smaller (`NumeralsBeginSmaller`).
Determinants need that a product and a sum of wrapped numbers, wrapped, is the wrapped product and sum (`TermWraps`);
it goes along a row column by column (`RowWraps`), and from each size of matrix to the next (`EveryDetWraps`).

The type invariants of `Persist`, `Keyboard` and `Session` are theorems only: they follow for every size,
and no run repeats them.

Recursive definitions in modules with proofs are recursive functions, on an interval or on pairs of a number and a line. That one exists,
and a property of its values, is shown by the least argument for which it would fail
(`KprintRuns`, `DigitsRuns`, `DetRuns`, `RunsUnfolds`, `PlacesIn`), which needs no induction scheme.

Only model-checked:

- liveness (`EveryKeyIsRead`, `EveryCallReturns`, `EveryLineEnds`), out of the prover's reach;
- `DetIsLeibniz`: what is left of it after `DetsAreExpansions` is that the expansion along the first row is the sum over
  all permutations, an identity of algebra that says nothing of the code;
- `LineRunsAsWritten`: what it says of lines with loops has no proof yet; of lines without, `SimpleLinesRunAsWritten`
  says the same or more, and is proved.

## Not modelled yet, and the plan

In this order:

1. The module that shows the filesystem's copies of `SavedCopies` to be the
   disk that `FileSystem` assumes (a save leaves the old image, the new one
   or none).
2. The interrupt controller's order of acknowledgement and handler.
3. Lengths: tokens that commands cut at 11 to 31 characters, names of 63, an alias's expansion in 256
   bytes.

Left out for good: boot code and descriptor tables (run once, in a straight line), those
libc helpers that keep no state, pixels, glyphs, widgets and wording (output only), kernelpanic (output
and a reboot), the build and the documents. The boolean command and the graphics parser are pure
functions of two bits and of a short string; the parser has unit tests. Tabs and carriage returns, which the text
layers handle, are never printed by the shell.
