# A TLA+ model of ptywrap

ptywrap is a C library that runs a program on a pseudo-terminal (PTY), keeps
the screen that the program draws in memory, and lets an application read that
screen and type into it. This directory holds TLA+ modules translated from the
C sources, TLC configurations that check them on small instances, and proofs
checked by TLAPS. Paths and line numbers below are relative to the repository.

## 1. Inventory

| Component | Source | State | Operations | Modelled |
|---|---|---|---|---|
| Terminal buffer | `src/terminal.c` | `buffer`, `cursor_row`, `cursor_col`, `current_attrs` | init, put_char, newline with scroll, process_bytes | yes |
| Escape parser | `src/parser.c`, `src/terminal.c` | `parse_state`, `csi_params`, `csi_param_count` | the four parser states; SGR, cursor, erase | yes |
| Session life cycle | `src/api.c` | the resources of a session | create, create_direct, destroy, all error paths | yes |
| Reader thread | `src/reader.c` | `reader_running`, the thread | start, loop, stop | yes |
| Queries | `src/api.c` | `buffer_lock` | get_cell, get_row, get_row_text, get_cursor, get_size | yes; a client that scans row by row |
| PTY manager | `src/pty.c` | `master_fd`, `slave_name` | create, close, window size | create and close |
| Processes | `src/container.c` | child pid, inherited descriptors | attach, direct spawn, pid_alive | yes |
| Input | `src/api.c` | `send_delay_ms`, the PTY's input queue | send, send_str, send_line, set_send_delay | yes |
| Screenshot | `src/screenshot.c` | a growing string | row range, styling, append | yes |
| Python binding | `python/ptywrap_module.c` | the wrapped session | new, init, dealloc, methods | yes |
| Examples, tests, build files | `examples/`, `tests/`, `Makefile`, `python/setup.py` | none | callers of the API | no; `buffer_contains` of `tests/test_vi_edit.c` is the client of `RowScan` |

How they interact. `ptywrap_create` builds the session resource by resource,
forks a child that opens the slave side of the PTY, and starts the reader
thread. The reader polls the master every millisecond; each chunk of at most
4096 bytes goes through `terminal_process_bytes` byte by byte while the thread
holds `buffer_lock`, and each byte may call into `parser.c`. Application threads
take the same lock to copy a cell, a row, the cursor or a range of rows. Sending
input writes to the master without a lock. `ptywrap_destroy` clears
`reader_running`, joins the thread, and then closes and frees.

What is hard here, and what makes each part correct:

- *Terminal and parser.* One flat array is indexed with a cursor that eight
  places move and each clamps in its own way. The cursor must stay on the
  screen, a byte must touch only the cursor's line, a scroll must lose nothing,
  parameters must not leak between sequences, and a sequence the parser does not
  know must not change what follows it.
- *Session, reader, queries.* Three kinds of threads share the buffer, a flag
  and the descriptors. Queries must see whole chunks, nothing may be used after
  it was released, every error path must release exactly what was acquired,
  destruction must return, and the last output of a program must be shown.
- *Processes.* The kernel hands out pids again, `fork` copies every descriptor,
  `waitpid` answers once per child, and `ptsname` returns a buffer that all
  threads share. A program must run on its own session's terminal, its exit must
  be reported once and to its own session, and a destroyed session must not keep
  its terminal open by itself.
- *Input.* Threads write without a lock into a queue that may be full and that
  nobody may ever read, byte by byte or at once, while the mode changes. Bytes
  must arrive in order and at most once, a count that is returned must be true,
  and every call must return.
- *Screenshot.* Sections open and close with changes between neighbouring cells,
  rows come from a range that is normalised in several steps, and two append
  functions share one growing allocation. The text must read back as the cells
  wherever these do not look like marks themselves, no write may fall outside,
  and a failed `realloc` must not go unnoticed.
- *Binding.* An object owns a session from `__init__` to its deallocation; the
  argument parser's format does not match its variables. A session must live as
  long as its one owner, whatever the parser leaves in them.

`PROJECT.json` lists the hazards line by line, with the properties that cover
each or the reason why none does.

## 2. The modules

| Module | What it is |
|---|---|
| `Screen` | the buffer: cells, cursor, `PutChar`, `Newline`, `ScrollUp`, `Erase`, C `int` and `uint8_t` arithmetic |
| `Parser` | EXTENDS Screen: `execute_*` of `parser.c` and the parser states of `terminal_process_bytes` |
| `Terminal` | EXTENDS Parser: the state machine, one step per byte, with its invariants and action properties |
| `SgrReference` | EXTENDS Terminal: what a list of SGR parameters means, declaratively: the list cut into settings, the last of which wins |
| `Paper` | abstract: a roll of paper with a window, without bytes, sequences or a flat array |
| `Scrollback` | EXTENDS Terminal: a history of the lines that scrolled off; implements `Paper` |
| `Stream` | EXTENDS Terminal: composed with a program that sends whole ECMA-48 sequences |
| `AtomicScreen` | abstract: a screen that advances in jumps, and queries answered with one moment of it |
| `Session` | creation, reader thread, queries, destruction; implements `AtomicScreen` |
| `RowScan` | EXTENDS Terminal: composed with a client that reads the screen row by row |
| `ScannedStream` | EXTENDS Stream, RowScan: the program and the client at the two ends of the terminal |
| `Wire` | abstract: requests whose bytes arrive in order, at most once, and are counted |
| `Send` | the send operations of any number of threads; implements `Wire` |
| `Process` | several sessions in one process: names, fork, descriptors, waitpid |
| `Screenshot` | EXTENDS Screen: a range of rows as text, and the text read back |
| `OutputBuffer` | the allocation the text of a screenshot grows in |
| `Binding` | Python objects that own sessions |
| `TerminalProofs` | the theorems about `Terminal` and `SgrReference` |
| `ContextProofs` | the theorems about the modules that put the terminal in a context: `Scrollback`, `Stream`, `RowScan` |
| the other `*Proofs` | the theorems about the module of that name |
| `MC*` | the alphabets and model values TLC needs |

**Screen, Parser, Terminal.** The terminal fields of `struct ptywrap_session`
are one record, `term`. The functions of the C code are operators from a
terminal to a terminal with the same names (`PutChar` is `terminal_put_char`,
`ExecuteEraseLine` is `execute_erase_line`, ...), and `NormalByte`, `EscByte` and
`CsiByte` are the cases of the switch in `terminal_process_bytes`. Every action
(`ReceiveNormal`, `ReceiveEsc`, `ReceiveDigit`, `ReceiveSeparator`,
`ReceiveFinal`) is one iteration of its loop. One byte per step is sound because
the reader holds `buffer_lock` for the whole chunk; what other threads see of it
is the subject of `Session`. Bytes keep their value, since the parser compares
them; a bit field of attribute flags is a set. The assignment of an `int` goes
through `IntWrap`: the Makefile sets no optimisation level, and compiled so,
signed arithmetic wraps. The conversion of a colour index to `uint8_t` is
`% 256`. `execute_sgr`'s loop is the recursive function `SgrLoop`, whose value
after `n` parameters holds the attributes and the number of parameters that
`i += 2` still skips.

**Session.** Variable by variable: `owner` is the program counter of the thread
that creates and destroys the session; `held` the resources allocated
(`calloc`, the mutex, the master, the slave's name, the buffer, the container
id); `running` is `reader_running`, `volatile` in the code and read and written
whole; `reader` the thread's program counter with the `n` bytes read and the `i`
processed; `lock` the holder of `buffer_lock`; `client` the queries. `pending`
and `slave` are the kernel's side: bytes written and not read, and whether the
slave is open. The screen is abstracted to `applied`, the number of bytes
applied to it: every byte makes a different screen, which is the hardest case for
a query. Each of the steps of a creation fails nondeterministically and releases
what the code's error path releases. The reader's step boundaries are those at
which the code can be interrupted visibly: the test of the flag, `read`, lock,
each byte, unlock.

**Send.** A byte is known by its sender, the number of the call and its place.
`wire` is what `write` accepted, `unread` how much of it the program has not
read; `sender[t]` is the state of thread `t` in `ptywrap_send` or
`ptywrap_send_line`. `ChooseMode` is the test of `send_delay_ms`, made once per
`ptywrap_send`, so twice per line. `Burst` is the single `write`, which may be
short; `SlowByte` one iteration of the loop with a delay; `WriteFails` may happen
at any write that has something to write. `AfterSend` is where
`ptywrap_send_line` continues with the newline.

**Process.** `stage` is the program counter of each session's thread, from
`posix_openpt` to the end of `ptywrap_destroy`; `holders` the processes that have
its master open, which a fork extends for every session; `exec_pid`, `child` and
`stdin` the pid, the state and the terminal of its program. `Alive` is
`process_pid_alive`, at any time and any number of times, the `waitpid` in it
resolved by whichever child has the pid now. `told` is a history variable: the
children whose end each session was told of. A child that is forked and not yet
at `open` is "starting".

**RowScan.** The state of `Terminal`, plus `scan` and `row` of the client. Each
`ReadRow` is one whole `ptywrap_get_row_text`: `Session` shows that a query is
atomic. Between two of them the reader thread may take any number of steps, each of which
is `Overtaken` for the client. `kept` is a history variable: the places that have held the text
ever since the scan began. In `RowScan` the program sends any bytes, which is what
the theorem is about; in `ScannedStream`, which the run checks, it is that of
`Stream`.

**Screenshot, OutputBuffer.** `PrintCell` is one iteration of the inner loop of
`screenshot_to_markdown` (`CellLoop`), `PrintRow` the outer one's, and `Validate`
the normalisation of the range. The text is a sequence of tokens. A byte that the
screen can hold as well is the same token whoever wrote it: `Open` and `Close` are
the characters `[` and `]`, `BeginNote` and `EndNote` are `(` and `)`. Only what
the screen cannot produce has a token of its own: the wording of an annotation,
the fence (each backtick of the screen follows a backslash) and the footer after
it. `ReadBack` is the definition of a reader, against which the text is checked:
it goes through the text token by token (`Reading`), knows nothing of cells or
styles, takes every bracket for the beginning or the end of a section and
parentheses right after an opening bracket for annotations. `Legible` says which
screens leave such a reader no doubt: no bracket in the rows asked for, and no
opening parenthesis in a style other than the default.

The growth of the string is a module of its own, since nothing it does depends on
what is appended but the length: `Append` starts one append, each `Grow` is an
iteration of the loop that doubles the size, with a `realloc` that may fail,
`Write` the copy, which crashes when there is nothing to write to. `failed` is a
history variable.

**Binding.** `Initialize` is `PTYSession_init`. `Parsed` is the set of outcomes
of `PyArg_ParseTupleAndKeywords` with the format that is there: a value for
`cols` overwrites the `int` with half a pointer, and one of the neighbouring
variables with the other half, depending on where the compiler put it. A value for
`command` has to be an `int`, which replaces the lower half of the pointer
`command_obj`: 0 leaves `NULL`, another one a wild pointer. The sizes of sessions
are left out.

Definitions marked "Defective variant" are the form a plausible slip would give
to the definition after them. Nothing uses them; substituted for the original,
each makes a property fail (the "mutants" of `PROJECT.json`), which shows that
the property depends on the code it is about.

## 3. The properties and the runs

| Run | Shows |
|---|---|
| `terminal` | on a 2 x 2 screen, any text with any command: `CursorOnScreen`, `SlotExists` (`csi_params` is indexed inside the array), `FreshParams` (no stale parameter), `RowConfinement` (a byte changes the cursor's line only, or scrolls by one, or clears), and `ImplementsPaper` (with the lines scrolled off remembered, the buffer is the window on a roll that only grows at its end) |
| `sgr` | `SgrLastSettingWins`: `execute_sgr` agrees with the reference for every list of up to 4 of 18 parameters |
| `stream` | `InStep`: the parser is back to text whenever the program is; `OnlyCutSequencesShow`: nothing of a sequence is printed before the parser has cut it; `StableTextFound`: a text that stays in place is found by a client that reads row by row meanwhile |
| `session` | `NoUseAfterFree`, `NothingLeaked`, `NoTornQuery`; `DestroyReturns`, `OutputShown`; `ImplementsAtomicScreen` |
| `send` | `FailedBurstSentNothing`, `SendReturns`, `ImplementsWire` |
| `process` | `OwnTerminal`, `ExitReportedOnce`, `HangupDelayedByOthers` |
| `screenshot` | `MarkdownFaithful`: the text, read back, has the rows asked for with the characters and annotations of their cells, as long as none of these looks like a mark; `OverrunNeedsLateStart`: only a start below the screen reads outside the buffer |
| `output_buffer` | `WritesInside`: until a `realloc` fails there is an allocation, and every write is inside it; `FailureNeverHidden`: after one, the caller gets `NULL` or the program crashes, and never gets a text without its beginning; `AppendEnds` |
| `binding` | `OneOwner` |
| `terminal_wrap`, `process_names`, `process_asked` | disagreements between the code and what the repository says of it (section 6) |

Bounds, and why they are enough:

- *Screen.* 2 x 2 has a row to scroll to and one to scroll from, and a column
  that is next to last and one that is last, and text can move past a client
  between its two calls. The proofs cover every size.
- *Alphabets.* The bytes are one representative of each class the code
  distinguishes: a printable character, LF, CR, BS, ESC, an ignored control
  character, a byte above 126; `[` and not `[`; digits, `;`, every final byte
  (`f` shares its code with `H`), one unknown. In `Terminal` the program may send
  any of them at any time, so sequences are cut short and nested freely.
- *MaxParam* bounds a parameter from the input side. In `terminal` the digits
  are 1, 2 and 3 and it is 3: one step, to the edge (and "erase all"), and beyond
  every edge; an empty parameter gives 0. *MaxInt* is a scaled-down
  `INT_MAX`: 127 leaves room for every parameter that `terminal` sends, 31 in
  `terminal_wrap` does not. *NParams* is 2 instead of 16, so that runs get past
  the limit. `MaxScroll` bounds the history at 2 lines: enough to see two lines
  in order.
- *SGR.* The run starts from every list of up to 4 parameters, and two sets of
  old attributes, in the state before the final byte. 4 parameters let "38;5;n"
  stand before, after and across the end of the list; the values have every flag
  on and off, colours inside and at the ends of their ranges, both extended
  colours, an unknown one and 300, beyond a `uint8_t`.
- *Stream.* Every form of sequence with any number of parameter bytes; `2`, `;`
  and `?` stand for digits, separators and the bytes that cut a sequence. There is
  one parameter slot, since the slots are the subject of `terminal`. The client
  looks for `A`, the only character the program writes as text (`2`, `l` and others
  show after a cut), and its buffer holds one of the two columns.
- *Session.* Two clients with two queries each, chunks of up to 2 bytes, 3 bytes
  of output and 2 places copied per query: a query can start before, during and
  after a chunk, and be raced by a second chunk and a second query.
- *Send.* Two threads, one call each of up to 2 bytes and a newline, and a
  terminal that holds 2: a line does not fit, a short write is possible at each
  length, and one thread can fill the terminal under the other. The delay changes
  at any time.
- *Process.* Three sessions and two pids, so that a pid is used again while
  another session lives and both are asked, any number of times. `Concurrent` is
  FALSE in `process` and TRUE in `process_names`.
- *Screenshot.* Two rows of three cells over five kinds of cell (a parenthesis
  and a bracket without style, a backtick, which is escaped, with and without
  style, and a backslash in a second style), and every pair of row numbers from
  -1 to 2: a section can begin, end, change and run up to the end of a row and to
  the next, a parenthesis can follow a section, and a bracket can be in a row
  that is asked for or not.
- *OutputBuffer.* A first allocation of 6 and strings of up to 5, one less, with
  a text of up to 60: every position relative to the end of the allocation at
  four of its sizes. The module assumes that the first allocation has room for
  any one string (`MaxString < InitialSize`); in the code it has 4096 bytes, and
  the longest strings are built in arrays of 256.
- *Binding.* Two objects, three sessions, every combination of arguments, and a
  second `__init__`.

`CHECK_DEADLOCK FALSE` stands where the system may stop: a session, or all of a
process's sessions, destroyed or never created; calls and output used up; a
screenshot or a sequence at its end; a process that crashed.

## 4. Fairness

`Session` assumes weak fairness of the owner once destruction has begun
(`Destroy`), of the reader thread (`Read`) and of each query under way
(`Query(c)`): the threads are scheduled, and nothing they do blocks except the
mutex and the join, which are guards. `read` does not block because `pty_create`
sets `O_NONBLOCK` on the master; the code ignores a failure of that `fcntl`, and
so does the model. Weak fairness gives a waiter a mutex that *stays* free and
nothing more; the mutex itself is not assumed fair. `DestroyReturns` does not
need that, because the owner starts to destroy only when no query is under way
and the reader then has no competitor, and `OutputShown` does not because the
queries are finitely many (`MaxCalls`): with threads that query in a tight loop
for ever, a mutex that starves the reader would keep output from being shown,
and POSIX permits it. Nothing is assumed of the program: it may never open the
slave, write or exit. Nothing makes an application call or destroy.

`Send` assumes weak fairness of each thread inside a call (`Step(t)`): threads
are scheduled and `write` returns at once, again because of `O_NONBLOCK`.
`ProgramReads` has no fairness: the program may never read.

`OutputBuffer` assumes weak fairness of `Grow \/ Write`, the loop and the copy
of an append: the caller's thread goes on. A `realloc` may always fail.

The other specifications state no fairness and no liveness property.

## 5. What is proved

For every value of the constants that satisfies the assumptions of the modules,
and for behaviours of any length:

| Theorem | States | Assumes besides |
|---|---|---|
| `CursorStaysOnScreen` | `Spec => []CursorOnScreen` | `ParamsFit` |
| `RowsStayConfined` | `Spec => RowConfinement` | `ParamsFit` |
| `SlotAlwaysExists`, `ParamsAlwaysFresh` | `Spec => []SlotExists`, `[]FreshParams` | |
| `TypeCorrect` (Terminal) | `Spec => []TypeOK` | |
| `LastSettingAlwaysWins` | `Spec => []SgrLastSettingWins` | |
| `PaperImplemented` | `HistorySpec => ImplementsPaper` | `ParamsFit` |
| `ParserKeepsInStep` | `StreamSpec => []InStep` | |
| `UncutSequencesNeverShow` | `StreamSpec => OnlyCutSequencesShow` | |
| `StableTextAlwaysFound` | `ScanSpec => []StableTextFound` | |
| `TypesHold` (Session) | `Spec => []TypeOK` | |
| `NeverUsedAfterFree`, `NeverLeaks`, `QueriesNeverTorn` | `Spec => []` of the invariant of that subject | |
| `SessionIsAtomicScreen` | `Spec => ImplementsAtomicScreen` | |
| `TypesHold` (Send) | `Spec => []TypeOK` | |
| `FailedBurstsSendNothing` | `Spec => []FailedBurstSentNothing` | |
| `SendIsWire` | `Spec => ImplementsWire` | |
| `TypeCorrect` (Process) | `Spec => []TypeOK` | |
| `AlwaysOwnTerminal` | `Spec => []OwnTerminal` | `~ Concurrent` |
| `ExitsReportedOnce` | `Spec => []ExitReportedOnce` | |
| `HangupsDelayedByOthers` | `Spec => []HangupDelayedByOthers` | |
| `OnlyLateStartsOverrun` | `Spec => []OverrunNeedsLateStart` | |
| `MarkdownAlwaysFaithful` | `Spec => []MarkdownFaithful` | |
| `AlwaysWritesInside`, `FailuresNeverHidden` | `Spec => []WritesInside`, `[]FailureNeverHidden` | |
| `AlwaysOneOwner` | `Spec => []OneOwner` | |

The assumptions in the last column are those under which the code is right, and
each stands in the statement of its theorem. `ParamsFit` says that a parameter
plus a screen dimension fits an `int`; `terminal_wrap` shows what happens without
it. `~ Concurrent` says that sessions are created one at a time; `process_names`
shows what happens otherwise. Two properties carry a condition in themselves:
`MarkdownFaithful` is about rows that are `Legible`, and `WritesInside` about the
time before a `realloc` fails, after which `FailureNeverHidden` takes over.

Among the assumptions of the modules, `ScreenAssumption` asks that the rows and
the columns, which are `int`s, are at most `MaxInt`, `ScreenshotAssumption` that a
cell holds a printable character, two `uint8_t` colours and flags (`TypeOK` of
`Terminal`), and `OutputBufferAssumption` that the first allocation has room for
any one string.

The theorems about loops (`execute_sgr`, `screenshot_to_markdown` and the reader
of its text) need induction. The loops are recursive functions rather than
`RECURSIVE` operators, so that they can be reasoned about; that such a function
satisfies its equation, and what it has after `n` steps, follows from the
well-foundedness of `<` on the natural numbers (`NatLessThanWellFounded`,
`WFMin`), cast into the lemmas `SetInduction` and `BoundedInduction` about a set
of numbers.

*Terminal.* `CursorOnScreen` is not inductive: a movement adds a parameter to the
cursor, so the sum has to be bounded as well. The inductive `Inv` of
`TerminalProofs` says that the terminal is a record of the right shape, that the
cursor is on the screen, and that every parameter is between 0 and `MaxParam`.
Row confinement follows from `Inv` byte class by byte class, by arithmetic on
`Index`: cells of different rows have different indices. `SlotExists` and
`FreshParams` have an inductive invariant of their own, `ParserInv`, that says
nothing of the cursor and little of the values: this is why they do not need
`ParamsFit`. It adds what each parser state says of the count: below `NParams` in
a sequence, and 0 with all slots 0 before the first parameter.

`TypeOK` needs no `ParamsFit` either: all that it says of the cursor is that it
is an `int`. Where a parameter overflows, `terminal_put_char` may write through a
negative index; the model leaves the buffer as it is then, and says nothing of
the memory that the write hits. `TypeOK` is inductive as it stands, given that
`ParserInv` bounds the count and that `SgrLoop` keeps the attributes in range,
which is an induction along the parameters.

*SGR.* The reference cuts the list of parameters into settings. `CutFound` shows
that there is such a cut, and only one, and that `SgrLoop` skips a parameter just
if no setting starts there (`SkipPlace`). Then, by induction along the list, the
attributes after `n` parameters are those of the last settings up to place `n`
(`LoopAttrs`, `LoopIsReference`): a setting either touches an attribute, and is
the last one so far, or leaves it to the last one before.

*Scrollback.* The inductive invariant `HistoryInv` consists of `Inv`, `TypeOK`,
`ParserInv` and the shape of the history. The roll is the lines that scrolled
off followed by the buffer's. `IndexInjective` says that two places of the screen
never share a cell; from it, a change in one row changes one line of the roll
(`ChangedLine`), and the `memmove` of a scroll, whose first line joins the
history, adds a line at the end of the roll and changes no other
(`ScrolledRoll`). Each byte is then one action of `Paper` (typing a character,
a new line, a movement, an erasure) or changes nothing that `Paper` sees. The
theorem is about `HistorySpec` without a bound on the lines that scroll off.

*Stream.* `StepInv` is `InStep` with the shape of the terminal record. Each step
of the program is one byte, and the state it leaves the parser in follows from
the state before and the class of the byte.

*RowScan.* `ScanInv` says that the places in `kept` hold the text now and that
none of those a row can show lies above the row that is read next. A place
leaves `kept` as soon as its cell changes, so bytes need no case analysis.

*Session.* The inductive invariant `Inv` connects the owner's program counter to
the resources held exactly, the reader's existence to `running` and the owner's
phase, and `lock` to the unique thread whose program counter is inside the
critical section; it says that the places a client has copied equal `applied`,
which only a reader in `process` changes, which the lock excludes. `CountInv`,
`CopyInv` and `RestInv` add the ranges of the counters. For the refinement, each
step is matched with one of `AtomicScreen`: starting the reader is `Open`, the
reader's unlock `Show`, `Call` is `Ask`, the copy of the last place `Answer`, and
the join or a failed creation `Close`; the others change nothing that
`AtomicScreen` sees. An answer is the screen of the moment of the last copy
because the lock keeps the reader out, so that it has no chunk half applied.

*Send.* `SenderInv` bounds the counters of each call and `WireInv` what is in
the terminal. `LandedInv` is what makes `FailedBurstSentNothing` inductive: no
byte belongs to a call that is still to be made, and a call that has not written,
or whose only write failed, has no byte there. For the refinement, what a call
has accepted is the number of its bytes so far, and every run of bytes that
`write` accepts is one step of `Wire`.

*Process.* One invariant per property: `NameInv` (while one session is created,
the buffer of `ptsname` and the copy name its terminal), `PidInv` (different
children that were not waited for have different pids, and what the property says
of the exits told so far) and `HolderInv` (a master is open only in the parent and
in children forked after it). By `PidInv` a query takes at most one child out of
the process table. If that is another session's, the session that asked has lost
its own before; and if it was never told of its own, then because a third one with
the same pid was told of it (`AliveReports`).

*Screenshot.* What a reader sees after two texts in a row is what it sees of the
second when it starts where the first left it (`ReadConcat`, by induction along
the second). So the text is taken apart: the annotations of a style, read one
after the other, are its `Notes` (`ReadHints`); a change of style closes the
section the reader is in and opens the one of the new style; a character adds one
character, escaped or not, because the reader takes back the backslash of the
escape, and because it is not taken for a mark where it stands: after an
annotation or an opening bracket a parenthesis would be (`Literal`, `CharReads`,
from `ReadsAsItself`). `Reached` is what the loop over the cells keeps up: a section
is open exactly while the style is not the default one, the reader is in the
section of that style, and its line is what the cells so far should read as
(`CellLoopReads`). Over the rows, the inductive invariant is `MarkInv`: the lines
read so far are an empty one, for the fence, and those of the rows from the first
to the one before `row`, if the screen is `Legible`; the rows that are printed are
all among those that were asked for (`PrintedRows`).

*OutputBuffer.* The position is below the size, and an append asks for more than
the length of its string. For `FailuresNeverHidden` the inductive invariant adds
that once the string is `NULL`, the position plus the first size is below the
size: the size was doubled before `realloc` failed. So the next append finds room
at once and writes, and no `realloc(NULL)` starts anew.

*Binding.* An object's handle is a live session that was made for it; a live
session without such an object was made for one whose `__init__` was called again.

Model-checked only: liveness (`DestroyReturns`, `OutputShown`, `SendReturns`,
`AppendEnds`), because TLAPS does not reason about `ENABLED`. Every other
property of a passing run is proved.

## 6. Disagreements found

With a run:

1. A movement (`CSI n A/B/C/D`) whose parameter exceeds `INT_MAX` is accumulated
   to a negative number (`src/terminal.c:160`); `src/parser.c` clamps each
   direction only at the edge it moves towards, so the cursor leaves the screen.
   `tests/test_basic.c:101` asserts that it never does. (`terminal_wrap`)
2. Two threads that create a session at the same time may start both programs on
   one terminal, because `ptsname` (`src/pty.c:50`) returns a buffer that all
   threads share. `README.md:285` says "All public API functions are
   thread-safe." (`process_names`)
3. `ptywrap_process_alive` returns 0 for a program that has exited only once:
   `waitpid` takes the child out of the process table (`src/container.c:143`) and
   nothing remembers that. Asked again, it returns an error, or the answer for the
   program of another session that has the pid by then, whose exit that session is
   then not told of. `include/ptywrap.h:185` says "Returns: 1 if running, 0 if
   exited, negative on error". (`process_asked`)

Seen while modelling, without a run of its own; the models follow the code:

- Private sequences such as `CSI ? 2 5 l` are taken to end at `?`, and the rest
  is printed, although `src/parser.c:216` says that an unsupported command is
  ignored; `ESC ( B` is taken to end at `(`, and `B` is printed
  (`src/terminal.c:150`). By `OnlyCutSequencesShow`, nothing
  but what follows such a cut is printed.
- No byte above 126 reaches a cell, although `include/ptywrap.h:42` says that a
  cell holds the first byte of a UTF-8 character.
- `CSI J` and `CSI 0 J` erase nothing; `README.md:281` lists "Erase: Display (J)".
- Children inherit the masters of the other sessions, so that a destroyed
  session's program is hung up only when the programs started after it have
  ended (`HangupDelayedByOthers` says exactly when). Children are never waited
  for by `ptywrap_destroy`.
- `ptywrap_send_line` sends the newline after a short write too, and lines sent
  by two threads interleave; with a delay, a failure in the middle loses the
  count of the bytes sent.
- A text that scrolls up between two rows of a row-by-row scan is in neither.
- `ptywrap_screenshot` with a start row below the screen reads outside the
  buffer; blinking text is not annotated; when `realloc` fails, the next append
  writes through `NULL` (`FailureNeverHidden` says that it is this or `NULL` for
  the caller).
- A screenshot escapes backticks and nothing else (`src/screenshot.c:63`, `:78`),
  and puts styled text between brackets (`:147`, `:158`): text with brackets of its
  own, or styled text that begins with a parenthesis, cannot be told from the
  marks. `MarkdownFaithful` leaves out such rows (`Legible`).
- In the binding, a command given as a list is a `TypeError`, one given as an
  `int` other than 0 is a wild pointer, which crashes unless a container id was
  given as well (`ValueError`), `cols` does not arrive, and a second `__init__`
  leaks the first session.
- `rows * cols` is computed in `int`.

## 7. What is not modelled, and the assumptions

- The owner's contract: no query is under way when a session is destroyed, and
  none follows. The API cannot check it. Argument checks (`NULL`, ranges) return
  without touching state and are left out, as is `ptywrap_get_size`, which reads
  two fields that never change.
- In `Session` the slave is opened once and closed once. The reader treats a
  hang-up as the end, so that a program that opens the slave again would be
  ignored. The descriptors that children of *other* sessions inherit are in
  `Process`.
- A chunk is at most `ReadSize`; the kernel's queue of output is not bounded,
  since a program that blocks on a full queue is just one that does not write.
- A failure of `fcntl(O_NONBLOCK)`: it does not happen on a descriptor that was
  just opened, and reads and writes would block.
- Window sizes: the library never sets one. The loop over a command
  sequence in the binding cannot be reached, since the argument parser lets no
  sequence through.
- `ptsname` fills its buffer in one step in `Process`; two threads inside it at
  once could also mix two names.
- The child of a creation that fails after the fork lives on in `Process`, as
  the code leaves it; nothing says what should become of it.
- The lengths of pauses, podman, wording and layout of the screenshot.
- Sizes: `Screen` has a cell for every index, so that dimensions whose product
  exceeds an `int` are outside it. `Binding` leaves out the sizes of sessions:
  which number of columns arrives has no bearing on who owns a session.
- The examples, the tests and the build files keep no state; they were read for
  what they say of the library.

## 8. What is left

1. The safety half of the liveness properties as theorems: in every state with a
   destruction, a query, a call or an append under way, some thread can go on
   with it, and its steps use up a finite amount of work.
2. `rows * cols` in `int` against the indices used, and a master that blocks
   because `fcntl` failed: two variants of `Screen` and `Session`.
3. Larger instances of `Send` (three threads, a second call each) and `Session`.
