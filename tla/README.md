# A TLA+ model of the KBOX terminal

KBOX is an Android terminal application with a small Unix userland. The
repository holds two copies of the application; the modules here model the
current one, `src/app_1_0_48_2`: the `emulatorview` library, the classes of the
application that drive it and its native code. They also model the program that
installs the userland, `src/source/kbox_shell`. Every definition that stands for code
is listed with its source lines under `map` in `PROJECT.json`.

## The system

| Part | State | Operations | Correct when | Here |
|---|---|---|---|---|
| `ByteQueue` | ring `mBuffer`, `mHead`, `mStoredBytes`, its monitor | `read`, `write`, `getBytesAvailable` | FIFO, nobody left asleep | `BytePipe`, `ByteQueue` |
| `TermSession` | two queues, reader and writer threads, two loopers, `mIsRunning`, `mWriterHandler` | `write`, `initializeEmulator`, `readFromProcess`, `finish`, thread bodies | no byte stuck in a queue, UI thread never hangs, threads end | `TermSession` |
| `UnicodeTranscript` / `TranscriptScreen` | circular array of rows, window of screen and transcript | `setChar`, `setLineWrap`, `blockCopy`, `blockSet`, `scroll`, `resize` | no line lost, repeated or reordered; cursor on its line | `Scrollback`, `UnicodeTranscript` |
| `FullUnicodeLine`, `StyleRow` | text and column offsets of a row, packed styles | `setChar`, `getChar`, `copy` | offsets consistent with the text | planned |
| `TerminalEmulator`, input side | escape state, arguments, OSC string, UTF-8 decoder | `append`, `process`, `handleUTF8Sequence` | arguments and strings are what was sent; an exception does bounded damage | `TerminalParser` |
| `TerminalEmulator`, screen side | cursor, saved cursor, margins, modes | the control functions, `updateSize`, `reset` | cursor and margins on the screen, drawing inside it | `TerminalEmulator` |
| `TermKeyListener` | modifier keys (unpressed, pressed, released, used, locked) | `onPress`, `onRelease`, `adjustAfterKeypress` | a one-shot modifier affects one key | planned |
| `ShellTermSession`, `Exec`, `termExec.cpp` | pty descriptor, process id, watcher thread | `createSubprocess`, `waitFor`, `hangupProcessGroup`, `close`, `finish` | descriptor and process id belong to the session that uses them | `ShellTermSession` |
| `Term`, `TermService`, `SessionList`, `TermViewFlipper`, `WindowList`, `RemoteInterface` | list of sessions, list of views, pending intents | lifecycle callbacks; create, close, switch window; finish callbacks | list and views correspond; no session is stopped by mistake | `TermWindows` |
| `kbox_shell.c`, `initscript` (with busybox `ln` and `tar`) | files of the installed userland | first-run copy, links and unpack | overlapping or killed shells leave nothing that is taken for complete | `KboxInstall` |
| `EmulatorView`, renderers, preferences | pixels, settings | drawing, Android plumbing | - | not modelled: no protocol of its own |
| `src/app`, andplay, solunar, vendored programs | - | - | - | not modelled: superseded, single-shot, or third-party |

How the parts interact: a reader thread copies what the shell prints from the
pty into `mByteQueue` and posts `NEW_INPUT` to the main looper, whose handler
runs `readFromProcess()` and the emulator. The emulator may answer (device
attributes) through `TermSession.write()` from inside that handler. Keys, pastes
and the initial command come to the same `write()`, which fills `mWriteQueue` and
posts `NEW_OUTPUT` to the looper of the writer thread, if the main thread can see
`mWriterHandler`, a field the writer thread sets without synchronisation.
`finish()` clears `mIsRunning`, posts `FINISH` to the writer and closes the streams.
A watcher thread waits for the process and posts `PROCESS_EXITED`. The process is
`kbox_shell`, which installs the userland if it is not there and becomes the
user's shell; one runs in every window.

What is hard: three threads, two monitors and two message queues with an
unsynchronised field between them; calls that block the UI thread; state read in
one monitor section and used in the next; a session that ends while it is
starting; numbers of descriptors and processes that outlive what they name; an
activity whose callbacks Android orders; an input parser whose exceptions are
swallowed in the middle of a sequence; an installation without locks or
transactions; and circular arrays whose two ends wrap at different moments. The
hazards, each with its line and the properties aimed at it, are in `PROJECT.json`.

## Modules

**`BytePipe`** is the promise: a sequence of at most `Capacity` bytes, `Put` at
one end, `Take` at the other.

**`ByteQueue`** is the class. A call of `write()` or `read()` is `Begin...`,
acquisition of the monitor (`...Enter`), one step per copied run (`...Run`), for
a full or empty queue `wait()` and the re-acquisition (`...Wait`, `...Reenter`), and
the exit with its conditional `notify()`. `wasEmpty` and `wasFull` are the locals
fixed on entry. Bytes are numbered in the order they are written, so order is
visible. The consumer either polls `getBytesAvailable()` first, as both callers
in `TermSession` do, or reads and blocks; `polled` says which one this consumer does.
Wakeups without a notification are possible, as the Java specification allows.

**`TermSession`** has one action per statement of the three threads that touches
shared state. The queues appear as `BytePipe` does, by the number of stored
bytes: what `ByteQueueProofs!Refinement` shows of the class. `mWriterHandler` goes
from `null` to `assigned` when the writer thread sets it: from then on a read by the
main thread may return either value. It is `published` once the writer has used the
queue's monitor, which makes it visible to the main thread's next use of that
monitor, and then `seen`, for good. `printed`, `processed`, `written`, `delivered` are
history counters.

**`Scrollback`** is the promise of the screen buffer: a history and a screen as
sequences of lines and a cursor; a scroll of a region sends its top line to the
history; a resize hides blank lines below the cursor first, then lines at the
top, or takes lines back from the history.

**`UnicodeTranscript`** is the circular array with its window
(`mScreenFirstRow`, `mActiveTranscriptRows`, `mScreenRows`). A row is its text and its
wrap flag: one model value stands for every text, since the operations move rows
and `resize()` only asks whether a row is blank; a null row and a row of spaces
are both blank. `mColor` is moved together with `mLines` by every operation and is
left out. `blockCopyLines()` and `blockCopy()` keep their loops and their order.
`setCursorRow` is any move of the emulator's cursor to a row of the screen.
`resize` includes the part of `TerminalEmulator.updateSize()` that follows it. A
change of the number of columns, which rebuilds the transcript, is left out.

**`TerminalParser`** takes one byte a step through `append()`. Bytes are told apart
as far as some escape state does. The state holds, besides the code's fields, the
bytes sent of the current arguments and of the current OSC string. The decoder is
the positions of its two buffers and the first decoded character; `credit` counts
the wrong characters that the last exception can still explain. A control function
appears only by whether it ends in an exception, and any of them may: once the cursor
or a margin is off the screen nearly all do. `CSI m` reads `mArgs` up to `mArgIndex`,
which the field's comment (line 68) keeps below the length of the array and the code does
not: with all arguments given it always throws. The process sends characters of one to
four bytes (`sending`), and characters are lost in four ways: the byte buffer is full, the
byte is swallowed to end a broken character, the stale character is shown instead,
or the process itself broke it off, which `credit` forgives.

**`TerminalEmulator`** is the other half: one action per control function, with its
arguments. Drawing calls appear by the conditions under which `UnicodeTranscript`
throws; `outside` says that the last step drew outside the screen, and the fields
are then what the function had made of them by that time. A row of wide or combining
characters can throw inside the screen, too: `emit` may do so anywhere (`fault`), and
a `CSI P` that reaches the right edge copies nothing from column `mColumns`, where
such a row has no offset (`DeleteUpTo`). Rows and columns are ints of a given width:
sums wrap (`Wrap`). A tab stop may be anywhere. What re-emitting a transcript
leaves as cursor after a change of width is any place on the new screen, since it
depends on the text.

**`ShellTermSession`** has several sessions over one table of descriptors and one
of process ids, both reused. `mTermFd` and `mProcId` keep their numbers after they
are gone. A stream call fetches the number (`Fetch`) and then calls the kernel
(`Transfer`), so that a `finish()` can come between; `Exec.close()` closes the number
itself, the streams do not own it. A creation that fails leaves `-1`, an
uninitialised id (`Garbage`) and perhaps an open `/dev/ptmx`. The id may be that of
another session's process; as an argument of `kill()` and `waitpid()` it may also
stand for every process, for any child, or, being 0, for the application's own
process group. A hangup of that group ends the application (`alive`), and its
terminals with it. Creation is one step: that a child has not yet reached
`setsid()` when the next call is made is left out. `stray` and `hits` are histories.

**`TermWindows`** has one action per callback on the main thread. Sessions and views
are numbers; `views` and `mWhichChild` are the flipper's children and Android's index.
`listening` counts how often the activity is in the list's callbacks (it is added by
`populateViewFlipper()` and again by each `onResume()`). The order of callbacks is
Android's: `onNewIntent()` and results come while the activity is paused, a
destroyed activity is recreated with the window list still in front. `odd` is a
history of the orders of events that the code does not provide for: an intent
`overtaken` by another change of the list, a last session that ends `unseen`, and a
close gone `astray`: the dialog posts it, and when it runs the session at the index
of the view shown is another view's. `reason` is why the activity will stop the
service: the list was `empty`, the Back key `asked` for it (its preference
`BACK_KEY_STOPS_SERVICE`), or a result of the window list came too `early`, before
the service was connected, and the missing list was taken for an empty one.
`stoppedAt` is how many sessions had been created by then.

**`KboxInstall`** has one action per system call of the commands that `kbox_shell`
and `initscript` run, for several shells. Busybox is a file, its mode and its chunks;
a link exists or not; an entry of the base system is absent, whole, partial or being
written by a shell. The archive is not in the repository: `Makefile.debug` packs a
directory, whose order is the file system's, so the places of `etc/profile` and
`bin/shell_wrapper.sh` in it are constants. `cat` cannot open a busybox that is running
and a busybox that is being written cannot be executed, as the kernel has it. `Kill` is the closing of the
window, `CatFails` and `TarFails` are a full disk; `odd` records what went wrong.

`MC...` modules and `.cfg` files give the constants values; `...Proofs` modules hold
the theorems.

## Runs

| Run | Checks | Shows |
|---|---|---|
| `bytequeue` | `TypeOK`, `InOrder`, `PolledReadNeverBlocks`, `ImplementsPipe`, `WriteReturns`, `BytesDelivered` | the ring is a FIFO pipe under every interleaving; a polling consumer never blocks and always wakes a blocked producer |
| `bytequeue_blocking` | `NeverBothWaiting`, violated | with a consumer that blocks in `read()` a `notify()` is skipped and both threads sleep; latent, since both callers poll |
| `termsession` | `TypeOK`, `InputSignalled`, `OutputSignalled`, `BlockedIsServed`, `WriteReturns`, `InputProcessed`, `OutputDelivered` | before, during and after initialisation and `finish()`, queued bytes are always covered by a message or a drain that is still to come, the racy `mWriterHandler` included; only a session never shown can hang the UI thread, once it is sent more than its queue holds |
| `termsession_paste` | `WriteReturns`, violated | a write longer than the queue hangs the UI thread: the writer is signalled only after all is queued |
| `termsession_reader` | `ReaderStops`, violated | `finish()` leaves a reader blocked on a full queue asleep |
| `termsession_writer` | `WriterStops`, violated | `finish()` before the writer thread has set its handler posts no `FINISH` |
| `transcript` | `TypeOK`, `ImplementsScrollback`, `RowsMoveAsPromised` | the circular array behaves as history and screen, operation by operation |
| `emulator` | `TypeOK`, `CursorOnScreen`, `MarginsOnScreen`, `DrawsOnScreen`, `RegionKeepsCursor` | margins stay on the screen; only an overflowing `CSI B` or `C`, and the bottom margin of a one-row screen, take the cursor off it or out of its region; only `CSI X`, a combining character and `CSI P` up to the edge of a wide row draw outside |
| `parser` | `TypeOK`, `ArgsAreTheFields`, `StringIsWhatWasSent`, `DamageIsBounded` | what the parser hands over is what was sent, also after exceptions and broken characters; an exception costs at most three later characters, and one more each time the stale character throws again |
| `sessions` | `TypeOK`, `DescriptorsOwned`, `StrayAtMostOnce`, `OthersLiveOn`, `ExitIsNoticed` | sessions do not close or hang up what is another's; the exceptions are a number already fetched, and a process that was never created or already waited for; an exit is noticed unless the watcher of a session without a process has taken it |
| `windows` | `TypeOK`, `SomethingToSee`, `ViewsMatchSessions`, `StopsOnlyWhenEmpty` | list and views agree whenever the user sees them, unless one of the orders named in `odd` happened, each of which can occur; stopping the service ends only sessions opened after that was decided, unless `asked` for or `early` |
| `install` | `TypeOK`, `ExecutableIsWhole`, `MarkersTellTheTruth`, `SomeWindowOpens` | a file that marks a step as done tells the truth with shells overlapping in any way; a kill too late for the next shell to notice, or a full disk, is what breaks it |

The four violations are disagreements between the code and its comments; they
are quoted under `findings`. Each property of a passing run has a mutant, a
plausible slip in one definition, under which TLC finds it violated.

**Bounds.** `bytequeue`: three slots, calls of up to four bytes, seven bytes in
all: runs are split at the end of the array, a call is longer than the queue, and
head and tail each go round more than twice. `termsession`: queues of two bytes, writes of up
to two, three bytes in each direction: the queues fill, are drained in several
turns, and every thread blocks. The violating runs change only the bound they are
about (`MaxWrite = 3 > Capacity`, `MaxIn = 4` so that the reader's queue fills).
`transcript`: five rows, screens of one to three rows: the transcript is empty,
full, or too short for a growing screen; screen, transcript and moved block wrap
around the array in every position. `TotalRows >= 3 * MaxScreenRows - 4` is exactly
what `resize()` needs: its blanking loop clears more rows than it adds and would
otherwise reach live rows (the code has 10000 rows, so this is no restriction).
`emulator`: one to three rows, one or two columns, arguments and ints up to
four: regions of every height, wraps in both directions, arguments beyond every
edge, sums that overflow in `CSI B` and `CSI C` (lines 1069, 1073) and the bottom
margin below a screen of one row (line 1241). The constraint `OneAtMost` has TLC go on
only from states in which at most one of insert mode, the DEC modes, the saved modes
and the saved cursor is unusual, and none once the cursor is off the screen; the
theorems below have no such limit. The view leaves out `outside`, which no guard reads and which is
judged step by step. `parser`: two arguments, strings of two bytes, five bytes of arguments and 8-bit
ints: arguments overflow, are too many, strings are too long; two lost characters
instead of three are not enough for `DamageIsBounded`. `sessions`: three sessions,
two descriptors, two ids: each number is reused while its first owner still has it,
and a session without a process can take the exit of one whose id goes to a third (without
`Claimed` the run fails). The action constraint `Bounded` has the first session's reader use its stream,
the creation of the second fail and the third's succeed later than the first's; none
of these steps is subject to fairness. `windows`: four
sessions and one pending intent: with three
sessions the lists cannot drift so far apart that a posted close meets another
session. `install`: two
shells, two chunks, three applets and entries, two
kills, `etc/profile` second and `shell_wrapper.sh` last (the five other orders
and, with this one, three shells were checked, too).
`CHECK_DEADLOCK FALSE` appears where the system may stop: everything written and
read, the session finished, every session used up, or the program crashed.

**Fairness.** `ByteQueue`: a thread inside the monitor keeps running (weak), a
thread that asks for the monitor gets it if it becomes free again and again
(strong), the consumer keeps polling (strong; it is woken by a message for every
chunk). `TermSession`: running threads keep running (weak); the main looper is a
FIFO, so `NEW_INPUT` is handled in spite of other work (strong); the pty accepts
the writer's bytes and a read of a closed or hung-up pty returns (assumptions on
the kernel and the shell). Nothing forces the user, the process or spurious wakeups. `ShellTermSession`: the
watcher threads run and the main looper delivers its messages (weak).
`KboxInstall`: shells are scheduled and the user opens windows (weak); the premise
`Patient` says that eventually windows are opened one at a time. Without it two
windows can be reopened for ever, each while the other's `tar` has just removed
`etc/profile`.

## Proofs

For every value of the constants, from the named assumptions (`Capacity` positive
and so on) alone:

- `ByteQueueProofs`: `TypeCorrect`, `FirstInFirstOut`, `PollingNeverBlocks` and
  `Refinement`. The inductive invariant `IInv` adds to the properties that the
  monitor is held exactly by the thread whose step is inside it (`MonitorHeld`), and
  that the bytes a polling consumer counted are still there when it reads
  (`PolledBytesStay`): without the first two threads could interleave in the middle
  of a run, without the second a polled read could find the queue empty. The
  refinement maps each run of `write()` to `Put` and each run of `read()` to `Take`.
- `TermSessionProofs`: `TypeCorrect`, `NoInputForgotten`, `NoOutputForgotten`,
  `BlockedServed`. The inductive invariant adds what each thread's local counters
  mean at each of its steps (`ThreadsOK`), that nothing of a thread exists before
  `initializeEmulator()` (`NotStarted`), and which values of `mWriterHandler` go with
  which phase of the writer (`HandlerOK`); the last is why a `write()` that sees
  `null` is still covered by the drain the writer performs when it starts. That a
  writer thread is about when the main thread blocks takes two more: until it starts
  nothing is taken out, so a full queue without it holds all that was ever written
  (`NothingTaken`), and a `finish()` leaves no write behind it (`FinishOK`).
- `UnicodeTranscriptProofs`, for every size of array and screen: `TypeCorrect` (the
  window is inductive by itself; the one difficulty is that the search for blank
  rows in `resize()` always has a result, by a least-element argument),
  `RowsInArray` (no two live rows share a slot), `FullScrollKeepsLines`,
  `ResizeKeepsLines`, and `Refinement` and `RowsMoveAsTheyShould`: the array
  implements `Scrollback`. The argument: the loops of `blockCopyLines()` and
  `blockCopy()` are recursive functions of the number of turns; `Turned` and
  `RowsTurned` say what an array looks like after n turns, satisfy the same
  equation (no turn reads a row that an earlier one has overwritten, which is what
  the order of the loops is for) and hence agree with them (`SameLoop`, by induction
  over the turns). `ScrolledLine`, `CopiedLine`, `EditedLine` and `ResizedLine` then
  give each row of transcript and screen after a step, by the distance of its slot
  from the first row of the screen, and the `...IsPromised` lemmas put the rows
  together as the sequences of `Scrollback`. For a lower window, `SameRowsHidden`
  shows that the rows `resize()` hides are the spare lines of `Scrollback`, up to the
  number that has to go. The invariant `IInv` is `TypeOK` with the types of the arrays.
- `TerminalEmulatorProofs`: `TypeCorrect`, `CursorStaysOnScreen`,
  `MarginsStayOnScreen`, `AllDrawOnScreen`, `CursorStaysInRegion`, for every size of
  screen from one row, every argument and every width of ints. The types and the
  margins are inductive; the others are action properties, which say what one step
  does from a state with cursor and margins where they belong, since an overflow can
  end that. A line feed needs the margins, a margin the height that goes with it.
- `TerminalParserProofs`, for every number of arguments and width of ints:
  `TypeCorrect`, `ArgumentsAreTheFields`, `StringsAreKept`, `DamageStaysBounded`. The
  inductive invariant adds which positions of the decoder's buffers go with how much
  `credit` (`DecoderOK`): it is enough for the characters that the state of the
  decoder can still cost (`ToLose`), given how far the process is with the one it
  is sending (`InStep`, `Fits`).
  The arguments are compared with the sum of digits times powers of ten over the
  places of a field (`FieldValue`), where the code multiplies by ten and adds: a new
  digit moves every place of its own field up by one (`FieldAfterDigit`) and leaves
  the other fields alone (`OtherField`).
- `ShellTermSessionProofs`, for any number of sessions, descriptors and ids:
  `TypeCorrect`, `SessionsOwnTheirDescriptors`, `StrayCallsAreBounded`,
  `OthersAreNotHungUp`. Added are what a thread's step says about its session
  (`ThreadsOK`), that a created process and its session agree on the
  id and no two children share one (`IdsOK`), and that only finished sessions have
  hung up others (`HitsOK`). An uninitialised id may be 0, too.
- `TermWindowsProofs`, for any number of sessions and intents: `TypeCorrect`,
  `SomethingIsSeen`, `NoSessionIsStopped`, `IndexesAgree`. Views and sessions are equal
  only when the user sees them; what holds at any time is `Matching`: no session has
  two views, the views of sessions that still exist are in the order of the list,
  every session has a view or an intent on its way that will add one (`Covered`), and
  a resumed activity has no more views than there are sessions. Purging the views of
  ended sessions, and equal lengths, then make the lists equal. For
  `NoSessionIsStopped` sessions are numbered as they are created, so that those of a
  list that was empty all come later (`stoppedAt`). `Matching` holds as long as
  no intent was overtaken and no close went astray (`Clean`). Sessions are numbered
  in the order of their creation and the list is in that order (`SessionsOK`), which
  is why an intent that takes the last session takes the right one.
- `KboxInstallProofs`, for any number of shells, chunks, applets and entries:
  `TypeCorrect`, `IncompleteIsNotRun`, `MarkersAreTrue`. The invariant says of each step
  that whatever is still missing after its marker exists will be done by some shell
  that is at work and not past it (`CopyGoesOn`, `LinksGoOn`, `BaseGoesOn`), who writes
  which file (`OneCopy`, `EntriesOwned`), and that nobody runs or expects a busybox that
  does not exist (`BusyboxThere`).

Induction: the provers cannot use an induction theorem with an operator as its
parameter, but they can use the least element of a nonempty set of numbers
(`WFMin`). `NatSetInduction` turns that into induction for a set, and what is to be
shown of every n is stated as such a set. A recursive function is first shown to
exist, by an explicit solution of its equation.

What the properties except: several name a case that goes wrong in the code and say
that nothing else does: the overflow of `CSI B` and `C`, an uninitialised id, a
process id kept after `waitpid()`, the orders in `odd`, the `early` result, the
kills and the full disk of `KboxInstall`. For those cases the repository promises
nothing and nothing is proved here; `hazards` lists each with a note instead of a
property.

Only model-checked: liveness (`WriteReturns`, `BytesDelivered`, `InputProcessed`,
`OutputDelivered`, `ExitIsNoticed`, `SomeWindowOpens`), since the prover has neither
fairness nor `ENABLED`. Every invariant, action property and refinement that a passing
run checks is also a theorem. No module with proofs uses a `RECURSIVE` operator.

## Plan

1. `FullUnicodeLine`: text and column offsets against a sequence of columns.
2. `TermKeyListener`'s modifier machine and `write(int)`'s encoding.
3. The safety half of the liveness properties, as theorems: which thread can take a
   step in every state in which a byte is still to be moved.

## Not modelled

- `FullUnicodeLine`, `StyleRow` and the re-emitting of the transcript for a new width:
  what is inside a row. `TermKeyListener` and `write(int)`: see the plan.
- Colours, character sets, titles and answers to queries of the emulator; building
  of `PATH` and of the argument list; preferences; wake locks, `restart()` and menus
  without effect on windows: setters and strings without a protocol.
- The order of the last output and `PROCESS_EXITED`: `TermSession` has the bytes and
  `ShellTermSession` the exit, and nothing in the repository promises an order.
- `EmulatorView` and the renderers (pixels), the Telnet example, the superseded copy
  in `src/app`.
- The vendored programs (busybox, gawk, ncurses, vim and others), nearly all of the
  repository's half a million lines of C. They are third-party code with their own
  projects; only the two functions of busybox that the installation depends on are
  modelled. The program's own logic is mostly Java, so a count of C lines says
  little about what is covered: of the repository's own C, `kbox_shell.c` and the
  process half of `termExec.cpp` are mapped; `andplay` and `solunar` are single-shot.
