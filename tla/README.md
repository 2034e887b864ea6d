# HtcLeoPkg4 in TLA+

HtcLeoPkg is the UEFI firmware (EDK II) of the HTC HD2, a Qualcomm QSD8250
phone.  It runs on one core, with interrupts, and its concurrency is UEFI's:
event notifications that preempt whatever runs at a lower task priority level
(TPL), interrupt handlers that preempt all of it, and devices that answer in
their own time.  There are no tests in the repository.  This directory holds
TLA+ models of the firmware's components, the TLC configurations that check
them, and theorems about them that TLAPS checks.

Paths below are relative to `src/HtcLeoPkg/`.

## 1. The system

### Scheduling, which everything shares

| level | runs | preempted by |
|---|---|---|
| TPL_APPLICATION | applications, console clients, driver Start/Stop | everything below |
| TPL_CALLBACK | the keypad's poll timer, `KeyNotifyProcessHandler`, `DisableKeyPadLed`, Tetris' timer | TPL_NOTIFY, interrupts |
| TPL_NOTIFY | critical sections of KeypadDxe, `WaitForKey`, the text console's calls, the charging timer, ExitBootServices | interrupts |
| interrupt | VIC dispatch: timer tick (at TPL_HIGH), I2C | (nesting only through RestoreTPL in the timer tick) |

A notification runs to its end before its level's next one starts.  An armed
timer is only looked at by the tick; when it expires its notification is
*queued*, and cancelling the timer then no longer takes it back (closing the
event does).  These two facts, with "code at a level is atomic for all levels
up to it", are what the models use of the DXE core, which is not in the
repository.

### Components

| component | state | operations | interacts with | hard | correct when |
|---|---|---|---|---|---|
| Key queues (`Drivers/KeypadDxe`) | ring of 256 slots, Head, Tail | push, pop, clear | poll, readers, handler | full and wrapped ring | it is a FIFO that drops its oldest keystroke |
| Key state machine (`KeypadDeviceHelperLib.h`) | context per key, two bitmaps | one update per key and poll | GPIO levels, the queues | presses are sequences of polls; combinations look across keys | one report per press, combinations tell the levels, held keys repeat |
| Keypad light (`KeypadDeviceImplLib.c`) | LED pin, `timerRunning`, the event | switch on for 5 s, switch off | polls, the DXE timer | an expired timer cannot be cancelled; every press creates an event | lit for 5 s after the last press, and never for ever |
| KeypadDxe | both queues, notify list, timer, handler | Start/Stop, poll, ReadKeyStroke(Ex), WaitForKey, (Un)Register, SetState, Reset, handler | ConSplitter, applications | handler preempted between pop and return | no keystroke lost, reordered, or left unnotified |
| I2CDxe | transfer in progress (`dev`), sticky `timeout` | xfer, read, write, ISR, recover, probe | VIC, MicroP, gauge | ISR against foreground; late stop requests | success means the bytes were moved |
| InterruptDxe, TimerDxe | handler table, VIC, period, counter | register, enable, tick, ExitBootServices | all drivers | an interrupt between two writes of a set-up; ticks inside ticks | every enabled source has a handler, no tick is lost |
| GpioDxe | the banks' registers | config, set, get | keypad, charger, I2C recovery | read-modify-write at several TPLs | a call changes its own pin |
| GPTTimerLib | the 32-bit counter | delays, time | all drivers | the counter wraps | a delay takes its time |
| MsmPcomLib, MsmPcomClientLib, HtcLeoPlatformResetLib | the mailbox in shared memory | proc_comm, reset | the modem | no lock, callers at two TPLs | each call gets its own answer |
| ClockDxe | clock table, the processor's clock source and PLL | rates, speed of the processor | mailbox, PLL | replies written over the table; switching under the running processor | the processor has a clock at every moment |
| ChargingApp, MicroPDxe, DS2746Lib | charger state, pins, LED | 100 ms notification | I2C, GPIO, USB | failed transfers, readings of junk | charger and light follow cable and battery |
| SdCardDxe (`SdCardDxe.c`, `mmc.c`, `adm.c`) | card, controller flags, `mmc_dev` | init, search of a boot record, read and write blocks | card, data mover, Block I/O clients | sticky flags, errors half way | blocks move whole and from their places |
| SmemDxe, SmemPtableDxe, PTableLib, StrLib | flash table, RAM table, strtok's place | lookup, filling | modem's shared memory | strtok writes into the table | entries found are those stored |
| ConSplitterDxe | lists of consoles, text and graphics modes, key queue | add, remove, input, output, mode switching | KeypadDxe, GraphicsConsole, clients | consoles come and go, calls fail on some | every console shows every output; input from any |
| GraphicsConsoleDxe, SimpleFbDxe | text modes, cursor, line buffer | Start/Stop, OutputString, SetMode, ClearScreen, ... | ConSplitter, graphics output | a cursor that is drawn by XOR; calls in calls | text and cursor are shown where the mode says |
| Serial logs, VirtualRealTimeClockLib | position, colour, ring; none | write; GetTime | frame buffer, counter | interrupts that log within a log | a message is painted whole |
| TetrisApp | board, piece, tick counter | move, rotate, drop, lines | keypad, timer | timer callback against input loop | no block appears or disappears |
| Vibration, boot manager, boot-time code, constant tables | little or none | | | | |

### Hazards

`hazards` in `PROJECT.json` lists what is hard to test here, each at its line
with the properties that would catch it.  Twelve name no property but a note:
the code is exposed to them, the models have them, and the properties near by are
stated apart from them (a call that was cut into, a clobbered pin, a screen that
was removed, ...).  Their notes say which property that is and what it leaves
out; the cases are described at the end of section 4.

## 2. Plan

The order was: what every user of the phone depends on and what is concurrent
first, sequential code last.

| step | modules | state |
|---|---|---|
| 1 | `KeyFifo` (abstract), `EfiKeyQueue` (detailed), proofs | done |
| 2 | `KeypadDevice`: presses, repeats, combinations | done |
| 3 | `KeypadDxe`: the driver over the FIFO of step 1, proofs | done |
| 4 | `KeypadLed`, proofs | done |
| 5 | `I2CDxe`: foreground, interrupt handler and controller | done |
| 6 | `ConSplitterTextIn`: one console over many | done, toggle states left |
| 7 | `ConSplitterTextOut`, `ConSplitterGraphics`, `ConSplitterPointers` | done |
| 8 | `GraphicsConsole`, `TetrisApp`, `SerialLogs`, `VirtualRealTimeClock` | done |
| 9 | `InterruptDxe`, `TimerDxe`, `GpioDxe`, `GPTTimerLib` | done |
| 10 | `MsmPcom`, `ClockDxe`, `AcpuClock` | done |
| 11 | `Charging` | done |
| 12 | `Mmc`, `SdCardDxe`, `StrLib`, `SmemTables` | done |
| 13 | proofs about the modules of steps 2, 3, 5, 9, 10 and 11 and `ConSplitterTextIn` | done |
| 14 | proofs about `Mmc` and `SdCardDxe` | done |
| 15 | proofs about `TetrisApp` | done |
| 16 | proofs about `ConSplitterTextOut` | done |
| 17 | proofs about `GraphicsConsole` | done |
| 18 | proofs about `SmemTables`, `StrLib`, `SerialLogs`, `VirtualRealTimeClock` | open |

No module with a theorem declares or reaches a RECURSIVE operator.

## 3. Modules

Names in the models are the code's names wherever a definition stands for one
function; `PROJECT.json` gives the lines of each definition under `map`.
Definitions whose comment starts with "Mutant:" are wrong variants of the one
that follows; no specification uses them.  They are there to show that the
properties notice such a mistake.

The parts of a large property are definitions of their own, each with the
sentence it states; a run checks their conjunction (`TicksRight`,
`ConsoleShown`, ...), one per question.

### Keypad

**`KeyFifo`** is what the driver expects of a key queue: a bounded sequence that
drops its oldest entry.  **`EfiKeyQueue`** is the ring buffer of
`KeypadTextIn.c` with `Head` and `Tail`; one action per function.  It carries
the refinement mapping: the contents are the slots from Head to Tail.

**`KeypadDevice`** is `LibKeyUpdateKeyStatus` with the two bitmaps and the
polling loop of `KeypadDeviceImplLib`.  One step is one key of one poll, so a
level may change between the keys of a poll.  A behaviour starts by choosing a
user: which keys are pressed and which distances between polls occur.

**`KeypadDxe`** is the driver.  Poll timer, reads, resets and (un)registering
are one step each because they hold TPL_NOTIFY.  `KeyNotifyProcessHandler` has a
program counter (dispatched, pops, walks, calls) because it gives the lock up
between them.  The queues are the FIFO of step 1, not the ring.  `NotifyList`
holds addresses, and the nodes are in `node`, as the handler keeps an address
while it is preempted.

**`KeypadLed`** has DXE timers as a count of armed timers per remaining tick, a
count of queued notifications, and the one timer the driver remembers.

### Buses, interrupts, clocks and charging (`MCPlatform`)

**`I2CDxe`** has three processes: `msm_i2c_xfer` with its callers' retry loops,
the interrupt handler, and the controller.  The controller is external: the
model gives it the freedom the driver's comments speak of (stop requests seen a
byte late or ignored, refused bytes, a bus that hangs).

**`InterruptDxe`** and **`TimerDxe`** have the table of handlers, the vectored
interrupt controller and the debug timer as registers, and take the drivers'
start and both ExitBootServices events (in either order) one register write at a
time, so that a device may interrupt between any two.  The tick's handler ends
its interrupt before it lowers the TPL: ticks run inside one another, up to
`MaxFrames`.  **`GpioDxe`** reads and writes a bank in two steps, at several
levels.  **`GPTTimerLib`** is the delay's two loops over a counter that wraps,
where a read may skip up to `MaxGap` counts.

**`MsmPcom`** is the mailbox: a call is eight steps, a caller at a higher level
runs to its end between any two of them, the modem (external) takes a command,
answers with success, with the one failure that the call knows or with another,
and writes a reply.  **`ClockDxe`** holds the
callers: the clocks with the table that replies are written over, the client
library's requests (the build calls none of them, USE_PROC_COMM being off), an
I2C recovery at TPL_NOTIFY, and reset and shutdown.  **`AcpuClock`** steps the
processor's clock through the table of speeds: which half of the selector, which
source, which state of the PLL.  `acpuclk_set_rate` has no caller in this build.

**`Charging`** is the notification of `charger.c` with its reads of cable,
voltage and charger kind at three moments, over I2C calls that fail, with the
microcontroller's retried writes and `ds2746_voltage`, which uses its buffer
whether the read succeeded or not (`JunkBytes`).

### Storage (`MCStorage`)

**`Mmc`** is `mmc.c` and `adm.c`: a function is the list of the steps it takes
(commands, data loops, checks, clears), each step an action, so that one can
fail.  The controller's static flags stay set until MCI_CLEAR, and the flags that
end a block come after its last word, when the driver may have looked already.
The card checks what it is asked for: a command its state does not allow is an
error of the host (`CommandsLegal`).  `Builds` has the options of `SdCardDxe.h`
(this build: one block at a time, no data mover, one data line), as all are in
the code.  **`SdCardDxe`** adds the entry point, the search for a boot record
and Block I/O; a null `block_read` is the state "fault".

**`StrLib`** has the string functions on cells of memory, **`SmemTables`** the
tables and `smem_add_modem_partitions`, token by token, with `strtok` cutting
names in the driver's copy of the table.

### Screen (`MCScreen`)

**`GraphicsConsole`** has the cursor as the cells that are inverted (`ink`): a
call of FlushCursor too many or too few leaves a ghost or no cursor.
OutputString is one turn of its loop per step, and calls itself for blanks and
line ends as the code does.  SimpleFbDxe is the graphics output with one mode;
others have several modes, some broken.

**`TetrisApp`** is the loop of `handleInput` and `drawWindow` with the timer
callback in between; the fields hold the piece and what lies as one set, as the
board does, so that a move erases, looks and marks again.

**`SerialLogs`** paints a message character by character, with interrupts that
log through the same library's variables.  The jump of a line end skips the
assignment of the local `intstate`, so what it then restores is any value.
`InMemorySerialPortLib` (no platform file selects it) is a ring of bytes.

**`VirtualRealTimeClock`** is `LibGetTime` over `GPTTimerLib`'s counter.  It has
both frequencies, the one `LibGetTime` divides by (PcdMsmDgtTimerFreq, 4.8 MHz)
and the one that the counter has by `GetPerformanceCounterProperties` (32765 Hz),
and counts what has really been counted apart from what the counter holds of it.
That times come in order holds with any frequency (`TimesInOrder`); that they are
the time since the start does not hold with the build's (`TimeIsElapsed`, section 4).

### Consoles

**`ConSplitterTextIn`** has the lists of consoles as sequences; their allocated
room (`inCount`, `exCount`) and each `NotifyHandleList` are kept because they
run parallel and are grown, filled and shifted by different functions.  Consoles
are external and behave as `KeypadDxe` does: a queue of keystrokes, WaitForKey
that drops partial keystrokes in front, and registrations that are found again
by key and function.  Start is one action when it succeeds and one action for
each way it fails, with what is left behind.

**`ConSplitterTextOut`** has mConOut and mStdErr as two records with the fields
of `TEXT_OUT_SPLITTER_PRIVATE_DATA` and, external, the mode each console is in.
The map is a function of row and column as in the code; list slots behind the
last console keep what they had, because
`ConSplitterGetIntersectionBetweenConOutAndStrErr` reads them: it does not set
the pointer into StdErr's list back between ConOut's consoles.  An operation is
composed of functions on the whole state (`World`), since it enters modes,
intersects and enters modes again before it returns.  `failing` says which
console refuses a call it should take.  A step on which the code's ASSERT that
mode 40x12 can be set would stop the build is not taken.

**`ConSplitterGraphics`** is the splitter's graphics output: the resolutions all
screens share, rebuilt when one is added and not when one is removed, the count
of screens that a failed add leaves behind its list, and the calls that go to
every screen by its own mode number.  A call may meet screens whose SetMode fails,
which it goes past, or whose QueryMode fails, which ends it.
**`ConSplitterPointers`** has the lists of
simple and absolute pointers with what their protocols hold open, the movements
that are added up in the splitter's resolution, and the cached events.

## 4. Runs

| run | question | bounds and why they suffice |
|---|---|---|
| `keypad` | does the ring implement the FIFO?  What does a press report, how often, and does a held key repeat?  Does the light always go out, and only when it should? | a behaviour is of one part.  Ring: 4 slots, which have every fill level, every position of Head and Tail, several wraps; proved for all sizes.  Keys: three users, each with the keys that interact (Dial with volume keys, soft keys with Dial, two soft keys); two or three distances that fall on each side of the 10, 500 and 100 ms thresholds; times stop growing at the largest threshold.  Light: 8 ticks, up to 3 timers or notifications at once; a press at every tick |
| `keypad_dxe` | are keystrokes read in order, notified in order, and never left behind? | queues of 2 that overflow, two list nodes, two functions, 3 keystrokes: one in the handler's hands, one queued, one arriving |
| `led_lit` | bug: a press just after the last timer expired is not lit for its time | those of `keypad`'s light |
| `i2c` | does success mean the bytes were moved, and does every call return? | message lists of every length at which the handler takes another path (reads of 1, 2 and 3 bytes, writes of 0, 1 and 3), 2 retries, a stop request seen one byte late or not at all up to twice, 11 bytes from the device, which is more than a read of 3 can draw before the missed requests are used up; proved for all lengths and bounds |
| `con_in` | are keys of several consoles neither lost nor reordered, are registrations the same everywhere, is the event signalled for a reason? | two Ex consoles and a plain one; lists that start with room for one and grow by one; 3 keys; the ConSplitter's own registration and two of clients; one failing call.  Keys and client registrations do not occur in the same behaviour (they share no state), and the plain console takes part without failures and with 2 keys.  The Ex consoles are symmetric |
| `con_out` | do mode numbers mean the same size on every console, whatever comes and goes and fails? | the two consoles of the platform: a screen without mode 1 and another with it, one size they share beyond the base size at different numbers, one size only the screen has; two removals or one and a failing call, enough for add, intersect, remove, rebuild and add again in either order |
| `platform` | are ticks, pins, delays, mailbox calls, the processor's clock and the charger right, alone and when they are cut into? | a behaviour is of one part, as the parts share no state.  Tick: the timer and another device, two ticks inside one another.  Pins: callers of bank 4 at three levels and of two other banks.  Delays: a counter of 16 values that starts anywhere and skips up to 3 counts, delays that take one count to seven.  Mailbox: two levels, two calls besides a reset, one failure.  Clock: three changes of speed, among no speed, the lowest, middle ones, the highest and one the table does not have.  Charging: two changes of the supply, two failed transfers, voltages at the threshold and around it |
| `storage` | do blocks move between their places, does the driver keep to the card's protocol, do the tables hold what shared memory says? | an old card, one with blocks of 1024 bytes, one of high capacity and one whose CSD is of a later version, with the boot record in the first block or the second; the options of this build and the others; buffers of none, half and two blocks; one failed command or block; tables of both versions and of none, some longer than the room for them, names with and without colons, partitions added twice |
| `sd_read` | bug: a read that does not move all its blocks returns EFI_SUCCESS: half of what was asked for comes from a card with blocks of 1024 bytes, without any fault (the trace TLC gives), and one of two blocks if the second fails | those of `storage` |
| `screen` | do mode, window, cursor and ink agree and is text shown as typed, does the game keep its blocks, are logs painted whole, does the clock go forward, do the screens and the pointers act as one? | a behaviour is of one part.  Console: a screen of 8x5 pixels with cells of 2x2, so that mode 0 is 3x2 and every string wraps and scrolls; wide characters at the line's end, backspace at its start; one failed allocation or call.  Game: a board of 4x5, two kinds of pieces, two removed lines.  Logs: 2 columns and 3 lines, 4 messages of either kind; a ring of 3 bytes.  Clock: a frequency of 2, a counter that wraps after two days of the clock, four readings on both sides of the ends of minutes, hours and days.  Screens: three with different resolutions and a terminal, one failure.  Pointers, one kind in a behaviour: two of different resolutions or ranges, room for one before the list grows, two movements, the second of which may overflow, one failure |
| `screen_set_mode` | bug: a SetMode that finds no memory for the new line buffer has given up the old one and the cursor | those of `screen` |
| `clock_slow` | bug: the clock of a phone that has run for 90 seconds tells 0 | the build's two frequencies; gaps of 90 seconds and 4 hours between readings, on a counter of 30 bits, as TLC's integers end at 2^31 |

Deadlock is not checked where the model really stops: a game that is left, a
reset, a CpuDeadLoop, a behaviour whose bounded inputs are used up.

### What is only reported here

`findings` in `PROJECT.json` has the four disagreements that a run shows.  Others
came up in the same way: the property that a comment states was written down,
and TLC refuted it.  The properties are still in the modules, in no run; a
configuration like the run's with the property in its place shows the trace.

| property | what happens |
|---|---|
| `ReportedAnotherKeyAlready` (`KeypadDevice`) | a long press of one soft key reports nothing, as if "we reported another key already" (`Include/Library/KeypadDeviceHelperLib.h:158`), which it did not: the soft keys share the bit that is looked at |
| `TransferredOrError` (`I2CDxe`) | a bus that hangs after some bytes ends the poll with no error recorded: the caller is told that its bytes were moved (`GPLDrivers/I2CDxe/I2CDxe.c:374`) |
| `WaitSeesSavedKeys` (`ConSplitterTextIn`) | ReadKeyStrokeEx keeps all keys but the first of those typed on several consoles; WaitForKey asks the consoles only and is silent about them (`Drivers/ConSplitterDxe/ConSplitter.c:3668`, against 3523) |
| `UnregisteredEverywhere` (`ConSplitterTextIn`) | a removed console's place is closed in the list of consoles and not in the lists of handles: UnregisterKeyNotify succeeds, and a console keeps the function (`ConSplitter.c:2073`, against 4087) |

Behaviour that nothing in the repository calls wrong, so that no run checks it:

- Two registrations for one key make the handler call each function twice per
  keystroke (one queue entry per match, and the handler walks the whole list for
  each).  Home may start repeating while Dial is held.
- A console whose Start fails in `ConSplitterTextInExAddDevice` stays in
  `TextInList`, can be read through the plain protocol only, and can never be
  stopped, as Stop returns EFI_NOT_FOUND for it.
- With three text consoles, removing the first one can leave a splitter whose
  current mode is -1, as `ConSplitterTextOutDeleteDevice` rebuilds the map and
  sets no mode; with two (this platform) `OutputsAgree` shows that it cannot.
  With two it can leave a number that now names another size than the consoles
  show, and so can the other splitter by switching a console they share; SetMode
  of that number then clears the screen and returns success.  `ModeEntered` is
  therefore about entering a mode that is not the current one.
- Once a screen is removed the splitter's QueryMode may answer with another
  resolution than SetMode sets, and screens without a common resolution leave it
  a mode whose description was never written.
- An error of one simple pointer loses the movement of the others, as they were
  asked in the same call; an absolute pointer whose axis starts above 0 is
  scaled past the end of the splitter's axis, as its minimum is not taken away.
- A Stop of KeypadDxe that fails has closed the poll timer: keys are polled by
  readers only from then on.
- A level that a pin is set to is lost if a call at a higher level comes between
  the read and the write of its bank (`PinsKept` says of which pins, and that banks
  written at one level only are safe).
- The controller's flags of the block before are taken for those of this one when
  the driver looks too early, so that a checksum error is seen one block late
  (`FreshBlockChecked` is about the other blocks).
- A screen whose add fails half way stays in the list uncounted, and the count of
  screens is off by one for each from then on (`CountOffByFailures`).
- A mailbox call that is cut into takes the other call's reply, and the clock
  table may take it too.  `CallsUndisturbed` and `RequestsHappen` are about calls
  that are not cut into; a reset that is may never reach the modem.
- `pcom_clock_is_enabled` returns the call's status and not the clock's, and the
  comment on the lowest speeds says 768 MHz where the table has 998.4.
- A delay is up to 1 us short (33 counts per millisecond, rounded), and one that
  ends within a read of the wrap may wait for another round of the counter.
- The virtual clock's counter has 32 bits and starts again after 36 hours, of
  which the clock shows less than 15 minutes; `Day` starts at 0.
- A log's caller that had interrupts off may have them on afterwards, as a line
  end skips what records them.
- A voltage that could not be read is what was on the stack: until the next
  reading works the charger may be set for a battery it does not have.
- `LastBlock` of the card is its number of blocks.  The search for a boot record
  goes through a null pointer when initialisation failed, and spins when there
  is no record.
- A piece that falls out of time while the game is paused still moves once.
- Adding the modem's partitions twice adds other names, as `strtok` cut the first
  ones in place.

## 5. Fairness

Liveness is checked under weak fairness of what the hardware and the DXE core
keep doing: polls (the timer is periodic), timer ticks, notifications that are
queued (dispatched as soon as the level drops), interrupts that are pending and
enabled, drivers that have started their set-up, the I2C foreground, its
interrupt, and the controller as long as the bus does not hang; the steps of a
mailbox call and the modem's answers; the 100 ms notification of the charger; the
steps of a function of the card's driver and the card's answers; the game's loop
and its timer.  Nothing is assumed of keys, clients,
callers, cables or faults, nor of other interrupts.  Bounds on missed stop
requests are what makes a read end; the driver's comment ("sometimes ignored") is
read as "not for ever".  That the modem never fails a reset is assumed of it.

## 6. Theorems

All proofs are in `*Proofs.tla` and hold for every value of the constants that
satisfies the named assumptions of the module.  The argument is the same
everywhere: an inductive invariant that implies the property, one lemma per
action that the action keeps it, and a theorem that puts them together.  An
action property follows from the invariant in the state before the step.  What
follows says what each invariant adds to the properties, and why it has to.

### Keypad

- `EfiKeyQueueProofs`: `TypeCorrect` (the indices stay in the array; inductive
  as it is) and `RingImplementsFifo`.  The refinement rests on lemmas about the
  contents as a function of Head and Tail: it is a sequence, a push appends to
  it (or drops the first entry when the ring is full), a pop takes its head.
- `KeypadDxeProofs`: `TypeCorrect` and `NoWakeupLost`.  Neither is inductive
  alone.  `IInv` adds that the handler has a keystroke in its hands whenever it
  walks or calls, and that two list positions hold different nodes (removing one
  node must not free another that is still listed).
- The same module: `KeysReachAll` (`KeysReachClients`: read in order, promises of
  WaitForKey, owed calls are pending) and `CallsComeInOrder` (`NotifiedInOrder`).
  `OrderInv` strings the numbers of the keystrokes together: what a function has
  heard of, the keystroke of the running walk, the notify queue, the last one
  typed, each no younger than the next (`CallsInOrder`, `WalkInOrder`,
  `NotesInOrder`).  That an owed call is pending needs two more facts: the node it
  is owed through is still in the list (`OwedNodesListed`), and the call that is
  being made is paid (`CallIsPaid`), so that the walk may leave its node.
- `KeypadDeviceProofs`: `KeysAreConsistent` (`KeysConsistent`) and
  `ReportsArePresses` (`ReportsMeanPresses`).  `DeviceInv` adds that the bitmaps
  are the levels (`BitsMatchLevels`: the volume keys have a bit each, the soft
  keys share one, which is down only if one of them is), that Dial has been
  reported exactly if its state or its Longpress flag says so, and that a key
  that repeats counts from its last report.
- The same module, of `KeypadLed`: `LastTimerIsArmed`, `LightIsTimed`,
  `DarkAfterHold`.  `LightInv` adds to the last two what the first states: the
  timer the driver remembers is among the armed ones, and its time left and the
  time since the last press add up to the hold time.  Without it a late
  notification, which clears `timerRunning`, could leave a lit light whose timer
  the driver has lost.

### The board (`PlatformProofs`)

- `TicksAreRight` (`TicksRight`).  `TickInv` says which call is running and how far
  it is (`InitRuns`, `TimerRuns(k)` for the ten writes of TimerInitialize,
  `RegisterRuns`, `DisableRuns`, the exits), with what its writes so far have
  done, and what holds of a driver whose start is over.  Interrupts come between
  any two of the writes, so that a property that speaks of finished calls says
  nothing about the states in between.
- `PinsAreKept` (`PinsKept`).  `GpioInv` adds that what a call has read of its bank
  still stands there, except for the pins that calls above it have written since
  (`SeenStillStands`), and that two levels use a bank whose pin was clobbered.
- `DelaysAreRight` (`DelaysRight`).  `GptInv` ties the count that was read last to
  the time that has passed, less the wraps (`CountsOn`): after the first loop the
  counter has wrapped if the end lies behind the wrap.
- `ChargerIsRight` (`ChargerRight`).  `ChargeInv` adds what the notification knows
  at each of its steps while nothing has changed and no transfer has failed
  (`SteadyKnows`), and uses that a voltage of 12 bits survives the two registers.
- `SpeedIsSafe` (`SpeedSwitchedSafely`).  A change of speed is a list of register
  writes that was computed when the change began, and what the list leaves to do
  is the only trace of how far it is.  `AcpuInv` reads it from its first write on
  (`AtFirstL`, `AtLastWait`, ...) and says for each such place what the processor
  runs from and what state the PLL is in: going up on the modem's PLL, going down,
  stepping aside, or settled.
- `CallsAreUndisturbed` (`CallsUndisturbed`) and `SupplyIsOn` (the half of
  `RequestsHappen` that speaks of steps).  `PcomInv` says that while no call was
  cut into at most one stands, and that its place tells what the mailbox holds and
  what the modem is doing (`Right`); the requests a call still has to make are
  such that the replies put over the table are the ids that stand there.

### I2C (`I2CDxeProofs`)

`TransfersAreReported` (`TransfersReported`) and `ControllerIsKept`
(`ControllerKept`) come from one invariant, `I2CInv`, which follows a transfer
through its phases: `Addressing`, `Writing`, `AddressingRead`, `ReadingBytes`,
`AllWritten`, `Refused`.  Each phase ties three things together: what the handler
thinks it did (`dev`), the word and the byte in the controller's buffers, and
what has really moved (`sent`, `got`).  A bus that hangs stays in its phase, and
only a transfer that ends has its phase turned into what the caller is told
(`TransferTold`).  Two of the facts are needed for reasons that are not obvious:

- A stop request that waits was made for the last byte or a later one, and as long
  as it waits the handler makes no other (`StopRequested`).  For a byte it flushes
  it requests a stop every second time, and so relies on a request not being left
  in the write buffer for two bytes.  That is what the driver assumes of the
  controller and says nowhere; a controller that let a request wait for longer
  would have the handler write to a full buffer.  In the model a request
  is therefore seen one byte late at most (`late`), or is taken out and ignored
  (`missed`), any number of times as far as the proof goes.
- Once the device has stopped, the handler is still to be called or has cleared
  `timeout` (`ReadStopped`, `AllWritten`): the last interrupt clears what an
  earlier transfer's error has left.

### The SD card (`StorageProofs`)

`CardIsHandled` (`CardHandled`) and `BlocksStayInPlace` (`BlocksInPlace`) come
from one invariant, `SdInv`.  A function of `mmc.c` is modelled as the list of
the steps it still has to take, so the invariant has to say of a list, and of
whatever the card is doing meanwhile, that the two go together.

- A *view* is what the driver may count on before the steps that are left: the
  card's state, whether an application command is due, whether the block length
  is set, whether PROG_DONE is awaited, whether the SCR was read, and how far the
  round's block is (`set`, `moved`, `checked`; `written`, `kept`).
- `LeadsTo(list, v, goal, b, fall)` says that from view `v` every step of the list
  is one the card allows in the view it is taken in, and that the last one ends in
  `goal`.  Each function of `mmc.c` has its lemma (`ReadLeads`, `WriteLeads`,
  `ReadByMoverLeads`, one for each stage of the initialisation), and `Joined` puts
  two lists together; these lemmas speak of lists alone, not of states.
- `DriverStands`: whenever the driver is at work there is a view that the state
  shows and from which the steps left lead to the goal of the running function.
  `Shows` has two halves: what holds whatever goes wrong (a fresh block that was
  checked is good, a block written is on the card if it is good), and what holds
  as long as nothing does (card and view are in the same state).
- The rest are facts about the calls: where a call runs, what its counters are
  (`CallFacts`: `Base`, the block it began with, is the one the request asked for),
  which capacity the card was found to have, and which clocks run.

The invariant was checked by TLC over 504,956 states before it was proved.

### Consoles (`ConSplitterProofs`)

Of the keyboards: one invariant, `SplitterInv`, in two parts that meet in the
lists of consoles.

- `KeysAreKept` (`KeysKept`).  `KeyInv` strings the numbers of a console's
  keystrokes together: the last one read, those in KeyQueue, those that wait in
  the console, the last one typed.  All that reads, skips or drops leaves a rest
  of each queue (`Shorter`), and what goes is partial or no longer owed.  The
  exception is ReadKeyStrokeEx, whose loop fills KeyQueue: by induction over its
  turns it collects at most one keystroke of each console, each the first that
  waited there, and every one that is not partial (`LoopIsRight`); therefore the
  queue fits in fewer entries than the Ex list has, and what is saved is older
  than all that stays in its console.  That a console is in a list once
  (`Distinct`) is part of the invariant: twice, it would be asked twice.
- `RegistrationsAgree` (`RegistrationsMatch`).  It needs that no two entries of
  NotifyList are alike (`NotifiesDiffer`; otherwise a console answers a second
  registration with the handle of the first) and, for UnregisterKeyNotify, that
  the handle stored j-th is the j-th console's (`HandlesMatch`).  That a new
  console gets the registrations of the list, one per turn, is an induction over
  the turns (`FreshConsole`), as is that what it is given are registrations.

Of the text outputs: `OutputsAlwaysAgree` (`OutputsAgree`) and
`ModesAlwaysEntered` (`ModesEntered`), for any two consoles with any modes
(`TwoConsoles`; with three the current mode can be -1, see "What is only
reported here").  The invariant `OutInv` says of the splitters and consoles
together (`SoundWorld`) what every function of the file must leave behind:

- The consoles of a splitter are different ones, and its map is right for them
  (`Good`, `Mapped`): in each row every console's entry is a mode of that console
  of the row's size, rows 0 and 1 begin with modes 0 and 1, a later row with a
  mode of the first console, each another one, and the columns behind the last
  console are -1.  With the rows' sizes alone the invariant is not inductive: a
  new console's column keeps what it had in the rows whose size the console
  lacks, and -1 there is what takes these rows out (`ConSplitterSyncOutputMode`).
- Intersecting two maps takes out rows and moves the others up (`ModesKept`); that
  the moved rows are the old ones, in order and without a gap, comes from counting
  them through a bijection (`Enumerated`).  Intersecting ConOut with StdErr
  and StdErr with ConOut leaves both the same sizes beyond mode 1 (`SharedMatch`).
- While a console is added the current mode is 0xFF.  The intersections may move
  it down with the rows, by `Rows` at most each, so it stays above every mode
  number and the mode that is set at the end is entered on every console.  What
  the consoles show is then the splitter's size, and no call was refused.
- After a console is removed, the map is rebuilt from the one that is left
  (`RebuiltOfOne`), which has no fewer rows than before (`ModesBounded`): the
  current mode, which is not set again, is still the number of a mode.  This is
  the only step that needs that there are two consoles.

Induction over a number takes a set in place of the library's operator
parameter: `NumbersBelong` follows from the well-foundedness of `<`.  The
functions that a loop computes are defined by CHOOSE, so that a lemma proves
first that there is one (`LoopCollects`, `LoopRegisters`).

### The game (`ScreenProofs`)

`PiecesAreKept` (`PiecesKept`) and `BlocksAreConserved` (the half of `GamePlayed`
that speaks of steps) come from `TetrisInv`, whose part about the board,
`BoardIs`, holds of a blocked game, too.  It adds that no row is full between two
pieces and that what is placed shows: then erasing the piece leaves exactly what
is placed (`Erased`), and a move, which erases first and looks afterwards, is
possible just when the piece meets none of it.  That a pause lets one descent
through needs that a pause which still owes one has had none (`PauseOK`).

The rest is `checkAndRemoveLines`, which is shown to do what `Settled` says in
one step: whole lines vanish, and everything falls by the number of full rows
below it.  Removing the lowest full line leaves a board with one full line less
(`LeftRowCount`), BOARD_WIDTH blocks less (`LeftCount`) and the same `Settled`
(`SettlesAlike`); the loop's result follows by induction over the number of full
lines (`AllRemoved`).  Bodies are four fields each (`BodiesAreFour`, all 28), so a
piece fills at most four lines (`FourLines`).

### The console (`ScreenProofs`)

`ConsoleIsShown` (`ConsoleShown`) comes from `GcInv`.  Between calls the mark on
the screen is exactly the cursor's (`On`: nothing if it is invisible or black);
within OutputString there is none (`Off`), so that what moves the cursor there
leaves no ghost.  One case is neither: a wide character that does not fit clears
the last column, and the blank it clears it with goes on to the next line and
draws the cursor there.  The character itself comes next and wipes that mark off,
which is `Moving`: the mark is the cursor's, at the start of a line, and a
character that is no control character follows.  Without it the invariant is not
inductive.  A run that takes no character at all starts there or in a window one
column wide (`RunIs`), and the first character of a run has a cell to wipe the
mark with unless the font lacks it (`FirstCell`), which `plain` excludes.

What is not said is that the cursor survives a SetMode that fails: its mark is
gone then and the next movement draws one too many (run `screen_set_mode`), so
`CursorDrawnOnce` speaks of consoles whose last SetMode did not fail (`plain`).

Each drawing routine has a lemma that says where it leaves the cursor and whether
it is drawn (`FlushIs`, `LineFeedIs`, `CrLfIs`, `WrapIs`, `SpaceIs`, `BackspaceIs`,
`PrintedIs`); that the cursor is in the window again after each turn is part of it.
The list of modes follows the loop that makes it (`ListedRight`): sizes are
different, fit, and the last entry, the full screen, is among them; a size that
fits leaves a margin of at least 0 on each side (`WindowInScreen`).  That the
output has the graphics mode that the text mode in use was made for follows
because all text modes are made for the one that Start chose (`ChosenIs`).

The proof corrected the property: with a black foreground, which SetAttribute
takes, the cursor leaves no mark, as it is drawn by inverting with the foreground
(`GraphicsConsole.c:1962` to 1971).

### Assumptions

Queue sizes and bounds are natural numbers or positive, special values are not
elements of the sets they are distinguished from.  Others are worth a word:

| assumption | why the code justifies it |
|---|---|
| `PinUsersAssumption`: pins are 0 to 164 | the banks of `GPIO_REGS`; `find_gpio` answers for these |
| `DelayAssumption`: no delay with a gap after it goes once round the counter | 2^32 counts of about 32 kHz are 36 hours.  Without it `DelayNotMuchLonger` is false: a counter of 16 that starts at 2, 15 ticks to go and a gap of 10 jumps over the wrap and over the end behind it |
| `ChargeAssumption`: voltages have 12 bits, unset bytes 8 | the gauge's registers, `UINT8` on the stack |
| `AcpuAssumption`: the first speed is 1 to 17 | `ClockDxe.c:304` asks for 17; entries 1 to 17 of the table run from the PLL |
| `ClockAssumption`: clocks are in the table, controllers are 1 to 4, the callers' levels exist | the table is indexed by the clock's name; the card's slots have pins for these controllers |
| `OpsAssumption`: a message list is one write, or a write of at least one byte and a read | the lists that `msm_i2c_write` and `msm_i2c_read` build (`I2CDxe.c:433`, 458); the register's address has one byte |
| `MmcAssumption`: a card has blocks, a block length, a version 0 to 2 and is of high capacity or not | the fields of CSD, SCR and OCR that `mmc.c` decodes |
| `TetrisAssumption`: two hidden rows or more, a row that shows, pieces start on the board | `Board.h:5`, 6 and 7 (10 columns, 22 rows, 2 of them hidden), `Board.c:298`; a body that has not been turned is two rows high, and would otherwise start on what lies |
| `ModesAssumption`: a console has modes 0 and 1 and at most 32, of different sizes, and none of the later ones is a console's mode 1; the slots read for two lists of consoles exist | `GraphicsConsole.c:290` to 331 makes the list so: 40x12, then 80x50 or none, then other sizes once each.  `QueryDataCount` is 32 and, like the lists, grows beyond it, which the model does not do |
| `GcAssumption`: the output's graphics modes have room for text mode 0, cells and fixed modes have positive sizes, modes 0 and 1 differ | the panel is 480x800 (`SimpleFbDxe`), 40x12 cells of 8x19 take 320x228.  Mode 0 is listed without a look at the screen (`GraphicsConsole.c:290`); "MaxColumns and MaxRows should not be zero" (258) |
| `TwoConsoles`: there are one or two text consoles | the platform has the screen and the serial terminal |
| `TimerAssumption`: the timer's source is one a driver registers, the period is positive | `PcdTimerPeriod`; a period of 0 turns the timer off |

### Only model-checked

All liveness (`HeldKeyRepeats`, `OwedCallsAreMade`, `InterruptsServed`,
`ChargerSettles`, the reset of `RequestsHappen`, ...) and everything that needs
ENABLED: the provers have neither.  `CallsReturn` of `I2CDxe` is one of them.
What a recursive definition yields for every input, such as the text that
`StringsTyped` compares `OutputString` with.  And the safety properties of
`ConSplitterGraphics`, of `SmemTables`, `StrLib` and of the serial logs, which no
proof has been written for.

## 7. What the models leave out

- Memory that runs out, except where a failure leaves state behind (both
  ConSplitter inputs and graphics, `GraphicsConsole`, Start of `KeypadDxe`).
  Every press of a key leaks a timer event (`KeypadDeviceImplLib.c:238`); how
  long the pool lasts is not in the code.
- Clients that unregister a notification from inside a notification function,
  or call a console above TPL_APPLICATION.
- In `I2CDxe` the bit-banging of a recovery, probe and the pin multiplexer.
  `msm_i2c_interrupt_locked` called by the foreground runs whole: the
  controller's next interrupt is 90 us away.
- In `InterruptDxe` and `TimerDxe` unregistering, and a second period: nothing in
  the build does either.  In `GpioDxe` the pins' interrupts, which no call
  enables.
- In `Charging` the gauge's current and temperature and the microcontroller's
  other registers, which nothing reads.
- In `Mmc` the card's name and the texts of its registers; `write_a_block_dm`
  past its refusal.  `SDCn_deinit` is modelled although nothing calls it.
- In `ConSplitterTextIn` the toggle states; in `ConSplitterPointers` buttons, more
  than one axis, and movements that are not whole in the splitter's resolution
  (the build has no driver of a pointer).
- In `ConSplitterTextOut` colours and cursor visibility (handed on as they are),
  the cursor while there are consoles (a copy of the first one's), lists that
  outgrow 32 entries.
- UGA, in the consoles: this build leaves it out.  Reading back from screens,
  and modes of a screen that are changed behind the splitter's back.
- Glyphs, colours and the score of the game; what `rand` draws is any choice.
- Components with status `not_modelled` in `PROJECT.json`, each with its reason.
