# A formal model of openphix

openphix is a set of tools for Autophix DM100/DM300 car scan tools: a command
line updater that talks to the scan tool over USB (`src/tools/openphix-tool`),
a reimplementation of the scan tool's own user interface and of the databases
behind it (`src/firmware`), and offline utilities (`src/tools/hixtool`,
`src/tools/keysearch`).  This directory holds TLA+ modules for the parts whose
behaviour depends on order, failure or history, the TLC configurations that
check them on small instances, and TLAPS proofs for all instances.

`PROJECT.json` is the index: every definition with the source lines it stands
for, every run, the mutant each property was seen to catch, the hazards of the
code and the theorems.

## 1. Inventory

Paths below are relative to `src/`; `T/` is `tools/openphix-tool/src/` and `F/`
is `firmware/core/`.

### The updater

| component | source | state | operations | talks to |
|---|---|---|---|---|
| update host | `T/device.c`, `cmd_update` in `T/main.c` | position in `obd_run_update`, in `obd_write_image` and in one exchange; the block counter; flags `strict`, `force`, `skip` | `obd_run_update`, `obd_write_image`, `obd_finish`, `obd_get_version`, `obd_exchange`, `obd_command` | the device, through four transport calls |
| flash readout | `T/device.c`, `cmd_info`, `cmd_feedback`, `cmd_dtc_review`, `cmd_read_flash` in `T/main.c` | size found, probe candidate, address and bytes read so far | `obd_get_flash_size` (with probing), `obd_read_flash`, `obd_read_flash_range`, `obd_read_feedback`, `obd_read_dtc_records` | the same |
| stored fault records | `T/device.c` 222-315 | none (pure) | `obd_parse_dtc_records`, `obd_free_dtc_records`, sorting | the readout |
| bootloader protocol | `T/protocol.c` | none (pure) | building and recognising packets, block counts, the erase rule | host and device |
| simulated device | `T/fake.c` | running upload, announced block, committed images, reply slot, pending read, error flag | one per command, bulk in and out | the host |
| USB transport | `T/usb_transport.c` | open handle, claimed interface, endpoints | open (search, claim, detach), four transfers with timeouts, close | host and real device |
| package lookup | `T/package.c` | none (file system) | finding the three images and reading them | `cmd_update` |
| data image cipher | `T/crypto.c`, also `F/res.c`, `tools/hixtool/hixtool/cipher.py` | none (pure) | encrypt, decrypt at an offset | readout, resources |
| command line | `T/main.c` | parsed options | one function per command | everything above |

Hard behaviour here: every transfer may fail, time out or arrive late; replies
carry the command byte they acknowledge and nothing else, so a late one can be
taken for the answer to a later command; an aborted update leaves its remains in
the device, and the next run meets them; outside `--strict` several mismatches
are only warned about; sizes and indexes are sent in 16 or 32 bits.

What makes it correct: host and device agree on how much of which image has
arrived; a unit that needs erasing is erased before its MCU image is written;
success means the images are in the device; FINISH applies whole images only; a
second attempt cures a failed first one; every run ends; a dump holds what the
flash holds; the flash size found is never larger than the flash.

### The firmware

| component | source | state | operations |
|---|---|---|---|
| resources | `F/res.c`, `F/table.c` | decoded container, nested windows into it | open, find by name, binary search in sorted tables |
| strings | `F/str.c` | current language, table windows | set language, look up with English as a fallback |
| user interface | `F/ui.c`, `F/menu.c`, `F/app.c` | selection and scroll position of each list, the stack of nested screens, current language | one modal loop per screen, keys, nested calls |
| expressions | `F/exp.c` | recursive evaluator with one source buffer per depth and an error flag | evaluate a formula over a received frame, with references to other formulas |
| databases | `F/cmd.c`, `F/dtc.c`, `F/funcfg.c`, `F/sysscan.c` | windows into the data image | walking lists of commands, fault texts, functions, scan nodes |
| drawing | `F/font.c`, `F/gfx.c` | frame buffer | glyphs, clipping |
| simulator port | `firmware/ports/sim` | window, key queue | the hardware interface on a PC |

Hard behaviour here: all data comes from a file, so every offset and count must
be checked before use; screens nest by recursion, also through menus that may
point back; the language can change underneath a screen that has fetched its
titles; a scan reads through a window that is smaller than the data.

### Offline utilities

`hixtool` (Python) unpacks decoded data images; `keysearch` is a one-off brute
force search.  Both are sequential programs without state between runs.

## 2. Plan

1. **Update** (built): `Protocol`, `UpdateImages`, `FakeDevice`, `UpdateHost`,
   their composition `Update`, the abstract `Install`, the invariant
   `UpdateInv`, the proofs.
2. **Readout** (built): `FlashLayout`, `FlashDevice`, `ReadoutHost`, their
   composition `Readout`, the invariants `ReadoutInv`, the proofs.
3. **Ui** (built): `Strings`, `Menu` and the screens over them, `Ui`, one state
   machine driven by keys; the proofs.
4. **Tools** (built): the command line tools of the firmware: expressions
   (`ExpValues`, `Exp`, `ExpMeaning`, `ExpTool`), tables (`Table`), databases
   (`FuncCfg`, `Cmd`, `SysScan` against `DataLayout`, in `Databases`),
   containers (`Container`), composed in `Commands`; proofs about tables,
   containers, the interpreter and the scan for tables of names.
5. **HostTool** (built): `UsbTransport`, `Package` and `DtcRecords` composed into
   the commands of openphix-tool; composed with the tool mode in `Commands`.

Each part has its proofs.  What is left is outside the reach of the prover or not
promised by the code: liveness (`RunEnds`, `CleanRunSucceeds`, `ReadoutEnds`,
`CleanReadSucceeds`, `QuitEnds`), what an expression means (`Meaning`, which
compares with a recursive definition), and what the lists in the databases say
(`DatabaseRead`, whose readers walk them by recursion).

## 3. The update

### Modules

- `Protocol`: `T/protocol.c`.  A packet is a record of the fields that somebody
  looks at.  `obd_is_ack` compares the command and nothing else, as the code
  does (it looks at byte 2; the checksum of a reply is never verified).  Numbers
  sent in 16 bits go through `BE16`.  Bootloader version strings are ranked by
  `strcmp`, `V126` is the rank of "1.26".
- `UpdateImages`: the three images and the blocks they are cut into.
- `FakeDevice`: the device of `T/fake.c`, one operator per command plus
  accepting and rejecting a data packet.  `announced`, `installed` and `dropped`
  are history variables, as are `fresh` and `taken` of `Update`: no reply was unread
  when the run began, and so many slots for MCU images were taken.  An MCU image that
  finds no slot is acknowledged and dropped (`fake.c:34`); it is in `dropped` then,
  not in `installed`.  With `KeepsReplies` the reply slot becomes a queue: a
  USB endpoint keeps what nobody has read, where `fake.c` clears its slot.
- `UpdateHost`: `obd_run_update` and what it calls, cut at every transport
  call.  `stage` is the position in `obd_run_update`, `step` the position in
  one exchange or in the upload of one image, `blk` the loop counter of
  `obd_write_image`.
- `Update`: host and device joined by a transport; the faults are its actions
  (`CommandFails`, `ReplyLost`, `ReplyLate`, `ReplyGarbled`, `ReplyFails`,
  `DataCorrupt`, `DataFails`, `DataRefused`, `OutOfMemory`).  A failed write
  leaves open whether the device got the packet.  `Start` runs the tool again
  against the same device with other options.
- `Install`: the abstract promise: whole images, one at a time, erase before
  MCU before external flash, success only if all that is owed is there.
- `UpdateInv`: the inductive invariant.  `UpdateProofs`, `UpdateStrictProofs`: the
  proofs, the second building on the first.
- `MCUpdate`: constants for TLC.

What is abstracted: bytes of a block (a block is known by its image, index and
length), the byte layout of packets (a data packet is intact or not), progress
output, the trace.  Left out: `fake.c` returning an error when its own `realloc`
fails, or dropping an image when its `malloc` fails in `commit_upload`; the
limit of the command log; an image of length zero does not reach the step where
the packet buffer is missing.  What a real device does while it erases and
reboots is outside the repository.

### Runs

| run | system | shows |
|---|---|---|
| `update` | one run, all 96 combinations of options and images, all versions, up to two faults anywhere, three image slots | `EraseFirst`, `OnlyTailLost`, the invariant `IInv` of the proofs, `RunEnds`, and that the run implements `Install` |
| `update_retry` | two runs on one device, two faults, an external flash image too large to announce, two image slots | `TypeOK`, `UploadAgrees`, `FinishOnlyWhole`, `HostKeepsProtocol`, `CleanRunSucceeds` |
| `update_late` | three strict runs over an endpoint that keeps up to two unread replies, three faults, four image slots | `SuccessMeansInstalled` for the runs that find no reply unread, whatever is left unread during them |
| `update_strict` | one run, one fault | the finding below |

Bounds.  Images have one, two and two blocks, the last of the MCU image short:
first, middle and last block differ, a short block occurs, and one image has
length less than a block.  The largest index a 16 bit field holds is 2 or 3, so
that an image one block too large exists.  Two faults suffice for a fault in
the handling of another fault; three runs suffice for remains of a run that
itself met remains.  Over an endpoint that keeps replies three runs and three faults are
what it takes for a run that finds replies unread to break the promise (below), so
`update_late` goes that far.  A run uses three slots at most: for what an earlier run
left in the device, for Erase.bin and for its MCU image.  With three of them (`update`)
a first run has room; with four (`update_late`) the first run has room and a later one
may find the slots used up; with two (`update_retry`) none has room and the limit of
`commit_upload` is met in the first run.

Fairness.  `FairSpec` is weak fairness of `RunStep`, the disjunction of
everything a running tool may do next.  Every transport call has a timeout
(`T/protocol.h` 26-34), so a started run cannot stop between two calls.  Nobody
has to start a run.  Nothing is assumed of the device: silence is a behaviour.

What the properties do not say, because the code does not provide it:

- Without `--strict` a run may report success for an image that is short of its
  tail; `OnlyTailLost` bounds what is missing.
- A device whose slots are taken acknowledges an MCU image and drops it, and a strict
  run reports success.  `EraseFirst`, `SuccessMeansInstalled` and `ImplementsInstall`
  therefore promise what is stored to runs that begin with three free slots
  (`HasRoom`).  Of the others `SuccessMeansInstalled` says that only what was dropped
  is missing, that this was not the external flash image, and that all slots are taken.
- A reply says which command it acknowledges, not which block or which run.  Over
  an endpoint that keeps two replies a strict run that begins with old ones
  unread may take an old acknowledgement for the answer to its last block, which
  was refused, and report success.  Two failed runs that leave their replies and
  three faults suffice.  So what strict runs promise, they promise if the endpoint
  keeps at most one reply (`OneReply`, the simulated link) or if no reply is unread
  when they begin (`fresh`); each property says so with `Undisturbed`.
- `CleanRunSucceeds` is checked for the simulated link only.  Over an endpoint
  that keeps replies, a fault-free run can fail on a reply left by an earlier
  one.
- `ImplementsInstall` is checked for a single run.  The BEGIN of a second run
  commits whatever a failed first run left in the device, whole images
  included, which `Install` does not allow.

### Finding

`device.h:17` and the tool's `README.md:27-28` say that `--strict` turns the
mismatches the vendor tool ignores into errors, and `README.md:125-126` names
the reply to FINISH as one of them.  `obd_finish` (`device.c:203-208`) ignores
that reply in strict mode too.  Run `update_strict` shows it.

### Proofs

The inductive invariant `IInv` of `UpdateInv` has six parts: `TInv`, `ReplyInv`,
`LooseInv`, `StrictInv`, `FirstRunInv`, `SlotsInv`.

`UpdateProofs` assumes nothing of the transport.  `TypeCorrect`, for all image
sizes, bounds and numbers of faults, from `TInv`: block counts and indexes fit
their 16 bits because `obd_build_begin` refuses what does not, and
`commit_upload` never exceeds its slots; `TInv` ties `step` to `stage` and the
block counter to the image.  `LosesOnlyTail`, for all runs, strict or not, from
`LooseInv`: the host goes on only if its commands were written, so both sides
agree on the image and on the block announced, and only data can be missing.  A
block is refused at the cost of a fault, and the device then takes none after it,
because the index no longer fits; so what it has is a beginning of the image,
short by no more blocks than faults were met (`AllBut`).

`UpdateStrictProofs` proves `IInv` inductive, over every endpoint (`Inductive`).
From it follow, for strict runs, `ErasesFirst`, `SuccessIsReal` and
`FinishesWhole`, and for all runs `CounterAgrees` and `KeepsProtocol`.  The
argument: between the acknowledgement of a header and the data no reply is unread,
so the reply the host takes for the answer to a data packet is that answer; hence
the block counter and the device's upload move together; hence an image is left
only when the device has all of it, and the command after it commits it.
`ReplyInv` is the first step of this argument, `UploadInv` the second,
`DeliveredInv` the last.  What is committed is `Given`: stored, or dropped for want of
a slot.  `SlotsInv` counts the slots a run has filled at each of its stages (`Filled`),
so that a run that began with room drops nothing (`RoomKeepsAll`) and `Given` is what
is stored.

The first step holds at once where one reply is kept.  Where more are, it is
`FreshInv` that gives it to a run that began with none: the host goes on without
its reply in two places only, after GET_VERSION and after the FINISH of Erase.bin.
What it leaves there acknowledges no BEGIN (`Stale`), and both times a BEGIN comes
next: the host reads the old reply where it wants the acknowledgement of the BEGIN,
and the run fails.  So whoever gets past a BEGIN has read all there was
(`AckEmpties`).  A run that finds old replies has no such guard, since they may be
acknowledgements of the very commands it sends; it is the run of the counterexample
above.

`UpdateStrictProofs` ends with `RunImplementsInstall`: every step of a run is a step
of `Install` or leaves what `Install` talks about alone.  It assumes a single run
(`MaxRuns = 1`, where `FirstRunInv` says that nothing of an earlier run is in the
device or unread), and `TellsApart`, that the erase image and the MCU image are not
both empty: two empty images sent under the same command are the same to the
device, and then one of them would be counted as two.  A run owes its images if it is
strict and began with room, else nothing.

Proofs assume what the modules assume of their constants: a positive block size
and index limit, a natural size for each image, at least one image slot.

### Only model-checked

`RunEnds` and `CleanRunSucceeds` (liveness).

## 4. The readout

### Modules

- `FlashLayout`: where the feedback and fault areas lie, the candidates of the
  probe, 32 bit addresses.  A cell is known by its address and by whether it is
  erased; that is all a property tells apart.
- `FlashDevice`: the half of `T/fake.c` that hands out flash.  A read that is
  not answered clears the reply slot and leaves the data of an earlier read
  pending, as the code does.
- `ReadoutHost`: `cmd_info`, `cmd_feedback`, `cmd_dtc_review` and
  `cmd_read_flash` with `obd_get_flash_size`, `obd_read_flash` and
  `obd_read_flash_range` under them, cut at every transport call.  `stage` says
  what is asked for (version, size, a block of the probe, the block `info` peeks
  at, a block of a range), `step` where in the exchange.
- `Readout`: the two joined, with the same faults as the update.
- `ReadoutInv`: the inductive invariants.  `ReadoutProofs` (types),
  `ReadoutLinkProofs` (what depends on the transport): proofs.
- `MCReadout`: constants for TLC.

What is abstracted: the text of a version is one number larger than any flash
(that is what it is if taken for a size); the first four bytes of a block stand
for its first cell.  Left out: decrypting what was read; parsing it and writing
the file are in `HostTool` (section 7).  Of the two strings `info` prints none is
modelled.

### Runs

| run | system | shows |
|---|---|---|
| `readout` | two readouts of any kind on one simulated device, two faults | `SizeRight`, `DumpInPlace`, `VerdictRight`, `ReadoutEnds`, `CleanReadSucceeds` |
| `readout_late` | one readout over endpoints that keep two packets each way, four faults | `NeverTooLarge`, `AsksInside` |
| `readout_address` | read-flash with addresses below and beyond 2^32 | the finding below |

Bounds.  A block has two cells, addresses wrap at 16.  There are four
candidates, and devices that have the largest, a smaller one, a size between two
candidates, and less than the smallest with no room for the feedback area.  Four
late answers reach every later question of a probe.  The lengths 0, 3 and 5 and
the addresses 3 and 8 give empty, short and complete last blocks, ranges that
end with the flash and ranges that pass its end.  Two runs let the second meet
what the first left.

Fairness is that of the update, for the same reason.

What the properties do not say, because the code does not provide it:

- `NeverTooLarge` is about the first run.  A later one may take an answer to
  the earlier one for its own.
- `DumpInPlace` is about the simulated link.  A data packet carries no address,
  so over an endpoint that keeps packets a late one would be taken for the
  block asked for after it.
- `SizeRight` promises nothing when a probe meets a fault: every failure to
  read a candidate counts as "too large".

### Finding

`cmd_read_flash` keeps the address of `-a` as a `long` but reads from
`(uint32_t)addr` (`T/main.c:504`, `T/main.c:516`).  Where a `long` has 64 bits
an address of 4 GiB or more passes the test against the size of the flash, and
the tool reports "wrote %ld bytes from 0x%lx" (`T/main.c:523`) with an address it
did not read from.  Run `readout_address` shows it.

### Proofs

For every layout of the flash, all command lines and any number of runs and
faults:

- `TypeCorrect`: from `TInv`, which ties `step` to `stage` and the number of
  cells read to the length of the range.
- `NeverMore` and `StaysInside`, over endpoints of any depth: from `LInv`.  The
  device acknowledges a read only where there is flash, so while the candidate
  is too large no such acknowledgement can be under way (`TooLargeYet`);
  candidates only get smaller, so an acknowledgement that comes late is about a
  larger candidate and the size settled on is not too large.  It is here that
  the order of `obd_flash_size_candidates` matters.
- `InPlace`, on the simulated link (`OneSlot`): from `SInv`.  While the host
  waits for a block and can still get it, the slot of the device holds the block
  it asked for (`SlotInv`); so what is appended continues what was read
  (`PlaceInv`), and no address wraps.

- `FindsTheSize`, on the simulated link: from `SizeInv`.  A reply that waits
  answers the question under way (`AnswerInv`), so an answer missed is a fault
  met; to start probing at all takes one fault if the device answers the size
  command and none otherwise (`ToProbe`), and as long as no more were met every
  candidate passed over was too large (`ProbeInv`).  So the candidate taken is the
  first that fits.
- `VerdictIsTrue`, on the simulated link: from `VInv`.  What a strict run has read
  is what the flash holds (`RealInv`), and the range of `feedback` begins where the
  log does (`FeedbackRange`).  The one block `info` peeks at lies below zero if the
  flash is smaller than the area; then its address wraps, the device does not
  answer it, and there is no verdict.

They assume of the constants that candidates are in descending order, at least a
block and below 2^32, that the areas fit in their offsets and the offsets in 32
bits, and that the flash is smaller than 2^32.

### Only model-checked

`ReadoutEnds` and `CleanReadSucceeds` (liveness).

## 5. The screens of the firmware

### Modules

- `Strings`: `F/str.c`.  Which entries of `STRING.BIN` become languages, the
  language in use, and which table a text is taken from.  A text is the pair of
  its table and its id, so that texts in different languages differ.
- `Menu`: `F/menu.c`, and which functions FUNCFG has for a control module.
- `Ui`: `F/ui.c` and the end of `app_main`.  Each screen is a call that waits for
  a key, so the state between two keys is the stack of calls: `stack`, the screen
  that waits first.  `ui_list` and the loop around it are one screen, with the
  selected row and the first row displayed.  An action is one key on the screen
  on top with everything the code does until it waits again: moving and
  scrolling, opening the next screen, drawing (which matters for the list of
  languages, whose rows select the language they are written in).  A return
  takes steps of its own, one call at a time (`ReturnBack`, `ReturnQuit`):
  callers of a screen that returns -1 go on, those of one that returns -2 return.
- `UiProofs`: proofs.  `MCUi`: an image for TLC.

What is abstracted: pixels, texts beyond their table and id, the record a module
menu finds (its functions are data).  Action codes are numbers except those with
bit 31, which are a set.  Left out: the contents of the
device information and battery screens.  The tools of `app_tool` are in section 6.

### Runs

| run | system | shows |
|---|---|---|
| `ui` | all key sequences; four string tables of which three fit and the second is English, a menu with entries of every kind, one that leads nowhere, one to an empty node and one with neither action nor parameter | `TypeOK`, `CursorShown`, `TitlesCurrent`, `Breadcrumbs`, `StackBounded`, `LanguageByChoice`, `SameRowAgain`, `QuitEnds` |
| `ui_bare` | the same without string tables, menu and functions | `CursorShown` |

Bounds.  Nothing is counted: the state space is finite because the menu of the
image has no cycle: `StackBounded` says what that gives, and the longest path of
this image reaches its bound.  (The code would open a cyclic one for as long as its
stack lasts.)  A display of two rows against lists of up to six rows scrolls in both
directions, pages, and has lists that are shorter, equal and longer than it.
The first language lacks some texts that the English table has, and one text is
in no table.

Fairness.  `FairSpec` is weak fairness of the two returns: they need no key.  No
key is assumed to be pressed.

### Proofs

`TypeCorrect` and `CursorStays`, for every image (any tables, menus and records)
and any number of rows on the display, from `IInv`: the types, the cursor of
every open screen, that every screen under another is a list or the icon grid,
and that a screen that answers -1 is not the icon grid, so that there is somebody
to go on.  The steps come in three shapes, a screen opened (`PushStep`), changed
(`ReplaceStep`) or returned from (`ResumeStep`), and each action is one of them.
The cursor needs the type: that the list of languages starts at a row depends on
there being a language in use.  Assumed of the constants: that entries have a
number of rows, numbers for actions and parameters, and captions that are ids.

`TitlesStayCurrent` and `LanguageIsChosen`, from `IInv` and `TitleInv`.  Drawing
the list of languages leaves the language as it was, since each row selects the
one before again (`DrawingRestores`).  So it changes in one step only; there the
list is over setup and setup over the grid (`PlacesOK`), so the one title that
stays open is the one setup fetches again.  A title that is not current can
otherwise only be that of a module menu under a message (`CoveredOK`), and the
menu fetches it when it goes on.

`WayBack` and `GoesOnWhereLeft`, from `IInv` and `PathInv`: each open screen is what
the row selected in its caller leads to.  A screen is opened by what is selected
in the one on top, and nothing under the top changes its row or what it shows
(`SamePlace`); a caller that goes on may fetch its title again, no more.  What a
list without rows would have selected is nothing, so the induction needs that only
a list with rows opens a screen (`HasRows`).  An entry of a menu with neither
action nor parameter is not a submenu: it ends in the communication error.

`MenusEnd`, for every menu file and every ranking of its nodes in which a submenu
ranks below the menu that leads to it, from `HeightInv`: an open menu has no more
screens under it than the ranks between it and the root (`HeightOK`), because what
opens it ranks higher (`Opens`).  The bound is on the calls of `ui_vw_menu` on the
stack.  Assumed: a file has finitely many nodes.  A cyclic file has no ranking, and
nothing in the code stops it.

### Only model-checked

`QuitEnds` (liveness).

## 6. The tools of the firmware

`app_tool` runs one command over the data image and ends: evaluate a record of
Exp.BIN, decode a command, list the modules, look up a fault code.  Its parts are
readers of data that comes from a file; what is hard about them is that they are
written twice or walk past things of varying length.

### Modules

- `ExpValues`: what operators and functions compute.
- `Exp`: the interpreter of `F/exp.c`, on tokens, a small step at a time.  `parser`
  is `struct parser` and the context: the place in the text, the value read last,
  nesting depth, source buffers, error flag and place, limits; `first`, the place
  of the first error of all, is a history variable.  The C stack is explicit:
  `calls` has the functions of the grammar that wait for one they called, `evals`
  the calls of `exp_eval_text` (what each interrupts, and how far its loop is), and
  `doing` says what is called next.  The functions between `parse_or` and
  `parse_unary` differ in their operators alone, so they are one frame,
  with the tokens it may still take (`floor`, `Levels`): an operand is continued
  by the operators that bind tighter than what waits for it.  Skipping a
  branch (`skip_stmt`) does not parse, as in the code: it counts brackets, also
  those inside a text.
- `ExpTool`: one evaluation: fetch the record, interpret, report.  The report is
  "no result" and nothing else if nothing was assigned (`app.c:81-84`).
- `ExpMeaning`: programs as trees, the text of a tree by the grammar at the head
  of `exp.c` with no more parentheses than precedence needs, and what a tree
  means, computed without parsing.
- `Table`: binary search in an indexed table, an action per turn of the loop.
  The count is multiplied in the width of a word.
- `DataFile`, `FuncCfg`, `Cmd`, `SysScan`: the readers, on bytes; the one of
  `dtc.c` is in `Databases`.
  Lists are walked from their start for each step asked for, as in the code.
  The scan of `SysScan` for tables of names (`find_ev_tables`) is a state machine:
  a piece is read, an action per node found in it, the next piece.
- `DataLayout`: the files as `docs/data-image-format.md` has them, written from
  contents that are records, and what the readers should answer.
- `Databases`: one look into one file; into SYSSCAN.BIN after its scan has ended,
  which runs when the firmware starts.
- `Container`: directories in directories, and the windows that `dtc_init` and
  `dtc_uds_translate` open.  `res_open` writes every entry it looks at to its
  result, an action per entry, so the model has the intermediate windows.
- `Commands`: `app_tool` over all of these, and next to it openphix-tool (section
  7); which of the two programs runs is chosen at the start, and they share
  nothing.  `MCCommands`: constants for TLC.  `ResourceProofs`: proofs about
  `Table`, `Container` and the scan of `SysScan`; `ExpProofs`: about `Exp` and
  `ExpTool`.

What is abstracted: characters to tokens, split as the code splits them (two
words in a row have a blank between them).  Where the code steps over one character
to get past what it cannot read (`exp.c:443-444`, `709-710`), `AdvPast` steps over a
whole token: of a longer word the code goes on to read the rest.  A double is an exact quotient, so
rounding is not modelled; a `long` has 16 bits where its bits are used; a 32 bit
number of a file is a signed one.  A directory is known at every offset of the
flash, its bytes are not.  Left out: `sprintf` and `charconvert`, `exp_format`,
texts cut at the size of the buffer, shifts by negative or huge amounts (undefined
in C), and the commands `ls`, `str` and `text`.  `funcfg_init` and the count of
modules (`count_modules`) are evaluated anew for each question.

### What is checked

By run `commands`:

- `Meaning`: every tree gives what it means, with no error: all pairs of the 17
  operators in both groupings, unary operators before and after each, nested if
  and else, two deep, with every branch taken and not, references, limits, and texts
  with and without brackets.  Left out are the trees with an open parenthesis in a text
  of a branch, or of a condition inside a branch (`OpenBranch`): see the finding.
- `WithinText`, `ErrorKept`: for these, all texts of up to three of 15 tokens,
  and a longer one cut short or with any two tokens missing: no step passes the
  end of the text, each turn of the loop moves on, a caller of ID() goes on in its
  own text, and the context ends with an error exactly if there was one, with the
  place of the first.  The place is not printed, and the buffer it points into may
  have been filled again; the mark "parse error tolerated" is printed with a result.
- `FindRight`, `InsideFile`: all tables of up to five sorted ids, and tables of
  anything, with counts that wrap.
- `DatabaseRead`: files with lists shorter, equal and longer than the arrays of
  the readers, chunks of one and of two variants, all forms of records, names in
  several tables.
- `EvFound`: reference nodes at every distance from where two pieces of the scan
  meet.  A node in the overlap is entered twice: `EvFound` allows a name to be
  missed only if such nodes took the last slot, and so does `DatabaseRead`.
- `OpenedRight`: directories of up to three entries in any order, behind the end,
  descending or broken off.

Run `exp_texts` checks `GrammarHolds`, which is `Meaning` without the exclusion, on
trees with an open parenthesis in a text.

### Finding

The grammar at the head of `exp.c` has a text wherever an expression may be
(`exp.c:20`), and `docs/data-image-format.md:307` has texts in square brackets.
`skip_stmt` (`exp.c:613-643`) finds the end of a statement by counting brackets, those
inside of texts too.  With X1 zero, `if(X1)Y=[A(]; Y=2;` skips the second statement
with the branch and has no result.  Run `exp_texts` shows it.

### What is not an error

A section that is missing is not an error to `dtc_init`: its window is that of the
last entry that was looked at.  `OpenedRight` says what holds all the same: that
window lies inside the file.  (`ui_bare` takes files that cannot be opened as
empty, which is what they are when the image has no entry at all.)

### Proofs

`FindsWhatIsThere` and `RecordInsideFile`, for tables, ids and words of any size,
from `TableInv`: in a sound table everything before `lo` has a smaller id and
everything from `hi` on a larger one (`Halved`).  For the record inside the file
no order is needed, the test of the entry is enough.

`WindowsStayInside`, for every flash, from `CInv`: calls are made in the order of
their numbers and look only into windows of earlier calls (`ParentIsEarlier`), so
no window changes after another was found in it; the call under way has passed
only entries of other names (`Passed`).  Assumed: a flash has a directory, maybe
an empty one, at every offset.

`NamesAreFound` (`EvFound`), for every file of bytes, every length of a piece and
every number of slots, from `ScanInv`.  A node is read once in the piece it lies
in, and again in the next one if it lies where they meet.  Every reading so far
(`Readings`: `Once` and `Again`) took a slot while there was one (`Entered`), so
either every node read has its table or there were more readings than slots; and
a piece begins a multiple of `Stride` behind the index (`Pieces`), so the second
readings are those of `ReadTwice`.  When the scan has come to its end, every
node was read.  Assumed: a piece moves on (`SysScanAssumption`).

`TextsAreKept` (`WithinText`) and `FirstErrorIsReported` (`ErrorKept`), for every
set of records, well formed or not, every nesting limit and every input.  Assumed:
the limit is positive, a record is a sequence of tokens, and "", which stands for
the end of a text, is no token that is read (`ExpAssumption`).  Both come from `ExpInv`:

- every step that is not a turn of the loop, an ID() or its end goes on in the
  same text, not backwards and not past its end, and changes the errors by at most
  one fault at one place (`Follows`).  A step looks at a token before it goes over it
  and "" matches none, which is why it cannot pass the end: each of the lemmas
  `...Proceeds` is that argument for one action;
- the evaluations under way have one buffer each, in the order of their nesting,
  so a caller finds its text as it left it, and they cannot be more than there are
  buffers (`Nested`);
- the errors of the callers that wait are not in the flag, which `exp_eval_text`
  clears, but in what they keep: the first error is at the place of the outermost
  evaluation that has one (`Errors`).  `Leave` puts it back.

### Only model-checked

`Meaning`, which compares with a recursive definition over trees, and
`DatabaseRead`, whose readers walk lists by recursion: each is an induction over
data.

## 7. The commands of openphix-tool

### Modules

- `Ledger`: what is held of what the C library and libusb handed out, and whether
  something was used or given back that was not held.
- `UsbTransport`: `obd_usb_list` and `obd_usb_open` in one action per call that
  may fail, with what each failure gives back.
- `Package`: which directory is the package, and which file is which image, by
  the order `readdir` has.
- `DtcRecords`: parsing of a block of stored faults, the clamp of its texts, what
  is allocated for it and freed.
- `HostTool`: every command from its arguments to its exit code, and the
  properties.  `at` is the position in the command.  `HostProofs`: proofs.  `MCHost`:
  constants for TLC.

What is abstracted: a conversation with the device goes well or it does not, at
one step; sections 3 and 4 are about what happens in it.  A file that is written
is not there, cut short, whole, or lost when it is closed.  Options are those that
decide something here.  Left out: the printed summary and notes of a package,
progress, paths longer than their buffers, `fake_close` freeing the parts of the
simulated device one by one.  The ledger has the transport, the lists and handles of
libusb, and the buffers of the commands that talk to the device or write a file.  It
does not have `FILE` and `DIR` handles, nor the buffer into which the
`package` command reads the notes it quotes from: that one is not freed when its
`realloc` fails (`T/package.c:163-165`), and `CleanExit` does not speak about it.

### Runs

| run | system | shows |
|---|---|---|
| `commands` | every command of both programs, every call and allocation failing or not | `CleanExit`, `ExitCodeRight`, `RightImages`, `ReportRight`, and the properties of section 6 |
| `host_lost` | the same commands of openphix-tool alone | the finding below |

`CHECK_DEADLOCK FALSE` in both: a program that has ended takes no step.  No
fairness is stated: nothing here waits, and every command is a finite sequence.

Bounds.  No devices, one and two, of both lines and of neither, with all endpoints
or half of them.  Packages in the directory itself or in one of two below it,
with any subset of five images, listed in both orders.  Blocks of 16 bytes with up
to two texts that begin in them or after them and end in them, at the end, or
after it, or have length zero; up to three blocks with equal and different keys.

### Finding

`write_file` ignores what `fclose` says (`T/main.c:336`), as does `cmd_dtc_review`
(`T/main.c:415`), so a file whose last buffer could not be written is announced as
written, with exit code 0; the tool's `README.md:144-145` has exit code 2 for a
file error.  Run `host_lost` shows it.  `ExitCodeRight` says what holds beside
this.

### Proofs

`EndsClean`, `ExitsTruly`, `SendsTheRight` and `ReportsTruly`, for every command line,
package, set of devices and content of the fault area, and whatever fails, from
`HInv`:

- `LedgerInv`: the ledger holds exactly what the position in the command implies
  (`Held`), and so does that of the records.  This is more than `CleanExit`, which
  is about misuse and the end; each step takes or gives back the difference between
  two positions, so nothing can be given back twice.
- `GoingInv` and `ExitCodeRight`: the exit code is set where a command ends, and
  what happened to device and file is known until then.
- `ChosenInv`, `SentInv`: at each step of an update the images read so far are those
  of the package for the line of the device, and only these are sent.
- `ParseInv`: the records are those of the blocks looked at so far, in the order of
  the blocks.  Sorting keeps them all because the place of a record (`Place`, the
  number of records that come before it) is different for each.

Assumed: that names, devices and blocks have their types, and that a length of 16
bits can say how long a block is (`HostRunsAssumption`, `DtcAssumption`).

## 8. Not modelled

- The cipher: an XOR with a table and a rotation, both functions of the offset.
  It keeps nothing, and a model would repeat the table; that encrypting
  undoes decrypting, also in pieces, is in `tools/openphix-tool/tests/test_crypto.c`.
- Drawing, the simulator port, hixtool, keysearch: pixels, windows and files, and
  sequential programs without state between runs.
- Of what is modelled: what each section lists as left out.

`PROJECT.json` has each component with its status.
