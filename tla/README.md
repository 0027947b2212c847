# terminal++ in TLA+

A model of terminal++: the locks and event queues between its threads, both ends of its
pseudoterminals, everything that reads bytes from them, the buffer of the terminal with
history, selection and links, the transfer of files by `ropen`, the widgets with focus, layout and
painting, and the settings with their JSON.

Every definition is translated from the C++ source; a comment names the function where the
name alone does not. A definition named `X_Something`, next to `X` and with a comment that begins
"Mutant" or "A bug", is a plausible mistake in `X`, kept to show that the property it is listed with
can fail. PROJECT.json maps each definition to its lines of source.

## The system

| Part | State | Operations | Talks to |
|---|---|---|---|
| `PriorityLock` (helpers/locks.h) | mutex, `priorityRequests_`, condition variable, `locked_` | `lock`, `priorityLock`, `unlock` | the reader of a terminal takes it for every chunk of input, the UI thread, with priority, to paint and to resize |
| Event queue (ui/event_queue.h) and scheduling (ui/renderer, ui/widget) | `events_`, `pendingEvents_` and `renderer_` of each widget, the yield's flag and condition variable | `schedule`, `cancelEvents`, `processEvent`, `yieldToUIThread`, `detachWidget` | every thread schedules; only the UI thread runs events and changes the tree |
| Pseudoterminals (tpp-lib/local_pty, bypass_pty) | the child, its status, `Slave_`, `Receiving_` | send, receive, resize, terminate | the child process, by bytes and signals |
| Readers (tpp-lib/pty_buffer, terminal_client, tpp-bypass) | the buffer of unprocessed bytes, its size | receive, process, keep, grow, discard | terminal, `ropen`, `AnsiRenderer` |
| Sequences (tpp-lib/sequence, ui-terminal/csi_sequence, osc_sequence) | none | write, find, parse | the readers |
| Remote files (tpp-lib/remote_files) | `files_`: stream id to source, local path, size, `received_`; the local files | `openFileTransfer`, `transfer`, `getTransferStatus`, view | t++ sequences, which `TerminalWindow::terminalTppSequence` handles |
| `ropen` (ropen/main_ropen.cpp) and its client (tpp-lib/terminal_client) | the local file, stream id, `packetLimit_`; the request slot with timeout and attempts | open, send a burst, ask for the status, rewind, view | the terminal, through a pseudoterminal that may drop sequences |
| Terminal buffer (ui-terminal/ansi_terminal, ui/canvas) | normal and alternate screens with cursor, region, saved cursor, last character; history; modes | characters, control characters, escape sequences, resize | the reader writes, the UI thread resizes and paints, under a `PriorityLock` |
| Links (ui-terminal/url_matcher, ui/canvas.h, ui/special_objects) | state of the matcher, special objects with their counts of references | match, attach, highlight, open | both threads, under the same lock |
| Selection (ui/mixins/selection_owner.h) and Timer (helpers/time.h) | selection, start, autoscroll timer | drag, word, line, copy, paste | mouse events, the reader's switches of mode |
| ANSI renderer (ui-terminal/ansi_renderer, helpers/fsm.h) | trie of keys, buttons | render, decode | another terminal |
| Widget tree, focus, mouse, clipboard (ui/renderer, ui/widget, ui/widgets) | tree, modal root, keyboard and mouse focus, clipboard's targets | attach, detach, set focus, dialogs | native windows feed it input |
| Layouts and repainting (ui/layout, ui/widget, ui/renderer, ui/canvas) | rectangles, visible areas, `pendingRepaint_`, `renderWidget_`, frame thread | relayout, `repaint`, `requestRepaint`, `paint` | any thread may ask, the UI thread paints |
| Native windows (terminalpp/window.h, x11) | the runs of glyphs, exposed or not | render, resize | the buffer of the renderer |
| Sessions (terminalpp/forms/terminal_window) | sessions (the program makes one per window), dialogs | new, close, PTY terminated, pastes | terminals, pager, window |
| Settings (terminalpp/config, helpers/json_config, helpers/json) | the configuration's tree, `settings.json`, backups | parse, update, complete, save, command line | other instances, by the file |

What makes these parts correct:

- **PriorityLock**: one holder; a priority request waits for the current holder only; no thread sleeps with nobody left to wake it.
- **Events**: run once, in order, and for each widget that stays all of them; `yieldToUIThread` returns.
- **Pseudoterminals**: `receive` returns once the end is closed.
- **Readers and sequences**: chunks do not matter: every unit is done once, in order, as it was written, and painted.
- **Remote files and `ropen`**: whatever is lost, late or repeated, a local file is at all times a prefix of the remote one, a viewer sees all of it, and the transfer ends.
- **Terminal buffer**: text that leaves the screen at the top is in the history, in order and once; a resize loses only the oldest history; the alternate screen leaves no trace; every access is inside the buffer.
- **Links**: live exactly while referred to, and leading where the text says.
- **Selection**: what is copied is what was dragged over; scrolling by itself ends.
- **ANSI renderer**: what it draws looks as the cells did; keys come back as they were pressed.
- **Widget tree and focus**: no reference to a detached widget is kept; the focus stays within the modal root and returns.
- **Painting**: the window shows the tree, and no repaint is forgotten.
- **Settings**: the user's choices are kept and used, also by instances that start together or are killed.

## Modules

| Module | Models | Uses |
|---|---|---|
| `PriorityMutex` | what `PriorityLock` promises: the abstract specification | |
| `PriorityLock` | the three functions, one action per step between which another thread can come | instance of `PriorityMutex` |
| `LocalFiles` | the copies the terminal makes of remote files, and what it promises of them | |
| `RemoteFiles` | the terminal's side of a transfer; its environment sends any requests and truthful packets | `LocalFiles` |
| `FileTransfer` | `ropen`, its client, the pseudoterminal and the requests' handler | `LocalFiles`, instance of `RemoteFiles` |
| `UIEvents` | the event queue, yields, detachment and the join of a reader | |
| `LocalPTY` | both ends of a local pseudoterminal with their threads and signals | |
| `Bytes`, `TppSequence`, `EscapeParser` | UTF-8, base64, numbers; t++ sequences; how input is cut into units | one another |
| `AnsiRenderer`, `Bypass` | what the ANSI renderer writes and decodes; the bypass's protocol | `EscapeParser`, `Bytes` |
| `InputReaders` | the readers, over any chunks, with attributes, modes and replies | the two above |
| `Terminal` | the buffer, the history, and resizing | |
| `UrlMatcher`, `SpecialObjects`, `Hyperlinks` | the recogniser, the counting of references, links on the screen | one another |
| `Selection` | selecting, clicks, copying, automatic scrolling | |
| `Renderer`, `TerminalWindow` | tree, focus and clipboard as operators; the window's session and dialogs | the former |
| `Geometry`, `Painting`, `Layouts`, `GlyphRuns`, `WidgetTree` | rectangles; drawing; layouts; a native window; the tree whose changes, requests and frames interleave | one another |
| `Json`, `JsonConfig`, `Settings` | JSON with comments; the typed configuration; starting, completing, saving | one another |
| `MC...` | small instances of the modules, for TLC | |
| `SequenceLemmas` | what folds and the operators on sequences do, for the proofs | |
| `...Proofs` | theorems about the module they are named after, see below | that module |

### PriorityLock

A thread has a place `pc`. `lock()` takes the mutex, tests the counter, waits on the
condition variable (which releases the mutex) and, woken, takes the mutex again.
`priorityLock()` counts itself before it takes the mutex and counts itself off after.
`unlock()` is modelled with its test of the counter and `notify_all`. The counter is
`std::atomic` and changes outside the mutex, which is why the steps are separate
actions. `PriorityMutex` has one action per grant and release; `PriorityLock` implements it
under the refinement mapping in the module (`ServesPriorityFirst`).

### RemoteFiles and FileTransfer

`files` is `files_`, `disk` maps local paths to the bytes in them, and the bytes of a remote file
are 1, 2, ..., its size: a byte that came to the wrong place shows. `OpenFileTransfer`,
`Transfer` and `View` are the requests of `terminalTppSequence` that change something; `locked`
are the files another program keeps from being opened, which makes `UniqueNameIn` choose another
name. `OpenRefused` is the other end of `openFileTransfer`, the exception when no file can be opened at all: the record is made or reset by then,
and `refused` remembers its source. All that is assumed of packets is that the payload is what the remote file has at
their offset.

`FileTransfer` adds `run()` of `main_ropen.cpp`, the request slot of `TerminalClient::Sync`, and two
channels in order. The reader of the client fills the slot; the main thread waits for it
with a timeout that can expire at any moment, also when the answer is already on its way. To lose a
sequence, to be interrupted, to have no local file that opens, and to time out although an answer may still come cost one of
`MaxFaults`. A second run may start while answers to the first are on the way.
`clean` is history: whether nothing of an earlier run was on the way when the last one began. `DeliveredAtEnd` is about those
that did, and it is false of the others, though not with the two runs of the instance: once the answers of three runs are late, the fourth can
take a status from before its own request to open, and believe the file complete that this request is about to empty.
`ServesRemoteFiles` is the refinement: what was assumed of packets is true of `ropen`'s.

### UIEvents and LocalPTY

`Workers` schedule events for `Widgets`, or yield; the UI thread runs the first event that is not nulled,
detaches a widget in its two steps (events are cancelled, then `renderer_` is taken away), attaches it
again, and joins the reader of a closing session. `cancelEvents()` is modelled as it is written:
it decrements `pendingEvents_` for every event it passes.

`LocalPTY` has the master with its waiting thread, and `ropen` as the child with `LocalPTYSlave`: its two
threads, the statics `Slave_` and `Receiving_`, and the handler of SIGWINCH that can run in either
thread between any two steps. Closing sends the signals of `terminate()`; the terminal may answer at any time
or not at all.

### Readers

A stream is written to a terminal, a client (`ropen`), an `AnsiRenderer` or the bypass, and received in
chunks that end anywhere. `NextUnit` of `EscapeParser` is `received()` up to its dispatch: how many bytes the
first unit takes, none while it is incomplete, and what is to be done. The units are done on what this
module keeps (`term`: attributes of both screens, modes, the last reply); screens
are in `Terminal`. A stream carries what it means, so `DoneAsMeant` compares with what was
written and not with a second parser. A stream also says where the code takes what it has for
complete (`fragile`); `LostOnlyWhereFragile` says that it loses its place nowhere else.

`AnsiRenderer` has both sides: what `render()` writes for cells, read back by the terminal's SGR
(`DrawnAsIs`), and the keys and mouse reports that `AnsiTerminal` sends, decoded by the trie. Both
take the bytes of keys from one table, of which the model has one key of each kind.

### Terminal

`screens` are the two `State`s, each with its rows of cells, cursor, region, saved cursor and last
character; a cell is a character's number in the order of writing, or blank, and an end of line mark. One
operator per control character and escape sequence, each with what `updateCursorPosition`,
`deleteLines` and the history do in it. DECSTBM sets an empty or inverted region as the code does, and
CHA a column left of the buffer; characters outside the buffer, lines scrolled in an empty region and the
endless loop of `addHistoryRow` for an empty width put the model into a state of its own
(`status`), after which nothing happens. Cells that the code copies although they were never written
are chosen freely (`Garbage`).

### Hyperlinks and Selection

`SpecialObjects` counts references as the code does, by hand at each assignment of a cell. `Hyperlinks` prints words,
which `UrlMatcher` looks at letter by letter, lets lines scroll into the history and out of it, erases,
switches modes, and moves the mouse. OSC 8 resets nothing: while there is a link in progress the matcher halts with what it has
read, and goes on after it. The history variables `cut` and `mixed` say that OSC 8 came while the matcher held a part of an
address, and which links were made of such a match. `detachFromAllCells()` steps over every second entry of an unordered map, so
the entries it sees may be any half of them: `Halves` names those that are tried.

`Selection` keeps of a row its number and which of its cells are written and which separate words. The UI
thread takes the mouse, the keys, and what the reader and the timer have scheduled. `texts` are what was given to the clipboard and
the selection. A switch of the mode is two steps of the reader, one that schedules the clearing and one that swaps the screens; in between it has
`bufferLock_`, so that only handlers that do not take the lock run (`Unlocked`): a press of a button and the clearing itself are among them.

### Renderer and TerminalWindow

Handlers of widgets call functions of the renderer that are already running below them on the
stack (a key dismisses a dialog, its detachment moves the focus). Therefore `Renderer` is not a state machine: each
function is an operator from one state `r` of the window to the next, and they compose as the
calls do. `r` has `children` of every widget, who is `attached` and `visible`, and what the renderer
refers to; `told` and `hovered` are history: the widgets that were told last that they
have the focus, or the mouse, and `again` those that were told what they knew. A widget that is detached gets a `focusOut()` also
when the window has lost its own focus and the widget was told so (renderer.cpp:87), which is why `OneIsTold` speaks of attached
widgets. `setKeyboardFocus(nullptr)` is recorded in `nullCall`, as it
dereferences its argument. `keyDown` and `clicked` are `keyDownFocus_` and `lastMouseClickTarget_`; whether a click is in time for a
double or triple one is open. A dialog that is shown a second time stands for a new one at the same addresses.

`TerminalWindow` has one action per event of the UI thread, and `ChildEnds`, the reader thread that notices the
end of the child at any moment, also before the terminal is attached. Panels, headers and labels inside a dialog are one with
it; its buttons are widgets of their own. Dialogs are shown by keys, by late answers
of the clipboard and the primary selection (which may cross), and by scheduled events. `waits` is the configuration's
`waitAfterPtyTerminated`, either way; pastes are always confirmed, because a paste that is not changes nothing here.
The model is of a release build: assertions do not stop it.

### Painting

A cell of the renderer's buffer is the sequence of what was drawn on it since it was last filled
with an opaque colour: which widget, which layer, what of it. `ShownWhenIdle` compares the buffer, drawn by runs of glyphs as the native window
does, with what a full paint of the tree as it is now would give. Requests come from the UI thread and the readers
at any time; the frame thread paints when it comes to it. `Layouts` and `Geometry` are pure: move, resize and relayout with size hints,
the row, column and maximized layouts, and the visible areas that painting uses later.

### Settings

A text is a sequence of tokens; the parser of `Json` sees marks, digits and escape letters one by one, and words as
wholes. `JsonConfig` has the schema, the nodes with what was updated, and the command line. In `Settings` an instance
reads the file, updates its configuration, completes it, chooses a name for a backup of what it could not read, renames the file to it, and writes
line by line; between any two steps another instance may come or this one may be killed. Files that
are renamed or removed live on for who has them open. Names of backups are tested for existence when they are chosen and not when they are
used, and are drawn from a generator that is never seeded (string.h:18): every instance draws the same ones, in `backups[1]`, `backups[2]`, ...
Doubles are counted in tenths and written with six digits, from a million on with an exponent (json.h:994).

## Runs

| Run | Bounds | Shows |
|---|---|---|
| `priority_lock` | 4 threads, 2 of them may use `priorityLock` | no lost wakeup, one holder, `PriorityMutex` implemented, priority requests served |
| `remote_files` | 3 files of 0, 2 and 3 bytes with distinct names, 4 opens, any of them refused | prefix and whole file |
| `file_transfer` | a file of 5 bytes in packets of 2, 2 attempts, 2 runs, 3 faults | the file arrives, packets are truthful, the program ends, and without faults it ends with the viewer |
| `ui_events` | 2 widgets, 2 workers, 1 of them joined, 3 events, 2 detachments | order, counters, and that all gets run |
| `terminal` | 3x2 and 2x3 cells, a history of 2 rows, 4 characters, 2 controls and 2 of 22 escape sequences, 5 inputs in all, 2 resizes | text is kept, buffers fit |
| `window` | 2 dialogs shown out of 3, 2 mouse buttons, the mouse on the terminal, the pane, a dialog or a button, both values of `waitAfterPtyTerminated` | references, focus and modal state agree whatever comes between |
| `input` | about 1150 streams of one or two units and what is cut off behind; buffers from 4 to 32 bytes; a reader is followed until it has lost its place once | units survive chunks, attributes, drawing |
| `painting` | a window with two terminals, two dialogs, labels and buttons on 3x4 and 2x3 cells, 4 changes | the window shows the tree |
| `settings` | 2 instances, 3 starts, 1 edit, 1 kill; settings with errors of every kind, 3 command lines | choices are kept, and what is lost is lost in two ways only |
| `hyperlinks` | 4x3 cells, 4 objects, 1 row of history, 5 inputs; of the cells of a link that is given up none, every second or all are seen, if they can be | references, addresses, what opens |
| `selection` | 2x2 cells, 2 rows of history, 3 inputs, 1 line, 1 switch | drags, words and lines, autoscroll |
| `slave_hangs` | 2 requests, 1 resize, 1 key | *violated*: see findings |

Why the bounds are enough. Four threads are two in each role that `PriorityLock`
distinguishes, so that one of each can hold, wait and be passed over. For the transfer, a packet size
of 2 with a file of 5 has full packets and a short one, and three faults can lose a packet, its status, and time
out an answer that was sent; two runs are needed for answers to another run. In `UIEvents` three
events and two widgets are enough for an event of another widget to stand in front of a cancelled one, and two
detachments for a widget to come back with a wrong counter; `Modulus` is above the number of events, so that the counter is
only wrong where the code makes it wrong. On the terminal a width of 2 and 3 and a height of 2 and 3 wrap, scroll and
reflow with every second character; the region can be a part of the screen, empty, or upside down. Two dialogs shown are one that is replaced by another, or
goes under another (the theorems have any number), and two mouse buttons are one that captures the mouse and one that is pressed
meanwhile. Two units after each other are what a chunk can merge or tear, and a buffer of 32 bytes is filled by the
longest unit. Four changes of the tree are a request, a change under it, one in its way and one while a frame is under way. Three starts are two instances at
the same time and one that reads what they left. Four objects are one highlighted, one in the history and
two on the screen.

### Fairness

- `PriorityLock`: every step inside a function is weakly fair (a running thread goes
  on), and taking the mutex is strongly fair for priority callers, as pthread mutexes are given out again and
  again; nobody is bound to call the lock, and nobody is assumed to hold it for ever.
- `FileTransfer`: the program, the client's reader, the terminal's reader and the shell go on (weak fairness). Faults are not
  fair: they need not happen.
- `UIEvents`: the UI thread runs events as long as there are any and finishes what it began; a joined reader
  ends when it is not waiting. Nobody is bound to schedule.
- `Selection`: the timer ticks, the UI thread runs what is scheduled, a click that is due is made, and the reader ends a switch of the mode it began. Nobody is
  bound to move the mouse or to write.
- `LocalPTY`: threads go on, and those of `ropen` between any signals that interrupt them (strong
  fairness). The terminal need not answer, and nobody needs to press a key.
- The other modules state safety only; there nothing is due but what a property says is due when it is idle
  (`EverythingSeen`, `ShownWhenIdle`, `NoneForgotten`).

## Findings

- **The reader of `ropen` hangs** (`slave_hangs`): `receive()` of the slave tests `Slave_` and sets `Receiving_` three
  lines later; a destructor that runs in between does not interrupt the read, and the join never returns.

Facts of the code that the models contain, and that the properties step around by name:

- `openFileTransfer` throws when it can open no local file, after it has reset the record (remote_files.cpp:29). A client whose request was sent twice, and
  answered once, goes on; `transfer()` counts what it cannot write, the status confirms it and the viewer is asked for: `DeliveredPrefix`,
  `ShownWhole` and `DeliveredAtEnd` are said of the sources whose files opened (`refused`).
- `widgetDetached()` leaves `keyDownFocus_` and `lastMouseClickTarget_` to widgets that are gone, although its comment says that all references are
  voided (renderer.h:139). They are compared and never followed, so the harm is a character or a double click for a new widget at the old address.
  `NoDangling` is about the pointers that are followed.
- A dialog that goes while a button is pressed in it leaves nothing that has the mouse, and `mouseUp()` asserts that something has (renderer.cpp:403).
- The clearing of the selection is scheduled before the screens are swapped (ansi_terminal.cpp:1419); the UI may run it, and begin a drag, in between, and the
  drag goes on over the other screen: `drag.during`, the exception of `OnThisScreen`.
- Two instances that read broken settings together choose the same name for the backup (config.cpp:46); the second renames the new settings to it, over
  the text of the user that the first had put there: `replaced`, an exception of `NothingLost`.
- OSC 8 does not reset the detection of addresses, although any sequence but SGR should (ansi_terminal.h:417): it goes on with the cells before the cursor
  when the link has ended. After "http://a", OSC 8 with an address, "bb", OSC 8 without one and a blank, eight cells lead to "tp://abb": `mixed`, the exception
  of `LinkedAsShown`.
- Two remote files with the same host and file name share their local file (remote_files.cpp:14): `DistinctNames`.
- A repeated request may be answered twice, and an answer nobody waits for throws in the reader of the client
  (terminal_client.cpp:102): the phase "crashed" of `FileTransfer`.
- The UI thread joins a reader that may be waiting for it (pty_buffer.h:78, renderer.h:92): `Stuck` of `UIEvents`.
- `cancelEvents()` counts events of other widgets (event_queue.h:79), so an event of a detached widget may run: `DetachedWithEvents`.
- A resize leaves `lastCharacter_` where it was (ansi_terminal.h:883): `status` of `Terminal`.
- A window that waits for a key after its child has ended does not get the focus when a dialog was open (terminal_window.h:281).
- A child that ends before its terminal is attached is not noticed: the event is for a widget without a renderer and is dropped
  (ansi_terminal.h:581): `ChildEnds` of `TerminalWindow`.
- The modal pane may be painted by itself although it is translucent (widget.cpp:331): `stray` of `WidgetTree`.
- Keys with the same bytes are decoded as the last of them; the key Ctrl+0 has none, so that
  every character that is no key is also Ctrl+0; a sequence cut after `ESC [` is taken apart, and match() looks one byte behind the received ones (ansi_renderer.cpp:108).
- The bypass reads a number behind what it received when a chunk ends after its colon (main_bypass.cpp:256).
- SGR 22 ends italic as well, so italics drawn after bold are lost.
- A double without a fraction is saved as an integer and refused when it is read; a comment that holds the end of a comment spoils the file,
  and so does a double of a million or more, which is written as 1e+06 (`written.spoils`);
  an instance killed between truncation and writing loses the settings (`torn`), and so does a backup that replaces another (`replaced`): exceptions of
  `TakesOwnFile` and `NothingLost`.
- `selectionOwner_` is never assigned, so a widget is never told that its selection was taken over (renderer.h:473); rows of a full
  history go from under a selection; selectLine() does not end outside the screen and selectWord() looks left of the first column: `status` of `Selection`.

## Proofs

`PriorityLockProofs`, for any finite set of threads: the inductive invariant says of every
place what holds there (who owns the mutex, what the counter counts, who is parked
and who is still to notify). The counter is the number of threads at the places between their increment and decrement,
which is why the lemmas about cardinalities come first. From it follow the type invariant, `NoLostWakeup`,
`LockedByHolder`, and that each step is a step of `PriorityMutex` or none (`Refinement`).

In `FileTransferProofs`, first of `RemoteFiles` alone, for any files and any number of requests: `LocalFilesInv` is inductive (`FilesInvariant`).
`DeliveredPrefix` is not by itself: that a packet for one record leaves the other local files
alone needs that records have different paths (`OwnPaths`, from the names being distinct), that there is at most one record
for a source (`OneRecord`), and that a fresh path cannot be that of an older record
(`FirstPathExists`), each but for the sources that no file could be opened for (`Refused`). `DistinctNames` is the assumption, and `PrefixDelivered` and `WholeShown` are false without it.

Then of the whole transfer, for any files, sizes of packets, limits, attempts, runs and faults: `SessionsServe` is the refinement
`ServesRemoteFiles`. The inductive invariant says what may be on the way (`ChannelsInv`: packets of a stream of this
file with what it holds there, answers to a request to open that name one of its streams, statuses that claim no more than there is) and where
`ropen` stands (`RopenInv`: `sent_` is the position of its stream, its id is one of its own while it sends). Streams only
come and keep their source, so what was right on the way stays right (`SetsGrow`); each action then needs only its own channel
(`OnlySource`). With `WholeShown` it gives `TransfersShowWhole`: no run of `ropen` ever makes a viewer start on a part of a file that could be opened. `TransferAssumption`
says that the parameters are natural numbers.

In the same module, `RunsDeliver`, for a run that began on an empty pseudoterminal: what ropen believes at its end is so. The invariant follows the requests in
the order in which they are on the way (`RunInv`). The status is asked for after every request to open of the run, sent again or not
(`AskInOrder`); so once a status is on its way back no request to open is left that could empty the file
(`AnswersHeld`), and as the terminal's count of a stream only grows (`Grown`), a late status claims no more than there is. `DistinctNames` is needed again:
another file of the same local name would be emptied by its own `ropen`.

`UIEventsProofs`, for any widgets, workers and events: `OrderKept` from the queue being increasing and
behind all that has run (`OrderInv`); `PendingKept` from counting what is queued for each widget, where a detached widget must be shown to
spoil no counter but its own (`CountInv`). Steps are first sorted into kinds (`StepKinds`: one schedules, leaves the queue alone, runs an event, or
detaches), so that the conjuncts meet four kinds of steps and not every action. `EventsAssumption` says that there are fewer events than the counter can count; in the code it has 64 bits.

`TerminalWindowProofs`, for any tree of widgets and dialogs with any buttons. `ToldInTurn` shows each function of the renderer to keep `Told`, from
the innermost to those that call it, and so every action. The others have `WindowInv` (`WindowInvariant`), which relates what the
renderer refers to with the tree: who is attached is attached up to the root (`Rooted`); an open window is modal or not
(`Modal`, `Plain`), which the pane's children, its visibility, the modal root and the remembered focus all have to agree
on; and what was focused before the first dialog still is focusable when the last one goes, because no dialog is above it.
`FocusKept` alone is not inductive: that `SetKeyboardFocus` finds something after a dialog is detached needs
that the rest is still a tree. From it follow `NothingDangles`, `FocusIsKept`, `ModalExactly` and `FocusComesBack`. The assumptions are facts of the code:
`Parent` is a finite tree (`RootedAssumption`: `Widget::attach` is called by constructors, once for each child), the pager and the
pane are children of the window, every dialog that is shown has a button of its own, and the pane cannot be focused.

`TerminalProofs`, for any sizes that are not empty, any limit of the history and any output: `TerminalInv` says that both screens are rectangles of cells of
the widget's size, that both ends of a region are lines of it, and of the history how many rows it has and how wide. That the rows of the history fit a width is only true
because every way into it cuts or rewraps (`PiecesType`, `WrappedType`); what a resize makes of a screen fits whatever rows it copies
(`ResizedType`). `BuffersFit` is not inductive: the widget may have no size yet when the screens have theirs, and the widths of both
screens must agree. Nothing is said of the cursor, which CHA with 0 and BS leave left of the buffer and CUP and LF below it, nor that a region is not empty, which DECSTBM
does not ask: the proof shows that each use of them stops the reader or stays inside. `TheBuffersFit` and `NormalIsKept` follow; for the second, a terminal under lock carries with it
that its history is untouched in the alternate mode (`Terminals`). `SizesAssumption` has the sizes positive, as `Widget::resize` is given them by a
laid out window; what happens at a width of 0 is the first width of the model, `rect` before it is laid out.

In the same module, `TextSurvivesResize` is the action property `ResizeKeepsText`. It needs little of the invariant (the cursor is no lower than the
screen, rows are of its width) but each operator on the way shown to move text and not only to keep its shape. Some keep
all cells: rows that are joined to lines (`LogicalLinesText`) and cut again (`PiecesJoined`, `WrappedText`) are equal when flattened. Others drop or add
blanks: a row up to its line end, or padded (`UpToLineEndText`, `PaddedText`), has the same characters. Others drop
rows at the top (`TrimmedText`), and of a resize's rows some end up in the history and the rest on the screen, next to each other (`ResizedText`,
`RewrappedText`).

`TextSurvivesScrolling` is `ScrollKeepsText`. A wrapped character or a line feed is followed as a replacement in the text of history and screen: what
`deleteLines` takes from the top of the region comes next in the history, cut or not (`DeleteLineText`, `AddHistoryRowText`), blank
rows do not show, and the cell that is written gets one character for at most one (`CellText`, `ReplacesInOrder`). That the new one
was nowhere before is not in the property: `TerminalInv` therefore bounds the numbers of all characters (in `Sound`) by the count of those received.

`HyperlinksProofs`, for any sizes, limit of the history, words and addresses: `LinksInv` says that each object has as many references as it counts (`Sound`, `Refs`: the
cells of the history, of the screen and of the other screen, and three pointers, of which one is held by the function that runs). It is stated of what an operator
returns (`Good`), so there is a lemma for every function of the code on the way from an assignment of a cell to
a handler: objects (`AttachSound` to `FillSound`), a cell (`SetObjectGood`), the history (`AddHistoryRowGood`, `DeleteLineGood`), the matcher and the loop that
sees half of the entries, whichever (`DetachGood`: it leaves links on the screen, but each reference it takes is counted), a character, a word, each action.
`ReferencesCounted` alone is not inductive: that the address of the highlighted link is not given to a new object needs that the pointer
to it is one of the references counted, and that an object that is attached is live. `ReferencesAreCounted` and `OpensWhatIsHighlighted` follow. `ScreenAssumption`
has the sizes positive. The theorems assume `EnoughObjects`: that there are more addresses than cells and pointers, or infinitely many, as `new` always
returns one that is free. The run has four addresses, which its inputs do not use up, and does not satisfy `EnoughObjects`; with it every state of
any run does what the run shows.

`LinkedAsShown` needs an invariant of its own, `Shown`, which is about text and not about references. While the
matcher reads, the cells before the cursor hold the text it has read, and its state tells which text that is (`Matched`): a beginning of the protocol,
or a protocol with a host and what may follow, the last characters of which may need more (`Spelled`, `AddressOf`); when OSC 8 came meanwhile nothing is known of them (`cut`) until the matcher has read nothing. `TransitionSpelled` has this for every step of
the automaton, `SpelledIsUrl` that in an accepting state it is an address, and `BeforeMoves` and `BeforeGrows` that the cells
stay those before the cursor when a line wraps, the screen scrolls and a character is written. Every link that was found shows
characters of its address in order, on the normal screen with its history or on the other screen and not on both (`LinksShown`, `OnOne`). A reference that comes or goes
changes no address (`KeepsUrls`), and the rest takes cells away or moves rows together (`Fewer`, `FewerShows`), so what is to show
is only that new links are right: those that `DetectHyperlink` makes (`FoundShown`), and those that OSC 8 names, which the property
is not about but must not be taken for one that was found (`LinkNamed`). At last the order of cells on the screen is that of `FlattenSeq` (`CellsInOrder`), and what was picked from
the address in order is what the greedy `IsSubsequence` finds (`PickedIsSubsequence`). `LinksShowText` follows.

`SelectionProofs`, for any sizes, limit of the history and words: `SelectionInv` (`SelectionInvariant`). `OnThisScreen` becomes inductive with what may be in the queue of events,
that a selection which is made while `clear` waits there is cleared with the others, and that one which was cleared in the middle of a switch stays cleared until the swap,
as selecting needs the lock (`SwitchInv`): the proof goes through every handler that could start one.
`DraggedCopied` is about two characters, which the code does not know: it keeps places, and rows move under them. So rows are told apart by their numbers
wherever they are (`RowsDiffer`: history, screen and other screen have none in common and a new one is above all), and while the rows of a drag are there, the cell at
`from` is the one that was pressed, and the selection goes from there to the cell the mouse last came to (`DragInv`). A line that scrolls a row from the
screen into the history leaves its place in the contents as it was, unless the history is full or kept out, and then the drag is not `kept`.
What `getSelectionContents` collects between two places, row by row and by columns, is then the text between the two cells (`CopiedBetween`). The assumption has the sizes positive
and the limit of the history a number. `AutoScrollEnds` is liveness and stays with TLC.

`SequenceLemmas` is what these proofs rest on where the code loops. The folds of the community modules are recursive
functions on sets, and the induction theorems of the library are out of reach (they take an operator), so a fold is
followed by its least counterexample: of the lengths at which it does not keep a property there would be a least one, and
the step before it did (`FoldExists`, `FoldKeeps`). What `FlattenSeq` holds (`FlattenSeqRange`, for the preorder walk over the widgets) and the lines that a
resize joins one row at a time (`LogicalLinesUnrolled`) are proved like this, and that what is flattened after something else is
flattened separately (`FlattenConcat`), where `\o` goes by the name of `Cat`: the provers expand it to functions, in which they do not recognize laws like
`CatAssociates`.

Only model-checked: liveness under fairness, which is out of the prover's reach, and all of `Painting`, `WidgetTree`, `InputReaders`,
`AnsiRenderer`, `Bypass`, `Json` and `Settings`, whose parsers and walks over trees are `RECURSIVE` operators, which the prover cannot be
used with.

## Plan

What is left would be, in this order: X11's selections (requests and notifications that cross); characters of two columns on the terminal.

## Not modelled

- **Terminal**: characters of two columns, line drawing beyond the switch of the set, the cursor's looks, the contents of DCS; an address
  that is being recognised while the terminal is resized.
- **Window**: zoom, titles and icons, notifications, and more than one session, which the program never has; events of `Pager`; what dialogs say.
- **Timer**: the reference count of its data. `Data::detach()` decrements it twice and threads that end by `return` never detach: it is
  wrong on every path (a timer started once is freed by `~Timer` while its thread still uses it), so there is no property to keep.
- **Native windows**: X11's selections, Qt, DirectWrite, fonts, the start of the program: they live in libraries and an event loop of theirs.
  Windows: the branches of `LocalPTY`, the pipes of the bypass, the detection of shells.
- **Colours**: blending; a colour is opaque, translucent or none.
- **ANSI renderer**: its resize in a signal handler, which would lock `eventQueueGuard_` against itself (ansi_renderer.h:37).
- **tpp-server**, whose loop never ends; **build tools**, icon conversion, packaging; strings, processes, telemetry, which are
  sequential utilities.

Hazards that no model has: a full disk in a transfer (remote_files.cpp:41); a local file that gets shorter while
it is sent (main_ropen.cpp:145); a width of zero (ansi_terminal.cpp:547); a key that comes after the close (terminal_window.h:104).
