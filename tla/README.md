# A TLA+ verification of KWinFT

KWinFT is a Wayland compositor and X11 window manager. This directory models
the parts of it in which the order of events decides: the render loop, the DRM
backend with hot plugging, DPMS and session switches, the bridge of selections
and drags between Wayland and Xwayland, the geometry of xdg-shell windows, and
virtual desktops with the focus that moves over them. `PROJECT.json` lists the components,
the runs, what each definition models (`map`), the hazards and the theorems.

KWin is one thread around an event loop. In every module an action is therefore
one handler from its first line to its return, with everything it calls, and
the interleavings are those of handlers, of the kernel, of the X server and of
the clients.

## 1. Inventory

| component | state | operations | hard behaviour |
|---|---|---|---|
| render loop (`render/wayland/output.cpp`) | per output: repaint region, delay timer, swap pending, idle | add_repaint, set_delay_timer, run, swapped | several outputs, windows on more than one, timers against swap events |
| Wayland compositor (`composite.cpp`) | the map of render outputs | schedule_repaint, addRepaint, swapped, outputs added and removed | outputs that vanish with a frame in flight |
| window repaints (`toplevel.cpp`) | damage, repaints, repaint_outputs, readiness | addDamage, addRepaint, resetRepaints | the same region is due on several outputs |
| presentation (`presentation.cpp`) | surfaces locked per output | lock, presented | which output answers a frame callback |
| DRM backend (`drm_backend.cpp`, `drm_output.cpp`) | outputs, enabled outputs, page flips pending, active session | updateOutputs, enableOutput, present, atomicFlipHandler, activate, deactivate, destructor | page flips of removed outputs, lost frames, counters |
| platform DPMS (`platform.cpp`, `abstract_wayland_output.cpp`, `dpms_input_event_filter.cpp`) | DPMS mode, pending mode, input filter, outputs-on cache | requests, checkOutputsOn, turnOutputsOn | failing commits, off deferred to a page flip, stale cache |
| clipboard bridge (`xwl/clipboard.cpp`, `selection.cpp`, `selection_source.cpp`) | one Wayland or X source, timestamp, pending disown | checkWlSource, XFixes and selection events, targets | two selection owners, events that arrive late, focus |
| transfers (`xwl/transfer.cpp`) | chunks, property flags, notifier, timeout | read, write, property deleted or set, timeout | three processes, partial reads and writes, INCR protocol |
| drag and drop bridge (`xwl/dnd.cpp`, `drag_*.cpp`) | current and old drags, visits, cached position, proxies, data requests | move, XDND messages, drop, finish, timeout | two protocols for one drag, clients that answer late or never |
| Xwayland process (`xwl/xwayland.cpp`) | process, ready pipe | start, crash, exit | start-up order |
| xdg-shell windows (`win/wayland/window.cpp`, `xdg_shell.h`) | pending configures, wanted, synced and shown geometry | configure, acknowledge, commit, map, unmap | acknowledgements out of step with requests |
| X11 windows (`win/x11/*`) | sync counter and request, pings | map, configure, sync alarm | clients that stop answering |
| geometry, maximising, full screen (`win/*.h`) | pending geometry, blockers, restore geometry, drag | maximise, tile, full screen, move, resize | modes on top of modes, restoring |
| virtual desktops (`virtualdesktops.cpp`, `tabbox/desktopchain.cpp`) | desktops, current, grid, recent desktops | create, remove, navigate | numbers that move up when a desktop goes |
| activation, focus chain (`activation.cpp`, `focuschain.cpp`, `workspace.cpp`) | active window, chains per desktop | activate, close, minimise, send to a desktop | windows and desktops that go while something names them |
| stacking, transients, remnants (`layers.cpp`, `win/transient.cpp`, `win/remnant.cpp`, `group.cpp`) | orders, leads, reference counts | raise, lower, restack, delete | cycles, constraints |
| input (`input.cpp`, `pointer_input.cpp`, `touch_input.cpp`, `keyboard_*.cpp`) | focus per device, filters, repeat timer, modifiers | events, focus updates | windows that go under the pointer, timers against releases |
| screen edges, gestures (`screenedge.cpp`, `gestures.cpp`) | reservations, timestamps, active gesture | reserve, check, trigger | thresholds, re-entrance |
| colour correction (`colorcorrection/manager.cpp`) | mode, timers, inhibitions, times of the day | configure, reset timers, clock skew | three timers, clock changes |
| effects (`effects.cpp`, `effectloader.cpp`) | chain, load queue | load, unload, reconfigure | asynchronous queue |
| session (`seat/*`) | control, active, devices | D-Bus replies and signals | asynchronous replies |
| libinput (`libinput/*`) | event queue of a thread | read, process | thread and queue |
| idle inhibition, rules, placement, session management, internal windows, decorations, switcher, scripting, platforms other than DRM, scenes, configuration modules, plugins | see `PROJECT.json` | | |

How the parts interact: clients damage windows, `Toplevel` records it and asks
`WaylandCompositor` for a repaint; the compositor arms the timers of the
outputs the window lies on; a timer paints a frame and hands it to the backend;
the backend posts it and reports the page flip through
`WaylandCompositor::swapped`, which starts the timer again. The backend adds
and removes outputs, switches them with DPMS and loses the device while the
session is inactive. The selection bridge listens to the seat, to the activated
window and to X events, and starts a transfer object per request. The drag
bridge plays the target of a Wayland drag and the source of an X drag, one
visit per window under the pointer. Window management asks a window for a
geometry; the window asks its client and shows what the client commits. Virtual
desktops announce their changes, on which the workspace activates windows from
the focus chain.

What makes them correct: no damage and no wakeup is lost and the loop comes to
rest; every awaited swap has a page flip, no flip reaches a deleted output, a
dropped frame is painted again, dark outputs can be woken, shutdown ends; the
clipboard has one source, X clients see nothing while they have no focus, and the
last copy wins; data arrives whole, transfers
end and never wait for each other for ever; a drop falls where the button was
released and every drag ends; a window shows in the end what was asked of it
last and gets its old geometry back; the focus is on a window that is shown,
on the desktop that is current, and nothing names a window or desktop that is
gone.

## 2. Modules

| module | models | run modules |
|---|---|---|
| `RenderLoop` | render loop, repaint scheduling, window repaints, frame callbacks | `MCRenderLoop` |
| `DrmBackend` | extends `RenderLoop` (without windows) by the DRM backend and DPMS | `MCDrmBackend` |
| `Clipboard` | selection ownership, both sources, the X server's selection | `MCClipboard` |
| `TransferWltoX` | one transfer to an X client, its source and its requestor | itself |
| `TransferXtoWl` | one transfer to a Wayland client, its source and its reader | itself |
| `ByteStream` | what a transfer promises; both transfers implement it | |
| `DragToX` | drags of Wayland clients over X windows, and the X clients | `MCDragToX` |
| `DragToWayland` | a drag of an X client over Wayland windows, and both clients | itself |
| `GeometryModes` | maximise, tile, full screen, move and resize as functions on a window | |
| `XdgWindow` | extends `GeometryModes` by configure events and the client | `MCXdgWindow` |
| `DesktopGrid` | layout of desktops and navigation, as operators | |
| `FocusChain` | the chains of windows, as operators | |
| `Workspace` | composes `DesktopGrid` and `FocusChain` with activation, windows and desktops | `MCWorkspace` |
| `DrmBackendProofs` | the proofs about `DrmBackend` and about `RenderLoop` | |
| `ClipboardProofs`, `TransferWltoXProofs`, `TransferXtoWlProofs`, `DragToWaylandProofs`, `DragToXProofs`, `XdgWindowProofs`, `WorkspaceProofs` | the proofs about the module each is named for | |

### RenderLoop

A region is a set of cells; outputs cover cells and may overlap; a window has a
visible region and repaints in global coordinates. Variables have the names of
the members they stand for. `owed` is a history variable: what changed on an
output since the output last painted it. Client and window actions
(`AddDamage`, `AddWindowRepaint`, `SetReadyForPainting`, `DoSetGeometry`,
`CompositorAddRepaint`) record and schedule; `RunBlocked`, `RunIdle` and
`RunPaint` are the three outcomes of a timer event; `Swapped`, `OutputAdded`
and `OutputRemoved` come from the backend. The erasing loop of `prepare_run`
over unpaintable windows is modelled as it runs with libstdc++'s deque
(`KeptWindows`): of consecutive unpaintable windows every second one stays.

Left out: dry runs and elevated windows, the values of the delays, presentation
feedback, locking the screen while it runs (`ScreenLocked` is a constant),
stopping and starting the compositor.

### DrmBackend

One element of `Output` is one `DrmOutput` object; `ConnectorOf` says which
objects are the same connector plugged in again. `Scenarios` are the sets of
kinds of external events that a run explores; a behaviour picks one at the
start (`events`). A frame is posted when `CanPresent`; the
page flip comes at any later time while the session is active;
`DrmInit` has `Windowless`: no window is stacked and
the backend has swap events. `AtomicFlipHandler` contains `DrmOutput::pageFlipped`, the deletion of torn
down outputs, a deferred DPMS off with a commit that may fail, and
`WaylandCompositor::swapped`. Two outcomes end the program: the exception of
`outputs.at` and the assertions of `enableOutput`. Commits of frames are assumed
to succeed. Left out: legacy mode setting, QPainter and EGL streams, cursors,
mode and transform changes.

### Clipboard

`owner`, `ownerTime`, `time` are the X server's; what the server and the X
clients do reaches KWin in the queue `events`. `Claim` and `Disown` happen in
the server at once; the server ignores a disown whose time is older than the
last change or in the future, and `m_timestamp` starts with any value because
it has no initialiser. `CheckWlSource` is `Clipboard::checkWlSource` with its
four outcomes. `Racing` names the actors that may act while events are on their
way. `latest` is a history variable: who copied last, as far as the bridge
accepts it. Mime types are members of a small set; the conversion of atoms to
mime types is left out. A `SelectionNotify` whose property was read before is
`StaleTargets`.

### TransferWltoX and TransferXtoWl

The data are the numbers 1, 2, ..., `length`, so order, loss and duplication
show. `ChunkSize` stands for `s_incrChunkSize`; units that `resize` left in a
chunk are `Junk`. `SourceAhead` restricts when deletions of the property reach
KWin. In `TransferXtoWl` the pipe has a size and is blocking or not, as the
Wayland client made it; a blocked `write()` stops all of KWin's handlers, the
timeout included. Transfers end in `phase`; the memory errors after the end
(writes to the deleted object) are outside the models. The two URL receivers,
a second `SelectionNotify` and a failing property request are left out.

`ByteStream` is the abstract specification of both: output is a growing prefix
of the input, and the end is told only when nothing is missing. The mapping
takes what the pasting client has got for the output. In `TransferWltoX` the
end is what the requestor believes, in `TransferXtoWl` a regular end with an
empty pipe.

### DragToX and DragToWayland

`DragToX`: `visit` is the `Xvisit` of the current drag, `old` holds the visits
of `m_oldDrags`. The operators on a visit (`SendPosition`, `HandleStatus`,
`Drop`, ...) return it with the messages it sent; actions put those into `toX`.
KWin gets the enter, the actions and the drop of its own data device through
`wl`. `target` is the X client of a window with what it was told. Assumed: the
events of KWin's own connection are handled before the next input (`Prompt`),
and, with `Revisit` false, a window is entered again only when its client has
answered what it was sent before, because answers carry no drag.

`DragToWayland`: one drag from the claim of the selection to its deletion.
`phase` says whether it is `m_currentDrag` or in `m_oldDrags`; visits have the
flags of `WlVisit`; `wl` carries the types coming back from the server and the
performed event. The X client sees the proxy that is mapped, sends enter,
positions, leave and drop, gives up, or stays silent; the Wayland client chooses
an action and asks for data at any time. Assumed: an enter that is on its way
is handled before the pointer moves on.

Left out of both: types (only their number), windows that close under the drag,
touch drags, and drags of the two directions at the same time.

### GeometryModes and XdgWindow

A frame has an extent on each axis and length 0 stands for an invalid size, as
in the code. The handlers of `win/*.h` run under a geometry blocker, so they are
functions from the window before to the window after; `Release` is the end of
the blocker, with `setFrameGeometry`, which sends a configure event, moves the
last one or sets the geometry at once. The client acknowledges any event it was
sent, passing over the earlier ones, and commits with a size of its own.
`events` is the scenario: the kinds of requests in this behaviour, and the
conditions of the properties name the kinds they exclude. Some configure events
are sent without being recorded (`SendUnrecorded`). `before` and `unsized` are
history variables: the last frame in normal mode, and whether the window was
asked, since it is mapped, for a size that is not valid. `PositionApplied`
excepts the latter (section 4). Left out: popups,
decorations, several screens, rules, size limits, keyboard moves.

### Workspace

`s` holds the whole state; the handlers call each other through signals, so
each is an operator from state to state and an action applies the chain of
calls a user action or client request starts. `DesktopGrid` and `FocusChain`
are operators on it. Desktops are identities, their numbers their places in the
sequence. `shifted` is a history variable: a desktop was inserted or removed
before the last. The loops over clients and over removed desktops are folds
(`DesktopRemoved`, `DesktopsRemoved`). A window that is being destroyed is
`Closed` while `window_removed` runs: it still exists, has no content and takes
no focus. Removing a desktop from under a window that was created and
not yet shown is left out (`EarlyRemoval` false, see section 4). Left out: X11
windows, transients, several screens, activities, focus stealing prevention,
focus policies other than click to focus.

## 3. Runs

| run | shows | bounds |
|---|---|---|
| `render_loop_safety` | no lost damage, no lost wakeup, no dangling output | two overlapping outputs that come and go, three cells, a Wayland window that moves between outputs and an X11 window on both |
| `render_loop_live` | every change is painted, the loop comes to rest, frame callbacks are sent to a window within one output | the same outputs, one window that moves between them and over both |
| `drm_backend` | who waits for a flip gets it, dark outputs can be woken, no flip to a deleted output, a dropped frame is painted again, the destructor ends | two connectors, one plugged in twice; four sets of hot plug, disable, DPMS with two off modes, failing commits, session switches and quit |
| `drm_flip_after_unplug` | **violation**: unplugging with a frame in flight makes `outputs.at` throw | two outputs, hot plug |
| `transfer_wl_to_x` | implements `ByteStream`, no stall, transfers end, data delivered | chunks of two units, up to seven units: zero to four chunks, exact multiples included |
| `transfer_wl_to_x_hasty` | **violation**: a fast requestor receives a partly filled chunk | the same, deletions at any time |
| `transfer_x_to_wl` | implements `ByteStream`, transfers end, data delivered | up to five units through a pipe of two: partial writes in every position |
| `clipboard` | one source, shielding, ownership, last copy wins | two devices, two X clients with different targets, X clients racing, five changes of owner, three events in the queue |
| `drag_to_x` | the drop falls at the pointer, drags end | two drags with three positions and one, windows of version 5, of version 1 and without XDND |
| `drag_to_wayland` | the drop goes to the window under the pointer, data is freed after the transfers, the drag is deleted | two windows, two visits, two types, two requests |
| `xdg_window` | no configure is left behind, what is shown is what was asked, the old geometry comes back, full screen arrives | six configure events in haste, eight when each is answered first; thirteen scenarios of up to three kinds of requests |
| `workspace` | nothing names what is gone, chains follow the windows, navigation returns, switching and activating set the focus | two windows on two desktops, one window on three desktops with one to three rows; windows and desktops symmetric |

Two outputs and two windows are enough for the render loop because what an
output passes on to others and what a window keeps for others is decided
pairwise; the proofs cover the rest. Two connectors of which one is plugged in
twice give an object that outlives its connector next to its successor. Two
drags are an old one and its successor; two visits are the one left and the one
entered, of the same window or another. Six configure events are enough to
have three on their way while an earlier one is acknowledged. Three desktops in
two rows are the smallest layout with a hole. Three
events in the queue hold KWin's own claim, a foreign claim and an answer at
once. The bounds on time, queue and length are guards of actions of the peers
and named in the modules; `SwitchBound` caps the counter of page flips from
below.

Deadlock is checked in the runs of the render loop, where timers can always be
armed again, and in that of the workspace. The other systems really stop: the
transfer or the drag ends, the backend exits, the bounds are used up.

Fairness. `RenderLoop!Fairness`: an active timer fires and a posted frame is
swapped. `DrmFairness`: timers fire, the kernel delivers page flips, an
inactive session becomes active again, the waiting destructor looks at its
condition. Transfers: KWin's event loop handles what is ready (`KWinFair`,
`WF_vars(Handle)`); fairness of the timer and of the peers is a premise of the
property that needs it, since a peer may really stop and a delivery must not
depend on the timeout. `DragToX!Fairness`: KWin handles what reaches it and X
clients are alive, since the code has no timeout in this direction.
`DragToWayland!Fairness`: KWin handles what reaches it, the timer fires and
transfers end, by their own timeout if need be; nothing is assumed of the
clients. `XdgWindow!Fairness`: the client acknowledges and commits, which an
unresponsive client would not do; its window rightly stays as it is then. No
fairness is assumed of clients in the render loop.

## 4. Findings and deviations

The two violations above are findings in `PROJECT.json`. While modelling, the
sequences below showed up too. No run demonstrates them; where a property is
checked only without one of them, its statement or the module's comment names
the exception.

Render loop and presentation:

- A window that moves off all outputs schedules its repaint by the new visible
  rect (`composite.cpp:822`), so no output is armed and its old image stays
  (`RepaintScheduled`; `NoLostWakeup` and `EventuallyPainted` except it).
- The filter loop of `prepare_run` (`render/wayland/output.cpp:120`) keeps
  windows that are not ready or should be hidden behind the lock screen
  (`KeptWindows`).
- Frame callbacks belong to the output with the largest share of the window
  (`presentation.cpp:120`), repaints to the outputs that are damaged. A window
  that spans two outputs and is damaged only on the other one waits for its
  callback until something is drawn on the first. `FrameCallbackDone` is stated
  for a window while it lies within one output (`OnOneOutput`); the run lets the
  window move between one output, the other and a place over both, and without
  the condition TLC finds the waiting client.

DRM backend and DPMS:

- `updateOutputs` overwrites `m_enabledOutputs` with all connected outputs
  (`drm_backend.cpp:618`): a disabled output that is enabled after a hot plug
  meets the assertion of `enableOutput` (the phase `assert_enabled`, at which
  behaviours of the model end). No property claims that the list is right.
- `checkOutputsOn` never sets `m_outputsOn` to true again
  (`platform.cpp:534`): after DPMS off and on and an unplug in between,
  composition waits for the next change of outputs. The model has the cache and
  the early return; no property claims that the cache is fresh.
- An output that is disabled and enabled again while its flip is in flight
  drops its first frame (`drm_output.cpp:849`), which nobody repaints;
  `NoLostFrame` is checked without disabling.
- A session switch with a flip in flight resets `m_pageFlipsPending` to zero
  (`drm_backend.cpp:176`); the flip counts it down to -1 and the destructor
  waits for ever. `ShutdownDone` is checked without session switches.

Clipboard and transfers:

- A transfer whose length is a multiple of the chunk size sends two properties
  of length zero and leaves the second on the requestor's window.
- `m_disownPending` takes the next notify for that of the disown
  (`selection.cpp:108`). If the focus leaves Xwayland before the notify of
  KWin's own claim is handled, the two are confused. The run of the clipboard
  lets X clients race with the events on their way, not the focus and not the
  Wayland devices.
- A request that is handled after KWin has dropped its Wayland source is
  refused only when its time is before the last change; otherwise it is not
  answered at all (`selection.cpp:245`): a Wayland device
  that clears its selection, or the focus that leaves Xwayland, while the
  request is queued leaves the X client waiting. That every request is answered
  is therefore not claimed.
- A late answer of an earlier owner of the X selection is taken for the offers
  of the current one (`selection_source.cpp:300`); `SourceIsOwner` speaks of
  the owner, not of the offers.

Drag and drop:

- An enter that reaches the drag after the pointer has left asks
  `setDragTarget` with no visit (`drag_x.cpp:258`); excluded by the assumption
  on enters in section 2.
- Requests of the target while it hovers count as transfers of the drop: once
  they have ended, the drop ends the drag at once and does not wait for the
  first request of its own (`drag_x.cpp:273`).
- A new claim of the drag selection deletes the X source while an old drag may
  still use it (`dnd.cpp:139`, `drag_x.cpp:476`); the module follows one drag.
- A window that was entered again takes answers meant for the earlier visit
  (`dnd.cpp:173`), so two drags that meet at a window mix their sessions.
  `Revisit` true lets them meet; `DropAtPointer` and `DragsEnd` are checked with
  `Revisit` false, and that sessions are kept apart is not claimed.
- `moveFilter` looks at `target->control` for a null target too
  (`drag_x.cpp:174`): with nothing under the pointer the code dereferences a
  null pointer. In the model `None` is a window of an X client; the path with
  no window at all is left out.
- A target that closes under the drag stays in `m_target` or `m_visit`; windows
  do not close in the modules.

xdg-shell windows:

- Configure events that are sent without being recorded (`xdg_shell.h:274`) can
  be acknowledged; the recorded ones of earlier serials then match nothing and
  stay in the list without being applied (`window.cpp:511`).
- `handle_maximize_request` sends the position of the last configure once more
  (`xdg_shell.h:953`). A window that is tiled after that keeps the position it
  is shown at as the one to restore, not the one it was asked to have
  (`move.h:595`). `ReturnsToNormal` excepts it (`repeat`); looking for its
  inductive invariant, TLC found the behaviour in a scenario the run does not
  have.
- When a restore geometry was lost the window is asked for an invalid size, and
  the next commit, also one for an earlier configure, overwrites the frame that
  was asked for (`window.cpp:543`): the window stays where the earlier configure
  put it. Moving, tiling and maximising a window before it answers gets there.
  `PositionApplied` excepts it (`unsized`); the proof of it failed without.
- A window that was asked to be full screen and has not answered is not movable
  (`move.h:1076`); an interactive move goes to the maximise area instead. The
  model moves only windows that are not, and are not to be, full screen
  (`MoveStep`).
- A maximise between the first commit and the first buffer is overwritten by
  the placement when the window is mapped.
- Toggles look at the mode the client has acknowledged, not at the one asked
  last (`useractions.cpp:1087`, `move.h:607`), so a second toggle before the
  answer asks for the same again; a move or resize before the answer to a
  maximise ends in a small window that counts as maximised.
- A window maximised on one axis that goes through full screen keeps the extent
  of the screen on the other (`fullscreen.h:47`), and after full screen,
  maximise and restore the restore geometry is that of an earlier time. Tiling
  and maximising on one axis leave the other axis tiled after the restore.
  `ReturnsToNormal` names the combinations it is about.

Workspace:

- Removing a desktop before the current one, or the current one, changes the
  current desktop without a signal when the number stays the same
  (`virtualdesktops.cpp:525`), although `virtualdesktops.h:406` says "Signal
  emitted whenever the current virtual desktop changes".
- The chains of windows belong to numbers (`focuschain.cpp:57`), so after an
  insertion or removal in the middle each holds the windows of another desktop.
  `ChainsMatchDesktops` excepts behaviours in which numbers have moved
  (`shifted`).
- A toplevel that was created and not shown is not yet in `m_allClients`, so it
  keeps the pointer to a desktop that is removed meanwhile
  (`workspace.cpp:238`; `EarlyRemoval` true shows it).
- A window on all desktops is not in the chains of desktops created later.
- Sending the active window to another desktop leaves it active there.
- Removing the current desktop activates none of the windows moved off it.
- `DesktopChain::resize` fills up with desktops that are in the chain already.
- A window that is unmapped and unminimised counts as shown.

## 5. Proofs

TLAPS proves, for every value of the constants under the named assumptions:

- `DrmBackendProofs`, about `RenderLoop` with any windows: `TypeOK`,
  `NoDanglingOutput`, `TimerOrSwap`,
  `NoLostDamage`, `NoLostWakeup`. `RefInv` (the second and third together) is
  inductive given `TypeOK`. Damage needs one strengthening, `OwedInside`: an
  output is owed only cells of its own geometry, so that a full
  repaint after a hotplug records everything owed. `NoLostWakeup` is inductive
  given `TypeOK` and `RefInv`; a window whose visible rect has left every
  output is excepted in its statement.
- `DrmBackendProofs`, about `DrmBackend`: `FlipTargetAlive`, `FlipAwaited` (from its two parts
  `FlipForSwap` and `OffPendingHasFlip`), `FilterWhenOff`, `NoLostFrame`.
  `LifeInv` adds how
  the sets of outputs nest: timers and pending swaps belong to composited
  outputs; while running, those are enabled, enabled ones are connected,
  connected ones are not torn down; freed ones were torn down; while quitting
  nothing is composited. `DpmsInv` adds that a pending mode On is the actual
  mode, and that an output not yet plugged in is on. `FrameInv`: without
  disabling, an output with a flip in flight waits for its swap event, so no
  frame is painted meanwhile and one is dropped only by an output that is off
  or an inactive session; a dropped frame of an output that is on again has its
  whole output to repaint.
- `ClipboardProofs`: `OneSource`, `Shielded`, whatever actors race. `SourceInv`
  adds that the activation handler is connected while a Wayland source exists;
  without it a change of focus would not be seen. `OwnsForSource` and
  `SourceIsOwner`, when only X clients race
  (`Racing \subseteq {"x11"}`, see section 4 for the focus and the devices): `QueueInv` says by
  what KWin is behind the X server, namely the notifies in the queue. Its own
  claim is the first of them, the last one tells the owner, requests are there
  only while KWin has a source, and a pending disown has its notify at the head.
  `LatestWins`, when moreover every X client offers a target: `LatestInv` adds
  that an accepted X client has offered, was asked, or has its answer on the
  way, and that the seat's selection has left the Wayland device by then.
- `TransferWltoXProofs`: `TypeOK`, `NoStall`, for every chunk size and length,
  with deletions at any time. `FlagInv` says whose turn it is: before
  `startIncr` the pipe is open and the X side untouched; afterwards either the
  property is set or exactly one deletion is on its way; an empty chunk is the
  last one and comes after the end of the file; the requestor is done only when
  nothing is left. `ImplementsStream`, the refinement of `ByteStream`, when
  deletions come only with the data for them there (`SourceAhead`; the run
  `transfer_wl_to_x_hasty` shows that it fails without): `DataInv` says that
  what was taken, what is in the property and each chunk are runs of
  consecutive units that continue one another up to what was read.
- `TransferXtoWlProofs`: `ImplementsStream`, the refinement of `ByteStream` by a
  transfer to a Wayland client, for every length, pipe size and cut into
  portions. `StreamInv` lists the eight stages of a running transfer. What was
  read, what is in the pipe, what is still to be written and what is in the
  property are runs of consecutive units, and each stage says where they meet;
  a completed transfer has written everything. A step of the reader maps to
  `Deliver`, so does the end, and every other step to a stutter.
- `DragToWaylandProofs`: `FreedAfterTransfers`, `TargetUnderPointer`. `DropInv`
  says that the X client enters a proxy once and before it says anything else
  about it, and that a finished visit is unmapped, gets no further enter, and
  was left unless it was dropped on. Without it, a late enter could make a visit
  that was left look like one that was dropped on. `OfferInv` pairs the offers
  awaited with those on their way; `EnteredInv` says that a client that goes on
  with the drag has entered the window of the visit or is about to.
- `DragToXProofs`: `DropAtPointer`, when a window is entered
  again only after its client has answered (`Revisit = FALSE`, section 4).
  `DragInv`: each window is in a session with the one visit that is for it,
  current or old, and a session is in one of five stages, entering, asking,
  settled, dropping and finishing. A stage says what is in the queue to the
  window, what is on its way back, what the client believes and what the visit
  has cached.
- `XdgWindowProofs`: `TypeOK`, `NoneOverdue`, `ShownAsAsked`, `ReturnsToNormal`,
  for any number of configure events. `XdgInv`: the serials of what is sent and
  of what is pending are in order, what waits for a later acknowledgement has
  been sent, and the last pending configure, or else what is shown, has the
  modes that were synced. `PositionInv`: the last pending configure, or else
  what is shown, is at the position asked for, and a size that is not valid is
  one that was never asked for of a mapped window. `AreaInv`: when the client
  was told last that it is maximised, the maximise area is what the last
  configure asks for and what every event since then says, so whichever of them
  is acknowledged the commit fills it. `CalmInv`, for `ReturnsToNormal`: in
  behaviours in which requests are of one kind and answered before the next, a
  window is unborn (nothing sent), young (asked for its size once) or grown. A
  grown window has at most one configure on its way, with the frame that was
  asked for; each event the client may still draw for tells it the size of that
  configure, or the size that is shown if it was sent before, so no commit
  disturbs the frame; and out of normal mode the restore geometry is the frame
  `before`. Which leftover restore geometry is harmless in normal mode depends
  on the kind (`Shaped`): maximising overwrites it, tiling and full screen reuse
  a valid one, so there it must be empty.
- `WorkspaceProofs`: `TypeOK`, `ReferencesAlive`, `ChainsMatchDesktops`,
  `NavigationReturns`, `SwitchActivates`, `ActivationSucceeds`, for any number
  of windows, desktops and rows, when no desktop is removed from under a window
  that is not yet in `m_allClients` (`EarlyRemoval = FALSE`; section 4 has what
  happens otherwise). `Inv` is inductive. Its part `Sound` says that desktops
  are distinct and the current one is among them, that each window is on
  distinct desktops that exist, that a mapped window is in `m_allClients` and
  one that takes the focus in the list of used windows, that every list has
  existing windows and each once, and that the active window is shown; its part
  `Matches`, required unless `shifted`, that `FocusChain` and the switcher have
  the number of the current desktop and that each chain has the windows of its
  desktop. `ReferencesAlive` alone is not inductive: with a window twice in a
  chain, removing it once would leave a reference to it, and a window on a
  removed desktop that `m_allClients` did not list would stay there.

  The handlers are operators that call one another, so the proof goes operator
  by operator: a lemma says of each what it keeps of the state it is given, and
  the step of an action cites the lemmas of what it calls. In between, less than
  `Sound` holds: a window that changes its desktops is not yet in the right
  chains, windows are still on a desktop that is being removed, and the chains
  still have a window that is being destroyed. The lemmas say which window is
  excepted (the parameter of `Listed` and `ChainsMatch`) and when it no longer
  is. What a loop leaves is proved with the least number of rounds after which
  it would not hold (`Least`). `NavigationReturns` is arithmetic: a grid has the
  desktop number `row * width + column + 1` in each cell, the last cells of the
  last row may be empty, and a step that meets an empty cell goes on in its
  direction until it meets a desktop.

The argument is the same each time: an inductive invariant, one step per
action, and the property from the invariant. TLC also checked the inductive
invariants named here on the instances of the passing runs, or on ones like
them, before they were proved. A first attempt at `PositionApplied` failed at
the commit of a window with an invalid size; with more configure events than
the run has, TLC found the behaviour, and the property now names the exception.

Assumptions on constants: `Stacking` is a sequence of windows, outputs have
sets of cells, windows sets of places, the chunk size is positive, the pipe
holds at least one unit, the areas of the screen are valid frames, clients
choose positive sizes, names of parties and the value `None` are distinct from
windows, actions and numbers. TLC evaluates all of them in the runs. The DRM
theorems are about a composition without windows (damage comes straight to the
outputs) and a backend with swap events, as the DRM backend is: `Windowless`, a
conjunct of `DrmInit`. The theorems of `WorkspaceProofs` state
`EarlyRemoval = FALSE`, those of the other modules the restrictions named
above.

Only model-checked:

- liveness (`EventuallyPainted`, `Quiescence`, `FrameCallbackDone`,
  `ShutdownDone`, `TransferEnds`, `Delivered`, `AskedIsShown`, `DragsEnd`,
  `DragDeleted`), because fairness and ENABLED are out of the prover's reach;
- what `UnpaintableRun` computes, a recursive function that the proofs of the
  render loop need only the type of;
- that the two violations are reachable.

## 6. Plan

In this order:

1. `TransferTimeouts`: several transfers of `Selection`, their shared timer,
   removal while iterating, property events of one window for two transfers.
2. `UrlReceiver`: the line filters of the URL receivers against a reference
   definition over bounded inputs.
3. `X11Sync`: sync requests, alarms and timeouts of X11 windows, on
   `GeometryModes` as `XdgWindow` is.
4. `CompositorState`: start, stop, suspension reasons, the compositor
   selection of X11.
5. `Stacking`: the constrained order as operators against a reference, and
   transients in `Workspace`.
6. `NightColor`, `EffectLoader`, `ScreenEdge`, `KeyboardRepeat`,
   `LibinputQueue`.
7. In `DrmBackend`: failing frame commits, mode changes with rollback.

### Not modelled

Most of the repository is drawing (scenes, effects, GL utilities), user
interface (switcher, decorations, configuration dialogs), bindings to script
engines and glue to frameworks outside the repository. Its state is either
none or one value per widget, and what could be wrong in it (pixels, shaders,
layout, settings read and written) is nothing a state machine would show. The
models cover the parts in which the order of events decides; they are a small
share of the lines of the repository, and would remain one if the plan were
finished. `PROJECT.json` gives the reason for each component.
