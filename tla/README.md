# A verification project for Contextful

TLA+ models of the parts of this repository whose correctness depends on
interleaving, ordering and failure: the control plane that issues and revokes
capability tokens, the sync relay, the browser's room transport, the web app with
its access store and its document console, the editor agent that answers in
documents, the rich-text editor with its own sync stack, and the desktop app's
supervisor. TLC checks them on small instances;
TLAPS proves the safety of the control plane, of the relay, of the access store,
of the document console, of the editor agent and of the supervisor, that the
transport implements the shared document, and that the editor's stores lose
nothing they took while its sockets leave nobody waiting and send nothing back,
for every value of their constants; and that no gesture, undo or redo of the
rich-text editor leads to a document that is no tree or uses a name twice. What
is only model-checked is what the editor's gestures do beyond that, and
liveness.

The source is the reference: every definition that stands for code is listed
with its lines in `PROJECT.json` under `map`. In the modules, definitions
introduced by a comment starting with "Mutant" are deliberately wrong variants
of the definition that follows them. They are used nowhere; substituting one
shows that a property really depends on the code it is about.

## 1. The system

Contextful is a local-first workspace: people and their agents edit shared
documents, and ask a "brain" of synthesized memory cards, under capability
tokens that owners mint and delegates narrow.

| part | source | state | operations | hard because |
| --- | --- | --- | --- | --- |
| capability tokens | `crates/sync/src/access/` | the token itself: an authority block and a chain of attenuations | sign, append, verify, derive the scope | a token can only be narrowed; siblings share blocks |
| control plane | `crates/sync/src/controlplane/`, `main.rs` | the files of `~/.contextful`: keys, registry, tokens, two revocation lists, audit log | `seed`, `mint`, `grant`, `revoke` | processes without a lock rewrite whole files and may die |
| relay | `crates/sync/src/sync/server.rs`, `store/docs.rs` | rooms (broadcast channels), one handler per connection, one forwarder per subscription, a snapshot per document | HELLO, SUBSCRIBE, UPDATE, SNAPSHOT, AWARENESS, NOTIFY | tasks interleave at every await, with each other and with `ctl revoke` |
| browser transport | `apps/web/app/lib/weaverTransport.ts` | the CRDT document, localStorage, a BroadcastChannel, a WebSocket, timers | hydrate, local commit, import, announce, reconnect, save, dispose | unreliable socket, several tabs per browser, debounced persistence |
| presence | `sync/presence.rs`, `lib/presence.ts` | the table of peers | heartbeat, prune | stale peers |
| web access store | `lib/accessStore.tsx`, `routes/delegate.tsx`, `routes/inbox.tsx`, `packages/protocol` | a token per principal, the status of each request, the delegation form | delegate, approve, deny, reset; query | two pages change the same tokens; a form outlives what it was filled from |
| document console | `components/ConsolePage.tsx`, `lib/weaverRoom.ts`, `lib/demoAgent.ts` | React state, the rooms opened, runs of the demo, simulated peers under a Web Lock | open, switch actor, run a demo, reset, navigate, reload | effects start work that goes on after their cleanup; several tabs |
| editor: document and commands | `packages/weaver/core` | a tree of blocks with marked text, a selection, an undo stack | insert, split, merge, move, convert, mark, group, undo | a gesture is several commands, each of which may throw |
| editor: surface | `packages/weaver/dom`, `weaver/react/src/mentions.tsx` | the DOM selection, a composition, the clipboard, a mention picker | keys, typing, paste, cut, composition, clicks | remote edits land between the tasks of a gesture |
| editor: sync | `packages/weaver/sync`, `weaver/sync-core` | a document, a snapshot and an op log in IndexedDB, a socket that reconnects, the server's room | edit, flush, connect, receive, dispose | deltas with dependencies, two stores per page, failing writes |
| editor agent | `crates/sync/src/agent/editor.rs` | a replica of the document, answered questions, block authors, a gate | scan, answer, deny and notify | answers while others type; attribution; several watchers |
| brain | `crates/sync/src/brain/`, `store/index_db.rs` | an index in SQLite and Markdown cards | ingest, synthesize, daydream, world search, remember | the whole index is loaded and replaced |
| MCP server | `brain/mcp.rs` | none besides the brain | tool calls | serialised in a process, not between processes |
| cron | `crates/sync/src/cron/` | last minute each job fired | tick | jobs run inside the tick |
| sandbox | `crates/sync/src/sandbox/`, `packages/sandbox-bridge` | a registry of sandboxes per room | ensure | one lock held over a call with a deadline |
| connectors | `crates/sync/src/connectors/` | none | pull | translation only |
| desktop supervisor | `apps/desktop/src-tauri/src/supervisor.rs` | the desired state, the child, a pidfile | start, stop, restart, supervise | requests race the loop |
| other | landing site, slides, infrastructure | | | no behaviour of its own to model |

How they interact. The control plane and the relay share only files: the relay
reads a principal's token at HELLO and the revocation lists for every frame,
while commands rewrite them. Browsers and the editor agent talk to the relay
over WebSockets with whole update logs; the relay forwards them opaquely and
keeps the last one as the document's snapshot. Tabs of one browser exchange the
same logs on a BroadcastChannel and share one localStorage entry. The MCP
server, cron and daydream share the brain's index; all of them derive what may
be shown from tokens. The supervisor runs the `sync` binary that hosts them.
The web app keeps one access store for all its pages and mounts a console per
document page; the console's effects attach an editor to a room transport. The
editor's surface turns DOM events into commands, its document is the one the
transport, or the editor's own sync stack, exchanges with others.

What makes each part correct, in a line: a delegate never gets what its
delegator may not give; a revocation that completed holds; keys, registry and
tokens agree; what is granted is recorded; a client sees a room's frames in
order after its snapshot and only of rooms its token covers; edits are neither
invented nor lost while a tab is open, and reach the others; a tab comes back
after a failure; an editing gesture changes what it was aimed at and nothing
else; nothing a page started outlives it; one `sync` process runs while it is wanted and none otherwise.

## 2. Modules

| module | models | extends |
| --- | --- | --- |
| `Capability` | the token algebra of `access/`, as operators | |
| `ControlPlane` | the commands over the files | `Capability` |
| `ControlPlaneProofs` | theorems about it | `ControlPlane`, `TLAPS` |
| `Relay` | the relay's tasks | |
| `RelayProofs` | theorems about it | `Relay`, `TLAPS` |
| `SharedDoc` | what a shared document promises (abstract) | |
| `RoomSync` | the browser transport with the relay it uses | instantiates `SharedDoc` |
| `RoomSyncProofs` | theorems about it, and the refinement | `RoomSync`, `TLAPS` |
| `Access` | the token algebra of `packages/protocol`, as operators | |
| `Scenario` | the demo's principals, views and envelope | `Access` |
| `AccessStore` | the access store and the two pages that change it | `Scenario` |
| `Console` | the document console: rooms, demos, simulated peers | |
| `WebApp` | the pages over both, tabs, reloads | `AccessStore`, `Console` |
| `WebAppProofs` | theorems about the store and the console in the app | `WebApp`, `TLAPS` |
| `Blocks` | the editor's document: an outline of blocks, marked text | |
| `Editor` | the editor's commands | `Blocks` |
| `Keymap` | what each key does | `Editor` |
| `Surface` | one editing surface, a task per action | `Keymap` |
| `SurfaceProofs` | theorems about it, and what its operators keep | `Surface`, `TLAPS` |
| `WeaverSync` | the editor's own stores, bridge and room | |
| `WeaverSyncProofs` | theorems about its stores and its wire | `WeaverSync`, `TLAPS` |
| `EditorAgent` | the agent that answers in a document, with the people and the relay around it | |
| `EditorAgentProofs` | theorems about it | `EditorAgent`, `TLAPS` |
| `Supervisor` | the desktop app's supervision of `sync` | |
| `SupervisorProofs` | theorems about it | `Supervisor`, `TLAPS` |
| `MC_ControlPlane`, `MC_Relay`, `MC_RoomSync`, `MC_WebApp`, `MC_Editor`, `MC_EditorAgent`, `MC_WeaverSync` | instances for TLC | the module they instantiate (`MC_Editor`: `Surface`) |

**Capability.** A token is a record of its authority block and a sequence of
attenuations. What it grants is derived by reading the chain, as `verify_token`
does: a field survives if every block's `check all` admits it, the rows are the
intersection of the groups, the holder is the last delegation, and documents
come from the authority block alone. Row scopes are sets of teams; a Biscuit
revocation identifier is a fresh number.

**ControlPlane.** Each process has a `pc` and the local variables of the command
it runs (`job`). A step is one file access: `fs::write` truncates and then
writes, so a rewrite is two steps, and a reader in between finds an unreadable
file: a missing token, an unreadable registry, an *empty* revocation list
(`read_string_list`), or an empty key file (`TornKey`). `ensure_root_key`'s
`create_new` is `CreateKey`: one process wins, the others go back and load.
`Approve` contains all of `grant`'s refusals in their order and
`approve_request`. A crash stops a command anywhere. Simplifications, stated in
the module: the files `load_capability` reads are read in one step, the
envelope file is left out, and an audit append does not fail.

**Relay.** One handler per connection goes from HELLO's two revocation checks
through the loop: receive a frame, check it (one step reads the names, a second
the identifiers and looks at the rights), then the steps of its kind. SUBSCRIBE
makes the receiver, loads the snapshot, sends it and spawns the forwarder, in
that order; UPDATE broadcasts, truncates, writes.
`rx` is the receiver's part of the broadcast channel, which keeps the newest
`Capacity` messages. A handler that returns leaves its forwarders, and with
them the socket, alive. The lists are rewritten by `Revoke`, truncation first,
one principal at a time. `log`, `joined`, `late` (what a session persisted since
its revocation) and `others` (the revocations begun since) are history variables.
`setup` is a constant of a behaviour: who connects, may close and may be revoked.

**SharedDoc.** Tabs open from what their browser kept, gain only edits somebody
made, and a browser keeps only what one of its tabs held. This rules out what a
CRDT over a bad transport could show its user: an edit vanishing from an open
document, an edit nobody made, a saved document that was never on screen.

**RoomSync.** One callback is one action. `link` is a tab's side of the
connection (`live` once the first snapshot was merged and answered with the
merged log, the code's `announced`), `inbox` and `outbox` are the frames on their way,
`handler`, `room` and `store` the relay's side, abstracted from `Relay` (its
steps are the ones that matter to the transport: subscription, snapshot,
broadcast before save, truncated file). A frame is a full log and importing is
union. `Poison` stands for a history that `mergesCleanly` rejects. Dropping a
socket lets a prefix of what was sent arrive later, also after the reconnect.
`posted` is a history variable. `setup` is a constant of a behaviour: which tabs
there are, whether they have a relay and localStorage, what the relay's file
holds, and who may be dropped, revoked or closed.

**Access, Scenario.** The same algebra as `Capability`, from its TypeScript twin:
the fields of every block are intersected and the denied ones removed, the rows
of a label are those every block that restricts the label admits, the holder is
the last block's. `BrainQuery` is the answer a token gets. `Scenario` holds
`scenario.ts`: principals, who owns which agent, datasets, the CFO's envelope.

**AccessStore.** `caps` and `requests` are the provider's state, `form` that of
the delegation page while it is shown. A handler reads the state its render
closed over, and React commits between two clicks, so a click is one action on
the current state. Queries are derived, as in the code.

**Console.** `ui` is a tab's React state and `seen` what its last commit
rendered; `Render` commits, running cleanups and then the effects whose
dependencies changed. Each `await` of an effect, of the demo and of the
simulated peer is a step of its own (`LoadRun`, `Settle`, `TypeAsk`, `EndWatch`,
`LoadBot`, `StartLine`, `BotTypes`, ...), so every one can land after its
cleanup. The imports of a room and of a simulated peer may fail: the room reloads
the page once (`RecoverStaleChunk`), the peer just ends (`LoseBot`). `lock` is the
Web Lock per document; `asks` and `markers` are the paragraphs typed by demos and
peers, by how far they are typed.

**WebApp.** What the router mounts: leaving a document's page unmounts the
console, a reload renews the store of its tab, and one visitor's tab goes
everywhere while the others show documents only.

**Blocks, Editor, Keymap.** The Loro tree is kept as an outline, the blocks in
document order with their depths, and a text as a sequence of characters that
have a name for ever, a glyph class and their marks. Whether a block is inline goes
by its kind, whether it has a text container (`rich`) by its history: a command
that inserts text needs one, and a paste makes one (`EnsureText`). A command is a function from
an editor state to the next; one that throws sets `threw`, which turns the
rest of its gesture into the identity while what was committed before stays. Undo
keeps the documents to return to, with the merging of consecutive text edits and
of groups. A key handler answers the editor and where the caret goes.

**Surface.** An action is one browser task: an input event, a key, a clipboard
event, the start or the end of a composition, a click, a command of the app, a
peer's edit. Handlers render before they return, so between tasks the DOM shows
the document (no text of a block that is not inline, `ShownText`) and only its
selection is a state of its own (`dsel`); `Remote` is the restoring of the caret after a peer's edit. `ime` is where a composition
began, `picker` the range the mention menu will replace, `did` the last gesture.

**WeaverSync.** Edits are numbered and remember the version they were made on; an
edit whose dependencies are missing is kept aside and neither shown nor
exported, which is what Loro does. `mark` is the version watermark that tells a
page's own edits from the wire's, `puts` and `writes` the requests on their way
to the two object stores of IndexedDB, `sock`, `timer`, `ever` and `quitting`
the bridge, `room`, `frames` and `kept` the server's room and the snapshot its
adapter keeps. The adapter (a Durable Object) is not in the repository: that a
join is caught up, that a snapshot is kept now and then and that a restart
begins with it is read off `sync-core/src/sync-room.ts`. The store goes on as soon as a
request succeeds, while its transaction may still abort: `PutSnapshot` and
`WriteOps` are writes that commit, `FailWrite` those whose request fails, and
`AbortWrite` those that are taken for done and are not. `given`, `settled` and
`heard` are history variables.

**EditorAgent.** A line is a paragraph somebody types text by text; `plan.script`
says which texts, `doc` how far each peer has it. A keystroke sends a full log and
writing presence. `Serve` is the relay, abstracted from `Relay` to one snapshot,
the stamp of the sender and the forwarding. `loop` is the state of `watch`:
`authors` by block, the texts `answered`, and the gate's clocks. A `Scan` is one
tick of `scan`: the candidates, the gate, all replies inserted by index into the
blocks that were read, bottom-up, and the frames they go out in. Time counts in
steps of `STABLE_MS`, so `WRITER_QUIET_MS` is four; a step lets every frame on
its way arrive first, and `PauseLimit` is the longest pause within a line. What
the brain finds and who may read it are constants. `begun` is a history
variable: the lines begun before a watcher was subscribed.

**Supervisor.** `start`, `stop` and `restart` write the watch channel
(`desired`); `fresh` is a receiver's "there is something I have not seen", so
two writes in a row count once. `run_loop` is a `pc` per task, from reaping the
pidfile's process through spawn, recording, `select!` (`watch`), the health
probe, the waits after an exit and the two steps of its end; `loop_alive` is
`alive`. A restart and a quit are two actions each, around their sleep. The sleep is
over when every loop either waits having seen the latest value or is where it
may be held up longer (`Noticed`): this is how 300 and 500 ms compare with a
2 s probe and a backoff. A process told to stop takes a step to die. An app
that exits or crashes leaves its child and the pidfile behind.

## 3. What is checked

Passing runs:

| run | instance | properties |
| --- | --- | --- |
| `control_plane` | owner and agent, two processes, four commands, one clock tick, one crash | `RevocationSticks`: a completed revocation stays listed whatever follows; `QuietSystemIsUsable`: after racing seeds, mints and grants every token on disk loads; `SalaryInvariant`; `KeyAgreement` |
| `relay` | an unsafe document id, a channel of one message, three frames; two connections in a room, one of which may be revoked and the other leave, or one connection and two revocations | `FramesInOrder`; `RevocationBoundsWrites`: a revoked session persists the frame in hand, and at most one more for each revocation begun since; `RoomsDrain` (liveness) |
| `room_sync` | three setups: two browsers at a relay whose two edits may cross; a relay that may refuse a tab or hold a history that does not merge, with one drop; three tabs without a relay, three edits, tabs closing or crashing | `TypeOK` (no document holds what does not merge); `ImplementsSharedDoc` (refinement); `EarlierJoinersKnowAll`: with nothing in flight those already in a room know what later joiners know; `FullLogHeals`: who missed something in its browser hears it with the next broadcast; `LiveEditsArrive`, `ComesBack` (liveness) |
| `web` | two tabs, two documents, lines of two characters, eleven scenes | `NarrowsOnly`; `GrantsWhatItShows`: what the access pages say is what a query then answers; `NothingLeaks`: no room and no simulated peer outlives its page; `OneOfEach`: one run of a demo per tab, one simulated peer per document; `NobodyTypesIntoTheVoid`; `EditorOpens`, `DemoEnds`, `BotTakesOver` (liveness) |
| `editor` | five small pages, any selection, two gestures and a peer's edits | `TypeOK`: the outline stands for a tree, now and after every undo; `TheRestStays`, `MarksStayPut`: a gesture changes what it was aimed at only, and leaves the rest in its order, but for the reorderings named below; `CaretFollowsTyping`; `CutPasteRestores`, in one step to undo; `NothingElseThrows` |
| `editor_agent` | two people, two watchers; five sessions of one or two lines: two asks, one typed in two steps and one to be denied, with a watch that ends and starts again; an ask and a question at once; a question over an empty line that becomes an answer; two watchers; a line that has for a moment the text of another | `NeverMidTyping`: who keeps typing is not answered half-way; `AskerAuthorizes`: an ask is answered with its author's capability, whoever's log carried it; `RepliesInPlace`: replies stand below what they answer, and a denial is shown after its reply; `AsksAnswered` (liveness) |
| `weaver_sync` | two pages, one with IndexedDB, an agent and the right to leave; three edits; eight mixes of drops, server restarts, failing and aborted writes, flushes, disposals and departures | `NobodyStalls`: nobody waits for an edit nobody will send; `EchoFree`; `StoresKeep`: what was committed, or handed to the store before a disposal, is there; `Converges` (liveness): a page that stays comes to show what the room holds |
| `supervisor` | three requests or launches, two faults (crashes, failed spawns), three loop tasks, five processes | `AtMostOneChild`; `OrphansAccounted`: the pidfile names a recorded process whose app is gone; `StopStops`, `WantedRuns`, `StatusCatchesUp` (liveness) |

Runs that show a disagreement between the code and what it is said to do:

| run | what TLC shows |
| --- | --- |
| `control_plane_lockout` | `RevokeTouchesOnlyItsHolder`: seed, grant to the agent, revoke the agent. Every block of the agent's token is listed, its first block is the owner's, and the owner's token no longer loads. The fix would be to list only the identifiers the token does not share with its parent. |
| `relay_revoked_session` | `RevokedSessionIsDropped`: a session is told it is revoked, its handler returns, and the forwarder goes on delivering the room's frames to it. |
| `relay_lost_update` | `NoLostUpdate`: an update is broadcast, a client makes its receiver and reads the old snapshot, the update is saved. The client gets it neither way, until somebody broadcasts a full log again. |
| `supervisor_restart` | `RestartReplacesChild`: the loop probes the relay's port while a restart stops, waits and starts. It sees one change, to "wanted", and goes on with the child it had, so settings saved before the restart do not take effect. Counting restarts in the channel's value would tell the two apart. |

Bounds, and why they are enough. Two processes and the labels between their
file accesses give every pairwise race of two commands; four commands allow
seed, grant and two more to race after the system was set up. Two connections
give a sender and a subscriber at every step of the other, and a channel of
one message makes lagging happen with the second frame. A second setup has one
session and two principals to revoke, so that the lists are rewritten for one while
the other, revoked before, is being checked. Two browsers give
both join orders and a reconnect; the third tab without a relay makes a channel
hold messages from two senders. The scenes of `web` pair each kind of click with
the kinds of loss that can race it, and two of a kind let the second meet what
the first left; a line of two characters has a step before, between and after
its characters. The pages of `editor` hold between them marked text, a nested
block, a block with two children of which the first has a child of its own, a
divider in the middle and one at the top, an empty block, code, every shortcut a
keystroke away from completing, and a mention query; the selection moves once to any range
(backward ones start at the end of the page), the page becomes read-only only
during a composition, and the app's commands act on the first block. One
gesture shows what it does alone, the second what it does to the state the
first left. In `weaver_sync` a snapshot follows every second edit on both
sides, so that it happens with three, and two faults allow one while the other is
being recovered from. Three requests allow a stop and a start, or a
restart and a quit, to race a loop that two faults bring into a backoff or to
its end, and one more launch after a crash. Fields, views and teams are few because the
algebra treats each on its own; the theorems below cover the rest.
In `editor_agent` the second line of a session is typed while the first waits
at the gate, is answered, or was, and two watchers see each other's replies; a
pause may reach three of the four steps the gate waits. Deadlock is not checked,
except in `editor_agent`, where time passes: every other model's actors may be
out of commands, frames or faults, and the real system then waits for its users.

Fairness. `Relay`: weak fairness of each handler's and each forwarder's steps,
since the tokio runtime runs every task that can make progress; clients and
operators are not obliged to do anything. `RoomSync`: weak fairness of a tab's
callbacks and of the relay's handling of each tab's frames, since a browser
delivers events that arrived and timers that expired; no fairness of edits, closing, faults
or the save timer, and the network fails at most `setup.faults` times, without
which no reconnect could be guaranteed. `WeaverSync`: weak fairness per page of
loading, of IndexedDB requests, of the socket's callbacks and of the reconnect
timer; none of edits, faults or departures. `Console`: weak fairness of a tab's
commits, of imports, of each await of a demo and of a simulated peer, and of the
lock, which the browser grants to a waiter; none of clicks, navigation and
failing chunks. `EditorAgent`: weak fairness of one
action, `Due`, that is any step of a browser's, the relay's or a watcher's tasks, of
a line begun, or of time: each of them can go on only for so long without the
others; none of watches starting and of lines being begun. `Supervisor`: weak fairness of each
loop, of timers and of the death of a killed process; strong fairness of a loop
noticing a change or an exit, which `select!` justifies: it picks among the ready
branches at random, and the probe's tick is ready once in three seconds only.
No fairness of requests and faults. `ControlPlane` has none: nothing is
promised about a command ending.

Checked under a limit: `RevocationSticks` speaks of behaviours without a crash,
with revocations from one process, because the code does not give more, and
`QuietSystemIsUsable` of those without a crash. Two concurrent `revoke`s read
the same list and one entry is lost; a `revoke` that dies inside a rewrite
leaves an empty list, which un-revokes everybody; a `grant` that dies before its
audit entry is in force unrecorded; a `seed` that dies between creating a key
file and writing it leaves one that stops every later seed and mint.
`RevocationBoundsWrites` is about revocations one at a time, none of which dies
half-way, for the same reasons, and is a bound only: a session that was revoked may
go on writing while another principal is revoked, against `server.rs:118` (a
principal revoked mid-session "must stop being served"). Its check reads the names while they
are truncated for the other, then the identifiers while those are, and finds itself
on neither. Replacing the files by a rename, instead of truncating them, would
close the gap.
`SavedUnlessPending` is about a browser's only tab: two tabs of a browser
overwrite each other's snapshot in localStorage, and so do two tabs that had not
heard of each other in the relay's file (`weaverTransport.ts:300`), until
somebody who knows both saves again. `WantedRuns` asks for a loop:
a `start` after an ending loop's last look at the channel and before it clears
`loop_alive` makes none, and the service stays down though wanted.
`OrphansAccounted` is about recorded processes: a crash between the spawn and
the pidfile leaves one that no launch will find. Likewise a quit during a probe
exits before the loop has killed the child, against `main.rs:41` ("so it never
outlives its supervisor"); the next launch reaps it.

In the web app: a form with no team ticked sends an empty row group, which
grants every team (`delegate.tsx:80`), and is left out of `GrantsWhatItShows`;
a delegation after an approval replaces the approved token while the request
still reads approved; a time to live is recorded and never looked at. An actor
switched away in the middle of a demo leaves the demo's buttons disabled, and a
demo or a simulated peer whose own paragraph is deleted between two characters
dies with an exception: `DemoEnds` and `BotTakesOver` name these. A simulated
peer whose chunks fail ends too, its error swallowed (`demoAgent.ts:119`): the
lock goes to another tab, its own never tries again, and if no other tab shows
the document it stays without a peer, which `BotTakesOver` excepts: of the peers
started for a document and not aborted, one comes to write or all of them gave
up. The surface's own chunk (`ConsolePage.tsx:11`) is not modelled: it uses the flag
of the one reload, which the room clears once its chunks are there, so a
surface that cannot be loaded reloads its page again and again, against
`weaverRoom.ts:22`. A document
changed under a demo loses the characters typed before the next commit, to which
`NobodyTypesIntoTheVoid` bounds it.

The editor agent: a watcher that starts in the middle of a line has seen nobody
writing, and answers the half of it that stood still for `STABLE_MS`, against
`editor.rs:11` ("never one mid-keystroke"); `NeverMidTyping` is about lines begun
while it listens. The gate's clocks are of texts, not of lines: when a line
reaches, half-way, the text of a line whose clock runs already, and the scan
comes before the presence of whoever types it, the half line is answered too,
against `editor.rs:569` ("a line mid-typing is never answered"); `NeverMidTyping`
excepts texts that another line has at some time, and the fifth session of the
run has one. An update is a whole log, so an ask made before the watch may
first be seen in somebody else's, and is then answered with the capability of
that one, against `editor.rs:19` ("the principal the relay attributed the block to"
is meant to be the asker); `AskerAuthorizes` is about asks made while it listens.
Two lines of the same text are answered in one scan or the second never
(`answered` holds texts): `AsksAnswered` leaves repeated texts out. An ask in the
first snapshot has no author and is never answered, which the code says. Two
watchers of one room may both answer a question.

In the editor, text is lost where no gesture named it when a divider is deleted
with what is nested below it, when a paste fails, and when a line is pasted into
a divider and goes with it later. Text is read in another order after a tail is
split off a block that has children, and goes below them (Enter, and a paste of
several lines); after a paste over a selection outside which some of its children
are left, as these then stand before the pasted blocks; after a merge (a delete
key, or a selection of several blocks that is typed over, cut or deleted) of blocks
whose subtrees end in different places, since the children of the merged one go
to the end; and after an outdent, which puts a block below its later siblings.
One plain line pasted with the caret on a divider goes into the divider, which is
given a text container (`editor.ts:1415`, `1481`) and shows none of it, against
`keymap.ts:62` (a caret on a block without inline text "cannot insert there"). A selection that starts on a divider makes a
gesture throw half-way. A paste over one that ends in the next block deletes the
selected characters there and throws at the merge; the fallback to plain text
starts with the same offsets, deletes as many again, which nobody selected, and
throws too: the paste is dropped and so is the text, where `bridge.ts:659` says
that "the paste is simply dropped". A
composition that ends after a peer's edit inserts at the offset where it began,
and throws if its block is gone; a shortcut drops the marks of the text it
encloses; cut, paste and a mention do not look at whether the page is read-only;
`writeDomSelection` collapses a backward selection. `TheRestStays` and
`CutPasteRestores` leave out the losses and the reorderings, `NothingElseThrows`
the throws, each by a condition on the page and the selection; in all other cases
they hold on the pages of the run. That is what TLC shows, and
no theorem: whether there are more exceptions on larger pages is open.

In the editor's sync stack: an append that lands between a snapshot's export and
the clearing of the op log is in neither. Nor is what a snapshot held whose put
was aborted after its request succeeded: `opfs-store.ts:146` goes on at the
request's success, and the op log is deleted "once they're folded into the
snapshot" (`:172`) that never was; waiting for the transaction's `complete` event
would keep the edits. (`StoresKeep` exempts what was settled while a flush ran, and
what an abort took.) Edits the wire brought are not appended to the op
log, so after a visit without network a page's own later edits wait for them;
a write that failed is not tried again; the timer of a scheduled reconnect is not
cancelled by `disconnect`, so a disposed page dials once more, against
`index.ts:86`.

## 4. What is proved

`ControlPlaneProofs`, for any principals, views, fields, keys, processes, ttls
and any number of commands, with crashes:

| theorem | states |
| --- | --- |
| `Invariance` | `Spec => []IInv` |
| `TypeCorrect` | `Spec => []TypeOK` |
| `SalaryNeverDelegated` | `Spec => []SalaryInvariant` |
| `KeysAgree` | `Spec => []KeyAgreement` |
| `RootTokenKept` | `Spec => []OwnerKeepsRootToken` |
| `QuietIsUsable` | `Spec => []QuietSystemIsUsable` |
| `RevocationsStick` | `OneRevoker` implies `Spec => []RevocationSticks` |

The properties are about files, and a command keeps what it is about to write
in its own memory for several steps while other commands run. So none is
inductive alone, and `IInv` strengthens them with what a running command knows:

- `LocalInv`: at each label, which operation may be there and that what it
  still has to do is well formed (a seed's list of principals is not empty, a
  command about to write a token has one).
- `KeyInv`: a key a command holds is the one in the key file, and while a
  process is between creating a key file and writing it, nobody holds a key of
  that root, no token was signed and no registry published. This is what
  `create_new` gives: a key file, once it holds a key, never changes.
- `TokenInv`: every token on disk or in a command's memory may be stored for
  the principal it is meant for: signed for it, or delegated to somebody other
  than the owner with a block that denies the never-delegable fields.
- `SeedInv`: once the public keys are published, every principal has a token or
  a seed that still has it on its list (`Pending`): a seed publishes before it
  signs, in an order in which no principal is missing (`SeedOrderAssumption`).
  With `KeyAgreement` and `TokenInv`, which names the holder, it loads.

`RevocationSticks` is kept by `ListInv`: what a `revoke` holds of the lists it
rewrites extends them (`Extends`), from the read to the rewrite, and a list that
nobody is rewriting has everything revoked. Nothing in the code keeps another
`revoke` from writing in between: `OneRevoker`, that one process at a time runs
it, is a hypothesis of the theorem; the run's instance is one that satisfies it.

The proof has a lemma per part, with a step per action. It rests on the
assumptions of the two modules, all of which TLC evaluates: no principal but
the owner is first minted a never-delegable field (`scenario.rs`), a seed signs a
token for each, the row labels are not never-delegable, and each process generates a
key of its own.

`RelayProofs`, for any connections, rooms, tokens and frames, any revocations, one
after the other, and a channel of any capacity:

| theorem | states |
| --- | --- |
| `Invariance` | `Spec => []IInv` |
| `TypeCorrect` | `Spec => []TypeOK` |
| `Ordered` | `Spec => []FramesInOrder` |
| `Bounded` | `Spec => []RevocationBoundsWrites` |
| `Confined` | `Spec => []OnlyAuthorizedRooms` |

The three properties are about what was sent and written. `IInv` adds what makes
it come out that way:

- `Tails`: a receiver holds the end of its room's log, from some point after it
  was made; a push to a full one moves that point, as taking a message does.
  With `Numbered` (a frame is broadcast once, under a number of its own) and
  `Delivered` (what was sent stands before that point), the next message a
  forwarder takes comes after all it sent, however much the channel dropped.
- `Session`, `Joining` and `Admitted`: a frame past its check is one the token
  covers, a room is subscribed to once, so the snapshot is the first of its frames.
- `Lists` and `LastWrite`: `ctl revoke` truncates one list while the other
  still names everybody revoked, so `Revoked` never lapses, though each list
  does, and a check that reads one after the other can miss both. It does so
  only if it reads the names between their truncation and their rewrite (`Window`):
  from one such check to the next another revocation has to begin, and `others`
  counts it.

The lemmas go part by part; what most actions have in common, that they concern no
room (`Aside`), is one lemma. `RelayAssumption` is all it rests on. TLC
checks the bound for two revocations, the theorem for any number.

`RoomSyncProofs`, for any tabs and browsers, any deployments, and any number of
edits, drops, refusals, closed and crashed tabs:

| theorem | states |
| --- | --- |
| `Invariance` | `Spec => []IInv` |
| `TypeCorrect` | `Spec => []TypeOK` |
| `OnlyTabIsSaved` | `Spec => []SavedUnlessPending` |
| `FullLogsHeal` | `Spec => []FullLogHeals` |
| `EarlierJoinersKnow` | `Spec => []EarlierJoinersKnowAll` |
| `ImplementsShared` | `Spec => ImplementsSharedDoc`, the specification of `SharedDoc` |

The step of the refinement that takes an argument is `Learn`: a tab may gain
only what somebody wrote, yet it imports what a chain of tabs, localStorage and
a relay handed on, and the relay's file may hold a history nobody here wrote.
`IInv` says what those places can hold:

- `Typed`: documents, snapshots, channels and the frames on their way to the
  relay hold written edits only; what comes from the relay may hold a history
  that does not merge besides, and `mergesCleanly` is what keeps that out.
- `Open`: a closed tab has no timer, no message and no connection, so whatever
  imports or saves is open.
- `Dialed`: every connection after a tab's first makes up for a fault, so the
  numbers of connections suffice; `Saving`: the relay saves the frame it broadcast.

`InitMaps` and `StepMaps` take initial states and steps to those of `SharedDoc`:
to open, edit, import, save, and to close or crash is to open, write, learn,
keep and close; all else is a stutter. `OnlyTabIsSaved` is inductive given
`IInv`: only a tab's own callbacks touch its document and, when it is alone,
its browser. `SavedUnlessPending` is checked by no run.

`FullLogsHeal` needs that the pair was set up with everything heard (`Caught`):
from then on a tab without a relay learns from its own edits, which go to
everybody, and from its channel, on which whatever arrives was sent to all.
`EarlierJoinersKnow` is about when things arrive, and `JoinInv` says so:

- `Talk`, of each connection: SUBSCRIBE is first and once, its snapshot is the only
  one and overtakes the frames that wait, nothing is broadcast to who is not in
  the room, a tab is live only when it has the snapshot, whoever is refused has an
  ERROR coming, and a document holds all its tab ever sent.
- `Dialing` and `Undialed`: a new socket has none of its predecessors' frames.
- `Ahead`, of two tabs of a room: what the later one is about to hear the earlier
  one has or is about to hear (`Told`), and all the live later one has, the
  earlier has or is about to hear, unless that is still on its way to the relay
  (`Knows`). A snapshot breaks neither: it comes before the tab is live, and
  the answer to it carries everything.

There is a lemma per action, over what its step has in common with others: a
socket is gone (`GoneStep`), a tab acts (`OwnStep`), the relay acts (`RelayKeeps`).
A tab does not pass on to its channel what the relay sends it, nor the
reverse: with a later joiner that has a neighbour in its browser, or with
tabs of one browser of which some have a relay, both properties fail, which TLC shows on
instances larger than the run's; so each names the case it holds in.
`RoomSyncAssumption` is all this rests on.

`WeaverSyncProofs`, for any pages, with or without IndexedDB, any agents, and any
number of edits, flushes, failed and aborted writes, dropped sockets, restarts
and visits:

| theorem | states |
| --- | --- |
| `Invariance` | `Spec => []IInv` |
| `NothingTakenIsLost` | `Spec => []StoresKeep` |
| `WireInvariance` | `Spec => [](IInv /\ WireInv)` |
| `NobodyEverStalls` | `Spec => []NobodyStalls` |
| `NothingEchoes` | `Spec => EchoFree`, an action property |

A flush puts the snapshot in one transaction and deletes the op log in a later
one, and edits, more flushes, failures and crashes come between. Promised is
what the store committed or was given, until a flush or an abort may take it
(`StoresKeep`'s history variables): a put that aborts withdraws the promise of
what the stored snapshot does not hold. Why no deletion
drops anything still promised is not visible in `StoresKeep`; `IInv` adds it:

- `Causal`: an edit is made on a whole version, so what a document shows is
  whole, and whatever whole set it holds, it shows.
- `Chain`: a document only grows while its page is open, so the snapshots
  queued are each no less than those before and than the stored one; each holds
  all that was promised, as nothing new is promised while a flush is under way.
- `Safe`: while a deletion is queued, all that was promised is in the stored
  snapshot; else it is there, in the log or on its way to the log.
- `Quiet`: a page disposed of has nothing tracked pending, so what it had
  promised is stored when it goes. A store in memory has no queue.

`Saved` and `Exported` are the argument; every action that changes a document
goes through `Became`. What the wire and the room do leaves the stores alone
(`NetworkStep`).

`NobodyStalls` and `EchoFree` are two sides of one fact: a delta carries exactly
what its page shows and the room did not tell it, so it lacks no dependency and
returns nothing. `WireInv` says what keeps that so through flushes, which move
the same watermark as frames do, and through reconnects:

- `Settled`: after every callback a page's watermark is what the page shows, and
  what it was told is shown. Only edits of its own can wait in it, since its op
  log, which keeps them without what they were made on, holds no others.
- `Peers`: an edit is made on all its peer made before, so a watermark moved by
  a frame covers that frame and nothing that has yet to be sent. A peer is
  new on every visit, without which a log left behind could stand for it.
- `Upward`, `Downward`: on a socket, each way, every frame waits only for what
  is there or in a frame before it. What a connected page shows is in the room
  or on its way up, and what the room holds is shown or on its way down.
- `RoomWhole`: nothing waits in the room, nor in the snapshot a restart
  begins with; `Fresh`: until its first connection a bridge dials at most once.

A lemma per action again, over two steps that do most of the work: a document
grows and sends a delta (`Shipped`), and all documents stay (`WiresAside`).
Dependencies are looked up in the edits there will be: that later edits
neither hide what is shown nor disturb an order is `ShownSame` and its like.

The proof needs no more of `WeaverSyncAssumption` than that the
budgets are numbers.

`WebAppProofs`, first for any queue of requests, and for the store in the whole
app, whatever its tabs, its console and its budgets:

| theorem | states |
| --- | --- |
| `DelegationNarrows` | any token, delegated with any block, grants no field and no row more |
| `StoreInvariance` | `Spec => []StoreInv` |
| `StoreTypeCorrect` | `Spec => []StoreTypeOK` |
| `SalaryNeverHandedOut` | `Spec => []SalaryStaysHome` |
| `TokensOnlyNarrow` | `Spec => []NarrowsOnly` |
| `AnswersAreAsShown` | `Spec => GrantsWhatItShows`, an action property |

`NarrowsOnly` compares a token with its giver's *present* one, so it would break
if a giver's token were replaced by a narrower one after it delegated. `StoreInv`
says why this does not happen: a human's token is the registry's, always, and an
agent's is the registry's or a human's with one block more, which denies what is
never delegable. The step lemmas follow the handlers; the rest of the app leaves
the store alone or renews it. `AnswersAreAsShown` follows from the same shape: a
token just handed on has two blocks, a human's authority and what the page
sent; a row passes a token exactly if it passes each of its blocks
(`RowsOfBlocks`, for any token), so a query answers what both grant (`HandedQuery`).
All the teams sent as no restriction come out as the owner's own, and a
request that starts over is never an approved one. `StoreAlone` is the same fact for the store's own
specification. The assumption is that requests come from agents and are
well-formed (`InboxAssumption`).

`WebAppProofs`, then for any tabs, documents, actors and lines, in the whole web
app with whatever budgets:

| theorem | states |
| --- | --- |
| `ConsoleTypeCorrect` | `Spec => []ConsoleTypeOK` |
| `NoLeaks` | `Spec => []NothingLeaks` |
| `NobodyPlayedTwice` | `Spec => []OneOfEach` |
| `VoidStaysEmpty` | `Spec => NobodyTypesIntoTheVoid`, an action property |

An effect starts work that goes on after its cleanup, and keeps one handle for
it: the last room, the last simulated peer, the run in `effectRun`. A cleanup
that reached only the last of several would leak the others. `ConsoleInv` says
that there are no others:

- `RoomsOfPage`, `BotsOfPage`, `RunsOfPage`: whatever is not shut, aborted or
  over is what the handle names, and belongs to what the last commit rendered. A
  shut room is never attached, an aborted peer neither: this is what the checks
  after each `await` are for.
- `LockHeld`: a peer has its document's lock from the grant until its run
  settles, aborted or not, and a lock has one holder: so a document has one
  simulated peer, whoever else waits.
- `BlocksKnown`, `BlocksApart`: who types has written the paragraph it types in,
  and no two runs type in one. Without it a keystroke of another run, or
  a reset of the texts, could pass for one of a run that is over, and
  `NobodyTypesIntoTheVoid`, which compares texts before and after, would not follow.

There is a lemma per action, over what its step has in common with others
(`RunStep`, `BotStep`, `QuietStep`); `Render`, which runs every cleanup and then
the effects, is split by what it changes. The access store's steps leave the
console alone. The assumptions are `ConsoleAssumption` and `BudgetsAssumption`:
a scenario says how much of each kind it has, and names documents of the model.

`SurfaceProofs`, for any set of pages, any typed texts, and any number of
gestures, of ranges to move to, and of peers' edits in between:

| theorem | states |
| --- | --- |
| `SurfaceInvariant` | `Spec => []IInv` |
| `SurfaceTypeCorrect` | `Spec => []TypeOK` |
| `SurfaceCaretFollows` | `Spec => CaretFollowsTyping` |

`TypeOK` says of the document, and of every document undo and redo can go to,
that it is not empty, stands for a tree (a block is at most one level deeper than the one
above it, the first at the margin), names each block and each character once and
below `ed.fresh`, has a text container in every inline block and text only where
there is a container. (A divider may have been given one by a paste, and then
hold text that is not shown.) That takes more than each command keeping it,
because an undo step may be taken many gestures later, over a document that peers have changed since. `IInv` adds:

- `Good`: all those documents stand below the same `fresh`, so no name is taken
  twice in a document that is not the one shown, and a block that is inline in one
  of them has a container in all (`Kin`; not the reverse, since a paste gives a
  divider one that the documents before it lack). Without `Kin` a peer's character,
  which goes into the documents on the stacks too, could land in a block that has
  no container there.
- `Shown`: the DOM's selection lies in what is shown, so no offset is beyond a text,
  and none is inside a divider, whatever was pasted into it.
- `Clipped`: what was copied or cut is an outline starting at the margin, so that pasting
  it, at any depth, gives a tree again. Copying takes a run of blocks from the
  middle of an outline: a copied block's depth counts those above it in the run
  that it hangs below (`Hanging`).
- `Picking`: the mention menu replaces a range that is not empty.

Within a gesture a second bound runs behind `fresh`: the text about to be put in
is already named, and a document that stands below `c` has none of these names.
The proof follows the code's layers. Sequences and texts: what `Splice`,
`Grafted` or a fold returns, and of which part (`Origins`). Outlines: what
becomes of a tree when a block is split, merged, moved, indented or
deleted with what hangs below it (`SplitAtIs`, `MergedIntoIs`, `RelocatedIs`,
`OutdentIs`, `RemovedTree`), and where its blocks come from (`Stems`), which is
what `Kin` needs. Commands: each is a `Step` from a good editor to a good one with
names spent, and undo, redo and a thrown command are. Gestures: a lemma per key, per
clipboard event, composition, shortcut and mention. Peers: `EditedIs`, of every
document at once.

`CaretFollowsTyping` is followed from the keystroke to the caret the page shows. A
text that goes in ends as many characters behind the place as it is long
(`InsertBehind`), also in the paragraph made below a divider
(`InsertTextReaches`); an inline shortcut deletes the delimiters, so the caret's
offset is past the end of the block, and cutting it to the length puts it behind
the text again, whose last character is the typed one (`InlineReaches`);
rendering writes that caret back, since its block is there (`WrittenThere`); and
the last character typed has the largest of the names that are new, because all
the others were given out before (`TaskFollows`). A gesture that types nothing
has another name (`OthersFollow`).

What `fresh` begins with is a number of the model (`FirstFresh`). Assumed are
`PagesAssumption`, that a session opens with a document of this form,
`TypingsAssumption` and `RemoteEditsAssumption`, that what is typed is text that is
not empty (`bridge.ts:324` returns early otherwise; a composition that ends with
nothing, `bridge.ts:577`, is an action of its own) and a peer inserts or deletes.

`EditorAgentProofs`, for any people, watchers, lines and sessions, and any number
of watches that end and start again:

| theorem | states |
| --- | --- |
| `AgentTypeCorrect` | `Spec => []AgentTypeOK` |
| `NeverAnsweredMidTyping` | `Spec => []NeverMidTyping` |
| `TheAskerAuthorizes` | `Spec => []AskerAuthorizes` |
| `RepliesAreInPlace` | `Spec => []RepliesInPlace` |

A reply is written from the watcher's copy, at a time the watcher chose, and
is carried on by everybody's logs. `AgentInv` says what each place holds and in
which order things are on their way:

- `DocsInv`: no log, wherever it is, has more of a line than its author typed,
  and every reply in one keeps the promises. It makes the properties
  inductive: a reply has to keep them only once, when a scan writes it.
- `RoomInv`: a watcher that is not in the room yet has asked to be and nothing else.
- `AuthorsInv`: of a line begun while a watcher is in the room, the first frame
  in its queue that shows it is its author's own, and if anybody but the author
  has the line the watcher has it or has such a frame coming. So the
  first update attributed is the right one, though everybody's logs carry it.
- `GateInv`: while somebody is in the middle of a line that a watcher heard
  begun, the watcher's quiet time is no longer than that pause, or a presence
  is on its way that will end it; its copy is the author's latest, or that is on
  its way; and a text stable in the gate was met while somebody was known to write.
- `NoticesInv`: in the queue to the relay and in the one from it, a denial comes
  after an update with the reply that explains it, or the person has that reply.

The clocks of the gate and the queues are the proof's weight: a scan reads what
arrived, a tick of time happens only when everything on its way has. Where
a reply lands is a matter of data: that `Inserted` puts each below its line
whatever the others shift (`InsertedExtends`, `PlacedReplies`), that reading the
blocks and flattening them loses none (`BlocksRead`, `FlattenIn`). The
lemmas do induction over a set of numbers (`Induction`, from the well-foundedness of
`<`) on the recursive functions that folds and `FlattenSeq` are.
`EditorAgentAssumption` is all this rests on: lines are numbered
from the top and are finitely many, people are no watchers, nobody is no peer and
no reply, a pause within a line is shorter than the quiet the gate waits for.

`SupervisorProofs`, for any number of loop tasks, processes, requests and
faults:

| theorem | states |
| --- | --- |
| `Invariance` | `Spec => []IInv` |
| `TypeCorrect` | `Spec => []TypeOK` |
| `NeverTwoChildren` | `Spec => []AtMostOneChild` |
| `NoOrphanForgotten` | `Spec => []OrphansAccounted` |

Neither property says why a loop may write the pidfile or make a child. `IInv`
adds that: at most one loop is active (`OneLoop`, from `loop_alive` being
truthful), a loop has a child exactly from its spawn to its exit (`ChildHeld`),
the pidfile is empty or names the active loop's child once that loop has reaped
(`PidfileOwned`), and no process is recorded that was not started
(`RecordedStarted`).

Model-checked only: what `Surface`'s gestures do beyond keeping a document one,
that is `TheRestStays`, `MarksStayPut`, `CutPasteRestores` and
`NothingElseThrows`, on the pages of the run. The last is not true of any pages
whatever (the app's commands act on the first block, which must not be a
divider). Out of the prover's reach and left to TLC: liveness
under fairness (`RoomsDrain`, `LiveEditsArrive`, `ComesBack`, `Converges`,
`EditorOpens`, `DemoEnds`, `BotTakesOver`, `AsksAnswered`, `StopStops`,
`WantedRuns`, `StatusCatchesUp`), `ENABLED`, and the library's induction
theorems that take an operator as a parameter. What needs induction is done
with sets instead: a set of numbers that holds 0 and every successor is all of
them. No module has a `RECURSIVE` operator.

## 5. What is not modelled

The brain, MCP, cron and the sandbox: planned, below. Not
planned: presence (a table with one timer that nothing else reads), connectors,
configuration, the agent runtime's single question to a model, the desktop shell
around the supervisor, the headless client, the
landing site and the infrastructure, which are translation, I/O or static.
Within the modelled parts: a token expiring or being replaced during a relay
session; a second SUBSCRIBE to the same room on one connection; failed reads and
writes of the snapshot store; a crash of the relay; the HTML, the menus, the
toolbars and the drag handles of the editor, its plugins and its event
subscriptions; presence on the editor's socket; the console's rendering, its
audit log and the wording of its answers; logs, arguments and recycled process
ids of the supervisor.

## 6. Plan

In order, with the theorem or the abstract specification each should bring:

1. `BrainIndex`: load, mutate, save of the index by ingest, MCP tools and
   daydream, within and between processes; what each pass owns; daydream's
   taint against what a principal may read (`Capability`).
2. `Sandbox` and `Cron`: the registry's lock and deadline, once per minute.
3. `Workspace`: control plane, relay and browser composed over the capability
   and revocation files, with expiry during a session and a relay restart.
4. `Surface` in TLAPS, beyond `TypeOK`: no gesture moves marks it was not aimed
   at (`MarksStayPut`), over the same lemmas about where texts come from.

Each brings a run on an instance of the size above. Where a run can answer two
questions at the same cost it takes both.
