# Code-in-Tele: a TLA+ model of the bridge and its runners

Code-in-Tele lets a user drive Claude Code sessions from Telegram topics. One
*bridge* process talks to Telegram and keeps the sessions table; on every Mac a
*runner* daemon hosts the Claude SDK clients. Bridge and runner speak signed JSON
envelopes over one WebSocket per runner. Everything is Python asyncio: a step of
the program is what runs between two `await`s, and what can go wrong is mostly
what happens while a coroutine is suspended. That is what the modules here are
about. Paths below are relative to `src/src/ct/`.

## Inventory

| Component | State | Operations | What is hard | What makes it correct |
|---|---|---|---|---|
| Bridge runner link, `bridge/runner_client.py` | `_ws`, reader and reconnect task, `_sessions` with their events and turn queues, `_pending_calls` | `open_session`, `turn`, `close`, RPCs, `_on_disconnect`, `_reconnect_loop`, `_reopen_sessions`, `_dispatch` | drops at any await, a second drop during recovery, close during dialling, opens and closes while the reopening loop sends | nobody waits behind a dead link; the runner knows every session the bridge tracks; events never outlive their link; it always comes back |
| Runner daemon, `runner/server.py` | `sessions`, turn tasks, dispatch tasks, reaper, teardown | open, send, decide, set_mode, interrupt, close, reaper, teardown, SIGTERM | one task per envelope, a reaper with a stale list, cancellation inside `await`, sends that raise | no SDK client without an owner; no stream, TURN_END or OPENED of a session behind its CLOSED; the teardown stops everything |
| SDK adapter, `sdk_adapter/adapter.py` | the client, `_pending` futures, remembered allows | start, stop, turn, `_can_use_tool`, resolve | approvals pending at stop, decisions for a future that is gone | a tool runs only after an approval for it; each request resolves once |
| Approval cards, `bridge/permissions_ui.py` | `_pending`, `_pending_questions`, rows of pending_permissions, the cards | render, tap, question taps, expire, cancel | taps racing expiry, restarts, two fast taps | one decision per request; an answer stands at its question's place; one verdict per questionnaire |
| Session lifecycle, `bridge/bot.py`, `bridge/sessions.py`, `store/db.py` | `SessionStore._by_thread`, table `sessions`, `turn_lock`s, undo slot | /new, /resume, /fork, /restart, /move, /close, /undo, reap and reconnect notices, boot restore | multi-step commands with partial failure, restart without the lock, crash between two writes | one live session per topic; a session that had a turn can be resumed |
| Topic renderer, `bridge/streaming.py` | texts since the last tool result, error mark, heartbeat task and its message | start, add text, tool result, finish, render_error | the heartbeat task cancelled while it sends or edits, Telegram errors | the answer is the turn's own last word; "working..." goes before it comes |
| Settings, `bridge/menu.py`, `bridge/bot.py`, `bridge/sessions.py`, `store/db.py` | mode, model, effort and thinking, in the TopicSession, the handle's state, the row and the SDK | /permissions, /model, /effort, /think and the action card's buttons | four copies, written before the SDK has agreed; drops, restarts and crashes between | the copies come to agree |
| Bot-wide defaults and profiles, folder browser, `bridge/menu.py`, `bridge/bot.py` | a cache of the defaults, the browser's state | cards, /allow, profiles | a cache one writer does not update, two fast taps | see the hazards |
| Wire protocol, `protocol/` | none | frame, unframe | clock skew and replay window | stale envelopes are refused |
| Telegram retry, runner process, dashboard, transcription, SDK tools | little | | | |

The bot calls the link (method calls in one event loop); link and daemon exchange
envelopes; the daemon drives adapters and gets their permission requests as
callbacks; the link hands those to the approval cards, and hands closed, reaped
and reconnected sessions back to the bot as callbacks.

## Plan

1. `BridgeLink` and its proofs (done): the heart of recovery on the bridge side.
2. `RunnerDaemon` (done): the heart of recovery on the runner side.
3. `ApprovalGate`, `Approvals` and their proofs (done): approval cards from the
   SDK's callback to the tap, against an abstract gate ("a tool runs only after
   its approval").
4. `SessionLifecycle` (done): the bot's commands over store, table and Macs.
5. `Questions` and its proofs (done): the AskUserQuestion cards, where two taps
   meet at the await between recording an answer and advancing.
6. `Turns` (done): messages of one topic end to end, over FIFO channels, composed
   of the bot's handlers, the link's queue, the runner's turn tasks and the
   renderer.
7. `Settings` (done): the four copies of a session's settings, over the same
   channels, with restarts, re-opens and boots.
8. The invariants of `RunnerDaemon` and `Turns`, proved (done).
9. The invariants of `SessionLifecycle` and `Settings`, that the answer to a
   message is whole, and that EXPIRED is final, proved (done). With them every
   safety property that a passing run checks has a theorem.

What is left: a composition of `Turns` with `SessionLifecycle`, so that messages
meet restarts and moves and not only closes and drops; abstract specifications of
the link and of the daemon to refine, as the gate is of the cards; the daemon's
teardown on SIGTERM.

## Modules

### BridgeLink

The bridge's end of one link. `ws` is `_ws`, with "dead" for a socket that is
closed while the reader has not been told; `reconnectTask` is what the task is
awaiting; `todo` is what `_reopen_sessions` still has to visit of its snapshot. Of
a session the model keeps what decides control: whether it is tracked
(`sessions`), has an SDK id (`resumable`), its events (`opened`, `openError`,
`closed`), and of its turn queue only whether the first terminal item has come
(`turn`), since `turn()` reads no further. `carried` and `answered` are history:
what was sent and answered on the present link. The runner is the environment; any
envelope may arrive for any tracked session.

`close()` is cut at its awaits: `closing` says whether it awaits the reconnect
task it has cancelled (`TaskEnds`), the reader (`ReaderEnds`) or the socket
(`SocketCloses`), and drops, opens and turns come in between. From its call on
nothing is dialled, but an `open_session` may still register and send until the
socket goes; `ClosedForGood` says that it gets no handle.

One entry per sid stands for the state object: a sid that is popped and opened
again gets a fresh entry, and handles of the old object are out of the model. RPC
payloads, ping statistics and the outage stamp are left out.

### RunnerDaemon

The runner's end. Because a sid is used again after a close and tasks hold on to
session objects, the state is kept per *instance* (one `RunnerSession` with its
`SessionRunner`), and `table` says which instance is in a sid's slot. `closer` is
the task that closes an instance (a T_CLOSE handler, the reaper or the teardown,
`closedBy`) and what it awaits: the cancelled turn, `runner.stop()`, the CLOSED
send. `CancelClosers` is what a CancelledError does at each of these awaits, which
is where `suppress(CancelledError)` and `suppress(Exception)` matter. The bridge
is the environment: any envelope at any time. A session closed before it said
OPENED makes its sid `hasty`; the properties exempt such sids, because there the
code leaks (see the hazards).

A set_mode, a set_model and an interrupt each await the SDK (`asking`), fail if a
close stops it meanwhile, and then report the error behind CLOSED: `late` records
what is said after CLOSED with its kind, and `ClosedIsLastWord` is about opens and
turns only. `Asked` bounds which instances they come for: both in the safety run,
none in the liveness run, where what they await holds up nobody.

### ApprovalGate and Approvals

`ApprovalGate` is the promise: a request made in a session runs only by a consent
recorded for that request, or because its tool is trusted in that same session; a
refused or executed request never gets another outcome. `Approvals` is how the
code keeps it, from the runner's `_can_use_tool` to the tap and back, and
`GateHolds` is `Gate!Spec` under the mapping at the end of the module.

| In the model | In the code |
|---|---|
| `callback`, `future`, `remembered` | the suspended `_can_use_tool`, `SessionRunner._pending`, `_remembered_allows` |
| `session`, `current` | the SessionRunner under the sid, and the requests it made |
| `requests`, `decides`, `link` | envelopes in flight, the WebSocket |
| `render`, `tap`, `sweep` | what `render_card`, `handle_callback`, `expire_stale`/`expire_orphans` await |
| `entries`, `undecided`, `expired` | `PermissionsUI._pending`, rows without `decided_at`, cards saying EXPIRED |
| `phase` | whether the bridge is still in `expire_orphans` at boot |
| `verdict` | history: the decision the bridge sent or tried to send |

The reader renders one card at a time because it awaits the handler; taps and the
sweep are tasks of their own, so an entry is popped before the first await and the
row is deleted some awaits later. `Crash` loses everything but rows and cards.
`Break` cuts the link and tears the runner's session down; a torn down
SessionRunner may stay unstopped, as the RunnerDaemon finding shows, so its
futures may stay open: `current` is what tells it from the session that follows.

What is abstracted: one session; the order of requests on the wire (the properties
do not depend on it); a decision that is sent on a link the reader still believes
in is lost, one sent on a link it knows is down raises, and both are outcomes of
one `link = "down"`; a row's age is a free choice of the rows `SweepLists` takes;
consecutive awaits that only Telegram sees are one. An abandoned SessionRunner's
own remembered tools are left out, as it makes no new request the model follows.
The question flow has a module of its own.

### Questions

One AskUserQuestion request, whose questions are shown one after the other on one
card. `render` is the reader in `_render_question_flow`; each member of `Tap` is a
task in `_handle_question_callback`, and `at` is what it awaits: `query.answer`
with an answer recorded or an option toggled, the edit of the card, or the edit of
`_finalize_question`, which has popped the entry by then.

| In the model | In the code |
|---|---|
| `NoQuestions`, `FreeText`, `TextPosted` | the malformed request, and the one without options |
| `Register`, `CardPosted`, `CardSent`, `CardRefused`, `CardFails` | the entry, `send_message` and its outcomes |
| `Choose`, `Submit`, `Toggle` | a tap up to `query.answer`, by kind of button |
| `AdvanceToNext`, `Finalize`, `Redraw` | what follows it |
| `Edited`, `Finalized`, `FinalizeFails` | the edit's outcomes |
| `answers`, `current`, `selected` | fields of `_QuestionState`; an answer is the question it was given to |
| `shown` | the questions whose buttons the user has seen, hence may still tap |

The user sees a card before `send_message` returns, so a tap may come when the
card's id is not known. Telegram may refuse or fail any call and applies two edits
under way in either order. Left out: the wording of answers and cards.

`AnswersInPlace` says what the code keeps and no more. A question may be answered
twice, by two taps that overlap or by one repeated after `query.answer` failed;
the later answers then stand one place too far back, and a later question is
passed with no answer of its own. Short of that every answer is at its question's
place and every question passed or sent has one.

### Turns

The messages of one session. Each member of `Msg` is one handler
(`on_topic_message` or `on_media_message`); `task` is what it awaits: the topic's
`turn_lock`, events of its turn, the removal of the heartbeat message, the post of
the answer. `queue` is `state.turn_queue`, `up` and `down` are the channels,
`drive` and `stage` the runner's `turn_task`. `heartbeat` is the renderer's task,
`known` whether its message id is known, `working` whether the message is in the
topic.

| In the model | In the code |
|---|---|
| `Arrive`, `Begin`, `BeginFails` | the handler up to the lock; `renderer.start` and `SessionHandle.turn` |
| `TakeText`, `TakeResult`, `TakeEnd`, `TakeError` | the iteration of `turn()` in the handler |
| `CancelBeat`, `Deleted`, `DeleteFails`, `Posted` | `finish` and `render_error` |
| `BeatSends`, `BeatSent` | the heartbeat task up to its message |
| `HandleSend`, `Emit`, `EndTurn`, `TaskDone`, `HandleClose`, `Reap`, `Refuse` | the runner's handlers and turn task |
| `Deliver`, `Drop`, `Dial`, `Reopen`, `Close`, `CloseTimesOut` | `_dispatch`, `_on_disconnect`, the reconnect task, `SessionHandle.close` |

Both channels are FIFO, as a WebSocket is; what BridgeLink and RunnerDaemon leave
to any order is here in the order sent. An envelope carries the message whose turn
caused it (`of`): the code has no such field, and no guard reads it; the
properties do. `named` says whether a text or a re-open has shown that the handle
has an SDK id; without it a re-open may find none and drop the session, with a
turn begun or not. `Reap` may take a session whose turn has just begun, as the
daemon's list is stale; it and `HandleClose` stop it in the same way (`Stops`).
Left out: approvals within a turn, how a long answer is cut, what
`on_media_message` awaits before it comes to the lock (download, upload,
transcription; a handler is free to arrive at any time as it is), and the second
TURN_END of a close that cancels the very send of the first.

What the properties leave out, because the code goes wrong there: `TurnHasEnd` a
session that a close which timed out has forgotten (`tracked`) and an error taken
for the re-open's (`swallowed`); `AnswerIsWhole` what follows an error of a turn,
whose TURN_END comes behind it (`clean`); `NothingStale` a heartbeat cancelled
while its message is being sent, or a Telegram call that failed (`mishap`).

### Settings

One session's mode, model, effort and thinking in the four places that hold them:
`session` (TopicSession), `handle` (the handle's `_SessionState`), `row` (the
database, behind the store's one thread, `writes`) and `sdk`. `restart` is where
`_restart_session`, or the restore at boot, is.

| In the model | In the code |
|---|---|
| `Change` | /permissions and /model and their buttons, with `set_permission_mode` and `set_model` |
| `SetEffort`, `Think`, `Written` | /effort, /think and their buttons; the store's thread |
| `BeginRestart`, `CloseEnds`, `OpenReturns`, `OpenRaises` | `_restart_session`: `SessionHandle.close`, `open_session` |
| `OpenWith`, `ReopenWith`, `Boot` | what the three kinds of T_OPEN ask for |
| `Deliver` | `_dispatch`: a requested CLOSED closes the state that is in `_sessions` by then, and leaves it there |
| `Reopen`, `ReopenBehindChange` | `_reopen_sessions`; the same with a change that had the send lock first |
| `HandleSet`, `HandleOpen`, `StartReturns`, `HandleClose` | the runner's handlers |

`handle` and `fresh` are two state objects under one sid, each with its `closed`
flag: the CLOSED of a session whose `close()` gave up after 5 s finds the state of
the open that followed. That session is stuck: its handle refuses every message
("already closed"), the next restart's `close()` returns at once and its
`open_session` is refused as already open (`bridge/runner_client.py:824`), until
the runner's reaper frees it or the bridge restarts. `ThinkingApplies` leaves a
closed handle out, because there /think changes the session and no SDK; the
findings name it. Sessions here are not idle for long enough to be reaped.

Mode and model stand for what is changed on the running SDK, effort for what
counts from the next open. A restart and a boot do not overlap, and none begins
while the SDK is starting: SessionLifecycle and RunnerDaemon have those.

### SessionLifecycle

One forum topic from /new or /fork on. `row` is its line of table sessions,
`topic` its `TopicSession`, and of every Mac the model keeps the connection
(`link`), what the connection tracks under the topic's sid (`tracked`), the SDK
client the runner has for it (`client`) and how good its copy of the transcript is
(`file`). `cmd` is the command under way: what it awaits, and the Mac, the SDK id
and the handle it read before. A handle is that of the tracked session, closed, or
stray: its session was popped and opened anew, or never came back, so a turn on it
hears nothing.

| In the model | In the code |
|---|---|
| `New`, `Fork`, `Restart`, `Close`, `Move`, `Undo`, `Resume` | the handlers up to their first await on a Mac |
| `CloseEnds` | `SessionHandle.close` in its four outcomes, with what the caller does next |
| `StorePops` | the pop that follows `await mark_closed` in `SessionStore.close` |
| `MoveCopies`, `MovePersists`, `MoveSwaps` | steps 1-2, 3-4 and 5 of `cmd_move`, all under the lock |
| `OpenRefused`, `OpenRejected`, `OpenTimesOut`, `Opened` | what `open_session` may come to, with what the caller does next |
| `TurnBegins`, `IdAssigned`, `TurnEnds` | `on_topic_message`, the SDK's first message, the end of the turn |
| `Reaped`, `Evict` | the runner's idle reaper, `_dispatch` of its CLOSED, `on_runner_idle_reaped` before and after its await of the store |
| `Crash`, `Restore` | boot: which Macs get into the pool, `SessionStore.restore` |

Where the store is awaited between two steps on the registry the steps are apart:
`sessions.close` waits for mark_closed before it pops (`at = "storing"`), and a
reaper's notice for mark_orphaned before it evicts (`notices`), during which the
link's reader takes no other envelope (`Heard`).

The code loses track of a session in three ways, which the run takes and `astray`
records: a move goes ahead under a restart, since the restart takes no lock
(`bridge/bot.py:2399-2450`); a session is restored on the default Mac because its
own was asleep at the boot (`bridge/bot.py:3490`); a late notice of another Mac
falls between mark_closed and the pop (`bridge/sessions.py:96-98`) and orphans the
closed row. `ReopensFindLatest`, `TalksToLatest` and `StoreMatchesTable` hold
until then, and `ClosedStaysClosed` leaves the last window out.

What is assumed of the user is that commands on the topic come one at a time: each
is answered before the next is given, save that a restart, which is what one
reaches for when a turn hangs, may be given while a move waits for the lock. The
code does not enforce that, and two other commands at once are not modelled. What
is assumed of time is that SQLite commits a statement sooner than a user answers:
no /new, /undo, /resume, prune or change of the Macs comes while a notice waits
for the store (`Quiet`). Statements on the database do not fail, and take effect
in the order awaited. A transcript is good on a Mac if it has every turn of the
topic's conversation, written there or copied; two conversations of one topic are
not told apart; settings of a session are left out. A CLOSED that comes so late that
it closes the handle of the next session is left to `Settings`. Re-opening after a
reconnect is one step, as `BridgeLink` has the detail.

## Runs

| Run | Instance | Shows |
|---|---|---|
| `bridge_link` | 2 sessions, 1 RPC, symmetric | type and the five safety invariants, any number of drops, and a close() at any of its awaits |
| `bridge_link_live` | 1 session, 1 RPC | an interrupted turn ends, the reopening loop ends |
| `bridge_link_redrop` | same | violated: "forever (until close() is called)" |
| `runner_daemon` | 2 sids, 2 instances, symmetric | ownership of clients, no turn or open behind CLOSED, teardown |
| `runner_daemon_live` | 1 sid used twice | closes are answered, teardown terminates, idle sessions are freed |
| `approvals` | 2 requests of one tool, symmetric | the gate (refinement), one decision per request, live buttons, decisions arrive, every row has an answerer, no decision after EXPIRED |
| `approvals_live` | 1 request | a request with a saved card is answered or its session ends; every row is settled |
| `session_lifecycle` | 2 Macs, of which the laptop may sleep through a boot; up to 2 commands | until the session goes astray, the next open finds the whole transcript, turns go to a client that knows it, store and table agree; closed stays closed |
| `session_orphan_resume` | 2 Macs | violated: "The DB row keeps `runner_name` and `sdk_session_id`" |
| `questions` | 3 questions, the second multi-select with 2 options, 2 taps at a time | answers at their questions' places short of a question answered twice, one verdict, a finished flow comes to it |
| `turns` | 2 messages, symmetric; 2 events a turn, 1 drop or refusal | an answer is the whole of its own turn, a waiting message has an end to come, no stale "working..." |
| `settings` | 2 values; 3 changes or restarts, 2 drops, crashes or refusals | the copies of mode and model come to agree, thinking is what the session says, unless its handle was closed by a late CLOSED |

In the modules of the first four steps of the plan no counter is bounded: drops,
opens and turns repeat without limit in BridgeLink; in RunnerDaemon each instance
is used once, so the number of instances bounds how many sessions a run sees. Two
sessions are what the interleavings need (one that the reopening loop, the reaper
or the teardown is busy with, and one to which something happens meanwhile), and
two instances of one sid show reuse. In Approvals a request's tool_use id is used
once, as the SDK does; breaks, crashes, restarts and sweeps repeat without limit.
Two requests of the same tool are what the interleavings need: one is tapped,
swept or rendered while the other is, and an "always" for one is what the other
may run by. The liveness run needs one, since a request waits on another only
while its card is being rendered and a sweep takes rows one at a time. In
SessionLifecycle nothing is bounded but the Macs and the commands at once. With
two Macs a session moves away and back, onto the copy and the client it left; that
more Macs show nothing else is what the theorems are for. Two commands are what an
overtaken move takes. Deadlock checking is off because a closed link, a torn down
connection and a session whose requests are all settled may really stop.

Questions bounds the answers (`MaxAnswers`, 5): each tap records one, and with
three questions five leave room for two to be answered twice. Three questions have
a first, a middle and a last, and two taps are what it takes to meet at an await.
Turns bounds what a turn says (`MaxEvents`, 2: a text and a result, in either
order, or two texts) and its faults (`MaxFaults`, 1), and each message is sent
once: two messages are what the lock, and an answer that takes another's text,
need. Settings bounds commands (`MaxChanges`, 3: a change on either side of a
restart) and faults (`MaxFaults`, 2: a drop and a crash, or a drop during the
recovery from one).

Fairness is weak fairness of what the event loop schedules: a task whose await has
returned runs. For RunnerDaemon this includes that an SDK disconnect returns and
that a cancelled turn ends, which the code itself takes for granted. Nothing is
assumed of the network, of the user, of a running turn or of a dial.

Approvals takes weak fairness of the callbacks, handlers and deliveries, too, and
strong fairness of three things that crashes and failing ticks can interrupt again
and again: the reader coming to a card, and the sweep listing a row, reaching it
and finishing it. That is the assumption that a tick of the idle check, repeated
every few minutes, gets through in the end; with a Telegram call that fails on
every tick the code makes no such promise. Nothing is assumed of the user, who may
never tap: that a request is answered all the same is what `SavedIsAnswered` says.
It starts from a saved card, because a card that could not be sent for another
reason than TelegramBadRequest, or whose row could not be inserted, is not swept,
and the request waits until its session ends (see the hazards).

Questions takes weak fairness of the reader and of each tap's handler: an await on
Telegram returns or raises, as the client's time limit makes it. Turns and
Settings state no fairness; what they promise is safety. That a message's turn
ends is stated in Turns as an invariant, that its end is on its way.

## Findings

Two documented claims are refuted by runs, which give the shortest behaviour;
`PROJECT.json` has the lines. A link that drops again while its reconnect notices
are being posted is not dialled again (`bridge_link_redrop`). A session that was
resumed, undone or forked loses its SDK id in the table, and with it the next
/resume (`session_orphan_resume`).

The modules have the steps of these others, which no run is kept for:

- A drop with a turn in flight raises out of the runner's `_teardown`
  (`runner/server.py:541`) and leaks the SDK clients behind it; the module's
  docstring (`:26`) says that all sessions are torn down. `teardown = "aborted"`
  in RunnerDaemon.
- A Mac that sleeps while the bridge boots is not in the pool, and its session
  comes up on the default Mac with whatever copy is there (`bridge/bot.py:3490`,
  against `:1968-1969`). `astray` in SessionLifecycle.
- A restart does not hold the lock it says it holds (`bridge/bot.py:2414`, against
  `:2448-2449`), so a move goes ahead under it. `astray` in SessionLifecycle.
- A reaper's notice that falls between mark_closed and the pop of `sessions.close`
  turns the closed row into an orphaned one (`bridge/sessions.py:96-98`,
  `bridge/bot.py:3434-3442`). `astray`, too.
- A CLOSED that comes after `close()` has given up closes the handle of the
  session opened since, which then takes neither messages nor restarts until it is
  reaped or the bridge is restarted (`bridge/runner_client.py:536-546`, `:824`).
  `closed` in Settings.
- An error of a send between the dial and the re-open is taken for the re-open's,
  and its turn waits on although `turn()` promises to end "without hanging"
  (`bridge/runner_client.py:278-280`). `swallowed` in Turns.
- A re-open after a drop leaves thinking to the runner's default, so a session
  that was told not to think does (`bridge/runner_client.py:501-510`). `unawaited`
  in Settings.
- The user is told "permission mode →" of a change that the SDK refuses or is too
  early for (`bridge/bot.py:819-822`). `missed` in Settings.
- Two fast taps on one question count as two answers and skip the next question,
  where `tests/test_ask_user_question.py:174-176` calls the second of a double tap
  a no-op. That is true of the verdict (`OneVerdict`), not of the answers:
  `AnswersInPlace` in Questions says what holds.
- A close that times out forgets a session whose turn then waits for ever; the
  reaper closes a session whose turn began after its scan (both in Turns); and a
  card is edited to EXPIRED although its request was approved and its tool ran,
  when the bridge dies between sending the decision and deleting the row.

## Proofs

`BridgeLink_proofs` proves for every set of sessions and RPCs that `TypeOK` and
the five safety invariants hold. They are inductive relative to `TypeOK`
(`LinkInv`), one proof step per action; nothing is assumed of the constants.
`ClosedForGood` needs, besides, where `close()` is: `WhileClosing` says that
reconnecting is off from its call on, that the task it cancelled is one it awaits,
and that behind that no waiting `open_session` wakes.

`Approvals_proofs` proves, for every set of requests and tools and every /allow
list, that `TypeOK` and the four safety invariants hold and that the specification
implements the gate (`ApprovalsImplementGate`). The only assumption is
`ToolsAreKnown`, that each request asks for a known tool. The invariants are not
inductive by themselves: that an envelope carries *the* decision needs that an
undecided request has neither envelope nor result, that a registered entry is
undecided needs to know where the request still can be (not yet sent, not yet
shown, shown), and a row's answerer needs that its entry came before it.
`ApprovalInv` adds these as `SessionOnLink`, `NotYetSent`, `NotYetShown`,
`Returned`, `OpenUntilDecided`, `ApprovalsAreGiven` and `EntryBeforeRow`. The
refinement has one step per action: `Ask`, the steps that record a verdict,
`Return`, `Cancelled` and `AutoRun`, and the session's end and beginning map to
the gate's actions, everything else to a stutter. That no decision comes after
EXPIRED is an action property (`ExpiredIsFinal`) and rests on `ExpiryInv` besides:
a request that has a row, is listed by a sweep or is EXPIRED was shown
(`ListedWasShown`), and its entry is taken before the card is edited
(`TakenIsGone`), so nothing makes a new one for it.

`Questions_proofs` proves `TypeOK`, `AnswersInPlace` and `OneVerdict` for every
set of taps, number of questions and choice of multi-select ones, from the
assumptions on its constants. An answer is paid for by the handler that recorded
it: `AnswersAreCounted` says that the answers are at least the questions passed
and the handlers that have yet to advance, which needs that every step adds one,
takes one or leaves them (`EveryStepMoves`). `AnswersHavePlaces` says where each
stands: at its question's place, unless a question before it has two
(`PlacesKept`). `OneHolder` says that the reader, the entry and a finalizing
handler exclude each other.

`RunnerDaemon_proofs` proves `TypeOK`, `ClientsAreOwned`, `ClosedIsLastWord` and
`TeardownLeavesNothing` for every set of sids and of instances. The inductive
invariant is `DaemonInv`: a slot holds an instance that no task has popped
(`Slots`), a session that is opening is in its slot or was closed hastily
(`Openings`), who says CLOSED is past the turn (`Closers`), the reaper closes one
session at a time (`ReaperCloses`), and by the time the teardown lists the
sessions the reaper and all dispatch tasks are over (`TeardownStage`). That is why
a client is in the table until then (`Owned`) and on the teardown's list from then
on (`Listed`).

`Turns_proofs` proves `TypeOK`, `TurnHasEnd` and `NothingStale` for every set of
messages and all bounds; the assumptions are that the bounds are naturals and
`None` is no message. `TurnHasEnd` counts any error on its way as an end, and is
not inductive: the reader may take an error of no turn for the re-open's.
`HasFinal` counts only what nothing can take away, and `WaitsForFinal` adds that a
message being read has a queue. A step that consumes an end (`HandleSend`,
`HandleClose`, `EndTurn`, `Deliver`, `Drop`, `Reopen`) is shown to put one further
on; the others only add envelopes (`FinalStays`). What a close and the reaper do
to the runner's end is one lemma (`StopsIn`). `OneAtATime`, that the lock's head
is the one handler past it, is what keeps one message from replacing the queue of
another. `NothingStale` rests on it, too: the heartbeat is over before its message
is deleted (`BeatIsOver`), and a message in the topic is known (`BeatIsKnown`).

`TurnAnswers_proofs` proves `AnswerIsWhole` from these, again for every set of
messages and all bounds. The property counts the texts of a turn at its end; the
invariant has to say it of a turn whose texts are still in the queue and on the
wire. `ReadsWhole` does: reading on from the renderer's count, through the queue
and then through what is on the wire, leaves at the end what the runner has said.
To define that reading by recursion would call for induction over it, which no
installed prover does; `Reads` says instead that there *is* a run of counts with
the right ends and the right steps, and each step of the program makes the next
run from the last one (`ReadsAdded`, `ReadsTaken` and the like). An end is the
last of its turn on the wire (`EndIsLast`), all the texts there are belong to the
turn that is awaited (`OwnText`), and while no turn is awaited none is on the wire
(`NothingOfTurns`). Under these lie facts about the channels: a message is sent
once (`SentOnce`), and until the re-open of a dialled link is handled the runner
has no session to talk of, so it sends errors only (`WireInv`, `DownInv`).

`SessionLifecycle_proofs` proves all of it for every set of Macs, whichever of
them sleep through a boot, and any number of commands under way. `TypeOK` and
`ClosedStaysClosed` rest on `RowInv`, which holds in every state: who holds the
topic's session, that only a restart and a move are under way together (this from
the guards that say how commands are given), and that a registered session has an
active row unless the store is being told otherwise. `ReopensFindLatest`,
`TalksToLatest` and `StoreMatchesTable` rest on `SlotInv`, which holds until the
session goes astray (`SlotSafety`). If there is a transcript, the Mac that the
row, the session, /undo or the command under way names has all of it
(`WhereItIs`), an SDK id is known only when there is one (`IdMeansConversation`),
a command holds what it read (`CommandAt`), a restart overtakes only a move that
waits (`Apart`), the registry and the table differ only in what a boot or a move
has yet to write (`Agree`), turns add to the transcript only where the session is
(`TurnsWrite`), and /undo is of a closed session (`UndoOfClosed`). `CloseEnds` and
`Opened`, each several commands in one, have lemmas of their own (`CloseEffect`,
`OpenEffect`, `OpenedKeeps`).

`Settings_proofs` proves `TypeOK`, `SettingsAgree` and `ThinkingApplies` for all
values and all bounds, from `DefaultIsValue` and `BoundsAreNaturals`. The copies
agree when all is settled; on the way they do not, so the invariant says what the
updates and envelopes under way will leave behind. `WritesLeave` says it of the
store's queue, `SetsLeave` of the changes behind each envelope to the runner;
`RowFollows` and `SdkFollows` say that both leave what the handle says. `ThinkInv`
says that the one open on its way is the one that is awaited (`OneOpen`), that
OPENED answers it (`OpenedIsAwaited`), that a session whose CLOSED is on its way
or was heard is gone, unless its handle is the one a late CLOSED closed
(`ClosedIsGone`), and that what runs or will be opened thinks as the session says,
short of such a handle (`ThinksAsAsked`). All of `ThinkInv` holds until the runner
opens what nobody awaits.

Liveness under fairness is beyond the prover and is model-checked only, on the
instances of the runs: `TurnEndsAfterDrop` and `ReopeningEnds` (BridgeLink),
`CloseIsAnswered`, `TeardownTerminates` and `IdleIsReaped` (RunnerDaemon),
`SavedIsAnswered` and `RowsSettle` (Approvals), `AnsweredIsSent` (Questions).

## Not modelled

- The wire protocol: HMAC and parsing are pure; a frame that does not pass is
  lost, which the modules have as a drop or a fault.
- The Telegram retry is a middleware without state; a call in the modules is the
  call with its retries.
- Bot-wide defaults, profiles and their cards, /allow and the folder browser: what
  they keep is a cache without a bound on its age, and taps that nothing guards.
  The hazards name what was met there, and no document promises otherwise. (The
  profile buttons never reach their handler: the prefix `ct:p:` is taken by the
  approval cards.)
- /export, /get, /search, /logs, /rewind and the statistics are one RPC each.
- The payloads of RPCs, ping bookkeeping, the message log, the schema's
  migrations.
- The runner's teardown on SIGTERM, which runs while envelopes still arrive.
- The dashboard, transcription, SDK tools and the runner's start-up code keep no
  state the above depends on.

Telegram, the WebSocket library and the SDK are external; the modules model what
the code sees of them.
