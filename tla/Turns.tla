------------------------------- MODULE Turns -------------------------------
(***************************************************************************)
(* The turns of one session, end to end: the bridge's handlers of messages *)
(* (on_topic_message and on_media_message of bridge/bot.py), which take    *)
(* turns by the topic's lock; SessionHandle.turn and the reader            *)
(* (bridge/runner_client.py); the runner's _handle_send and _drive_turn    *)
(* (runner/server.py); and the TopicRenderer of each message with its      *)
(* heartbeat (bridge/streaming.py).                                        *)
(*                                                                         *)
(* Both directions of the link are FIFO.  The runner's stream ends with    *)
(* TURN_END; its errors, of a turn or of anything else asked of the        *)
(* session, come on the same stream and say not which turn they are of.    *)
(* Left out: a close that cancels the very send of TURN_END, after which   *)
(* the runner sends a second one.                                          *)
(* What else the link, the daemon and the table of sessions do is in       *)
(* BridgeLink, RunnerDaemon and SessionLifecycle.                          *)
(***************************************************************************)
EXTENDS Naturals, Sequences, FiniteSets

CONSTANTS Msg,          \* messages of the user, each with its handler
          None,
          MaxEvents,    \* bound on the texts and results of a turn
          MaxFaults     \* bound on drops of the link and refusals of the SDK

ASSUME NoneIsNoMessage == None \notin Msg
ASSUME BoundsAreNaturals == MaxEvents \in Nat /\ MaxFaults \in Nat

VARIABLES
  task,       \* each handler: what it awaits
  lock,       \* turn_lock: who holds it, then who waits
  queue,      \* state.turn_queue: whether there is one, and its items
  tracked,    \* whether the session is in the link's _sessions
  opened,     \* state.opened
  closed,     \* state.closed
  closing,    \* whether close() has sent T_CLOSE
  named,      \* whether a text or a re-open has shown that state.sdk_session_id is set;
              \* until then the session may have been resumed, or not
  link,       \* the WebSocket, as both ends see it; "dialled" until the re-open
  up, down,   \* envelopes to the runner and from it
  faults,     \* drops and refusals so far
  present,    \* the runner's session: "no", "starting" its SDK, "open"
  drive,      \* the message of its latest turn_task
  stage,      \* where that task is; done when "idle"
  emitted,    \* texts and results it sent
  said,       \* history: texts among them since the last result
  buffer,     \* _post_tool_texts of the lock holder's renderer: each text's turn
  errored,    \* its _errored
  heartbeat,  \* its heartbeat task
  known,      \* whether it has a _heartbeat_msg_id
  working,    \* whether its "working..." is in the topic
  mishap,     \* history: Telegram failed at sending or removing it, or the send was
              \* cancelled under way
  clean,      \* history: no turn was ended by an error of the runner
  swallowed   \* history: an error meant for a turn was taken for the re-open's

turnVars   == <<task, lock, queue>>
stateVars  == <<tracked, opened, closed, closing, named>>
wireVars   == <<link, up, down, faults>>
runnerVars == <<present, drive, stage, emitted, said>>
beatVars   == <<heartbeat, known, working, mishap>>
showVars   == <<buffer, errored>>
pastVars   == <<clean, swallowed>>
vars == <<turnVars, stateVars, wireVars, runnerVars, beatVars, showVars, pastVars>>

Envelope(k, m) == [type |-> k, of |-> m]

Request == [type : {"send", "open", "close"}, of : Msg \cup {None}]
Event   == [type : {"text", "result", "end", "error", "opened", "closed", "dropped"},
            of : Msg \cup {None}]

TypeOK ==
  /\ task \in [Msg -> {"new", "waiting", "streaming", "ending", "deleting", "posting",
                       "done"}]
  /\ lock \in Seq(Msg)
  /\ queue \in [on : BOOLEAN, items : Seq(Event)]
  /\ tracked \in BOOLEAN /\ opened \in BOOLEAN /\ closed \in BOOLEAN
  /\ closing \in BOOLEAN /\ named \in BOOLEAN /\ present \in {"no", "starting", "open"}
  /\ link \in {"up", "down", "dialled"}
  /\ up \in Seq(Request) /\ down \in Seq(Event)
  /\ drive \in Msg \cup {None} /\ stage \in {"idle", "streaming", "ended"}
  /\ emitted \in 0 .. MaxEvents /\ said \in 0 .. emitted
  /\ faults \in 0 .. MaxFaults
  /\ buffer \in Seq(Msg \cup {None})
  /\ errored \in BOOLEAN /\ known \in BOOLEAN
  /\ working \in BOOLEAN /\ mishap \in BOOLEAN
  /\ heartbeat \in {"over", "delay", "sending", "on"}
  /\ clean \in BOOLEAN /\ swallowed \in BOOLEAN

NoQueue == [on |-> FALSE, items |-> <<>>]

Init ==
  /\ task = [m \in Msg |-> "new"]
  /\ lock = <<>> /\ queue = NoQueue
  /\ tracked = TRUE /\ opened = TRUE /\ closed = FALSE /\ closing = FALSE
  /\ named = FALSE
  /\ link = "up" /\ up = <<>> /\ down = <<>> /\ faults = 0
  /\ present = "open" /\ drive = None /\ stage = "idle"
  /\ emitted = 0 /\ said = 0
  /\ heartbeat = "over" /\ known = FALSE /\ working = FALSE /\ mishap = FALSE
  /\ buffer = <<>> /\ errored = FALSE
  /\ clean = TRUE /\ swallowed = FALSE

Goes(m, from, to) == task[m] = from /\ task' = [task EXCEPT ![m] = to]

Connected == link # "down"
Driving   == stage = "streaming"

-----------------------------------------------------------------------------
(* The runner.  Requests are dispatched in order, each in a task of its own.  *)

Handles(k) == Connected /\ up # <<>> /\ Head(up).type = k /\ up' = Tail(up)
Reports(es) == down' = down \o es

\* Bug: what the turn before said still counts.
StartTurnKeeps(m) ==
  /\ drive' = m /\ stage' = "streaming"
  /\ emitted' = 0
  /\ UNCHANGED <<said, down>>

\* A turn_task for the message.
StartTurn(m) ==
  /\ drive' = m /\ stage' = "streaming"
  /\ emitted' = 0 /\ said' = 0
  /\ UNCHANGED down

\* One that fails at once: the SDK is not connected.
FailAtOnce(m) ==
  /\ drive' = m /\ emitted' = 0 /\ said' = 0
  /\ Reports(<<Envelope("error", m), Envelope("end", m)>>)
  /\ UNCHANGED stage

\* _handle_send: no session, a turn task that is not done, or a new one.
HandleSend ==
  LET m == Head(up).of IN
  /\ Handles("send")
  /\ \/ /\ present = "no" \/ stage # "idle"
        /\ Reports(<<Envelope("error", m)>>)
        /\ UNCHANGED <<drive, stage, emitted, said>>
     \/ present # "no" /\ stage = "idle" /\ StartTurn(m)
     \/ present = "starting" /\ stage = "idle" /\ FailAtOnce(m)
  /\ UNCHANGED <<turnVars, stateVars, link, faults, present, beatVars, showVars, pastVars>>

\* _handle_open of a re-open takes the slot, unless it is taken ...
HandleOpen ==
  /\ Handles("open")
  /\ IF present = "no"
       THEN present' = "starting" /\ UNCHANGED down
       ELSE UNCHANGED present /\ Reports(<<Envelope("error", None)>>)
  /\ UNCHANGED <<turnVars, stateVars, link, faults, drive, stage, emitted, said, beatVars,
                 showVars, pastVars>>

\* ... and the SDK has started, or will not.
StartReturns ==
  /\ Connected /\ present = "starting"
  /\ \/ present' = "open" /\ Reports(<<Envelope("opened", None)>>)
     \/ present' = "no" /\ Reports(<<Envelope("error", None)>>)
  /\ UNCHANGED <<turnVars, stateVars, link, up, faults, drive, stage, emitted, said, beatVars,
                 showVars, pastVars>>

\* The session stops: its turn is cancelled, which sends TURN_END, and CLOSED follows.
Stops ==
  /\ present' = "no" /\ stage' = "idle"
  /\ Reports((IF Driving THEN <<Envelope("end", drive)>> ELSE <<>>)
             \o <<Envelope("closed", None)>>)

\* _handle_close.
HandleClose ==
  /\ Handles("close")
  /\ IF present = "no" THEN UNCHANGED <<present, stage, down>> ELSE Stops
  /\ UNCHANGED <<turnVars, stateVars, link, faults, drive, emitted, said, beatVars, showVars,
                 pastVars>>

\* The reaper.  It lists no session with a turn, but its list is stale: a turn may have
\* begun since, and is cancelled like that of a close.
Reap ==
  /\ Connected /\ present = "open"
  /\ Stops
  /\ UNCHANGED <<turnVars, stateVars, link, up, faults, drive, emitted, said, beatVars,
                 showVars, pastVars>>

\* _handle_set_mode or _handle_set_model on an SDK that refuses, or no session.
Refuse ==
  /\ Connected
  /\ faults < MaxFaults
  /\ faults' = faults + 1
  /\ Reports(<<Envelope("error", None)>>)
  /\ UNCHANGED <<turnVars, stateVars, link, up, present, drive, stage, emitted, said,
                 beatVars, showVars, pastVars>>

\* A message of the SDK, translated.  What is neither text nor result is only
\* logged by the bridge.
Emit(k) ==
  /\ Connected /\ Driving
  /\ emitted < MaxEvents
  /\ emitted' = emitted + 1
  /\ said' = IF k = "text" THEN said + 1 ELSE 0
  /\ Reports(<<Envelope(k, drive)>>)
  /\ UNCHANGED <<turnVars, stateVars, link, up, faults, present, drive, stage, beatVars,
                 showVars, pastVars>>

\* The SDK's ResultMessage, by itself or after an interrupt, or its exception: an
\* error, and TURN_END all the same.
EndTurn ==
  /\ Connected /\ Driving
  /\ stage' = "ended"
  /\ \/ Reports(<<Envelope("end", drive)>>)
     \/ Reports(<<Envelope("error", drive), Envelope("end", drive)>>)
  /\ UNCHANGED <<turnVars, stateVars, link, up, faults, present, drive, emitted, said,
                 beatVars, showVars, pastVars>>

\* The send of TURN_END returned.
TaskDone ==
  /\ stage = "ended"
  /\ stage' = "idle"
  /\ UNCHANGED <<turnVars, stateVars, wireVars, present, drive, emitted, said,
                 beatVars, showVars, pastVars>>

-----------------------------------------------------------------------------
(* The link, its reader and its reconnect task.                            *)

\* What an iterator waits for, it is told; nobody is, without one.
Tells(e) ==
  queue' = IF queue.on THEN [queue EXCEPT !.items = Append(@, e)] ELSE queue

\* _dispatch, by the event's type, or of no session.  The SDK id comes before the first text
\* or result.  A reaper's CLOSED forgets the session, any other wakes the close() that does.
Deliver ==
  LET e == Head(down) IN
  /\ Connected /\ down # <<>>
  /\ down' = Tail(down)
  /\ named' = (named \/ (tracked /\ e.type \in {"text", "result"}))
  /\ CASE ~tracked -> UNCHANGED <<queue, tracked, opened, closed, closing, swallowed>>
       [] tracked /\ e.type = "opened" ->
            /\ opened' = TRUE
            /\ UNCHANGED <<queue, tracked, closed, closing, swallowed>>
       [] tracked /\ e.type = "closed" ->
            /\ Tells(e)
            /\ closed' = TRUE /\ tracked' = FALSE
            /\ UNCHANGED <<opened, closing, swallowed>>
       [] tracked /\ e.type = "error" /\ ~opened ->
            /\ opened' = TRUE
            /\ swallowed' = (swallowed \/ (queue.on /\ e.of # None))
            /\ UNCHANGED <<queue, tracked, closed, closing>>
       [] OTHER -> Tells(e) /\ UNCHANGED <<tracked, opened, closed, closing, swallowed>>
  /\ UNCHANGED <<task, lock, link, up, faults, runnerVars, beatVars, showVars, clean>>

\* The runner tears its sessions down.
Cut ==
  /\ Connected /\ faults < MaxFaults
  /\ faults' = faults + 1
  /\ link' = "down" /\ up' = <<>> /\ down' = <<>>
  /\ present' = "no" /\ stage' = "idle"
  /\ UNCHANGED <<task, lock, stateVars, drive, emitted, said, beatVars, showVars,
                 pastVars>>

\* Bug: a turn under way is not told.
DropUntold == Cut /\ UNCHANGED queue

\* _on_disconnect: so is every turn under way of a session that is tracked.
Drop ==
  /\ Cut
  /\ IF tracked THEN Tells(Envelope("dropped", None)) ELSE UNCHANGED queue

\* Dialled: from here on whoever sends has a link.
Dial ==
  /\ link = "down"
  /\ link' = "dialled"
  /\ UNCHANGED <<turnVars, stateVars, up, down, faults, runnerVars, beatVars, showVars,
                 pastVars>>

\* _reopen_sessions: the re-open is sent; or there is no SDK id to resume, and the
\* session is dropped, whether or not a turn of it has begun.
Reopen ==
  /\ link = "dialled"
  /\ link' = "up"
  /\ \/ ~tracked /\ UNCHANGED <<queue, stateVars, up>>
     \/ /\ tracked
        /\ opened' = FALSE /\ named' = TRUE
        /\ up' = Append(up, Envelope("open", None))
        /\ UNCHANGED <<queue, tracked, closed, closing>>
     \/ /\ tracked /\ ~named
        /\ Tells(Envelope("closed", None))
        /\ closed' = TRUE /\ tracked' = FALSE
        /\ UNCHANGED <<opened, closing, named, up>>
  /\ UNCHANGED <<task, lock, down, faults, runnerVars, beatVars, showVars, pastVars>>

\* SessionHandle.close ...
Close ==
  /\ tracked /\ ~closing /\ Connected
  /\ closing' = TRUE
  /\ up' = Append(up, Envelope("close", None))
  /\ UNCHANGED <<turnVars, tracked, opened, closed, named, link, down, faults, runnerVars, beatVars,
                 showVars, pastVars>>

\* ... which waits for CLOSED for 5 s.
CloseTimesOut ==
  /\ closing /\ tracked
  /\ tracked' = FALSE
  /\ UNCHANGED <<turnVars, opened, closed, closing, named, wireVars, runnerVars, beatVars, showVars,
                 pastVars>>

-----------------------------------------------------------------------------
(* The message's handler.                                                  *)

\* The session is looked up, the message logged; then the lock, which is fair.
Arrive(m) ==
  /\ tracked /\ ~closed
  /\ Goes(m, "new", "waiting")
  /\ lock' = Append(lock, m)
  /\ UNCHANGED <<queue, stateVars, wireVars, runnerVars, beatVars, showVars, pastVars>>

Holds(m) == lock # <<>> /\ Head(lock) = m

\* A renderer, and what is left of it when its message is done.
NewRenderer(failed, beat) ==
  /\ buffer' = <<>> /\ errored' = failed
  /\ heartbeat' = beat
  /\ known' = FALSE /\ working' = FALSE /\ mishap' = FALSE

\* The handler ends, and the lock is released.
Leaves(m, from) ==
  /\ Goes(m, from, "done")
  /\ lock' = Tail(lock)
  /\ NewRenderer(FALSE, "over")
  /\ UNCHANGED <<queue, stateVars, wireVars, runnerVars, pastVars>>

\* renderer.start, and turn() up to its first wait on the queue.
Begin(m) ==
  /\ Holds(m)
  /\ ~closed /\ Connected
  /\ Goes(m, "waiting", "streaming")
  /\ NewRenderer(FALSE, "delay")
  /\ queue' = [on |-> TRUE, items |-> <<>>]
  /\ up' = Append(up, Envelope("send", m))
  /\ UNCHANGED <<lock, stateVars, link, down, faults, runnerVars, pastVars>>

\* turn() raises: the session was closed while the message waited, or no link.
BeginFails(m) ==
  /\ Holds(m)
  /\ closed \/ ~Connected
  /\ Goes(m, "waiting", "ending")
  /\ NewRenderer(TRUE, "delay")
  /\ UNCHANGED <<lock, queue, stateVars, wireVars, runnerVars, pastVars>>

First == Head(queue.items)
Takes(m, kinds) == task[m] = "streaming" /\ queue.items # <<>> /\ First.type \in kinds
Rest == queue' = [queue EXCEPT !.items = Tail(@)]

TakeText(m) ==
  /\ Takes(m, {"text"}) /\ Rest
  /\ buffer' = Append(buffer, First.of)
  /\ UNCHANGED <<task, lock, stateVars, wireVars, runnerVars, beatVars, errored, pastVars>>

\* Bug: interludes are kept.
TakeResultKeeps(m) ==
  /\ Takes(m, {"result"}) /\ Rest
  /\ UNCHANGED <<task, lock, stateVars, wireVars, runnerVars, beatVars, showVars, pastVars>>

\* Only texts after the last result are the answer.
TakeResult(m) ==
  /\ Takes(m, {"result"}) /\ Rest
  /\ buffer' = <<>>
  /\ UNCHANGED <<task, lock, stateVars, wireVars, runnerVars, beatVars, errored, pastVars>>

\* TURN_END or the session's end: the iterator is exhausted.
TakeEnd(m) ==
  /\ Takes(m, {"end", "closed"})
  /\ Goes(m, "streaming", "ending")
  /\ queue' = NoQueue
  /\ UNCHANGED <<lock, stateVars, wireVars, runnerVars, beatVars, showVars, pastVars>>

\* An error raises, whatever it is of, and the queue is abandoned.
TakeError(m) ==
  /\ Takes(m, {"error", "dropped"})
  /\ Goes(m, "streaming", "ending")
  /\ queue' = NoQueue
  /\ errored' = TRUE
  /\ clean' = (clean /\ First.type = "dropped")
  /\ UNCHANGED <<lock, stateVars, wireVars, runnerVars, beatVars, buffer, swallowed>>

-----------------------------------------------------------------------------
(* The renderer.                                                           *)

BeatSends ==
  /\ heartbeat = "delay"
  /\ heartbeat' = "sending"
  /\ UNCHANGED <<turnVars, stateVars, wireVars, runnerVars, known, working, mishap, showVars,
                 pastVars>>

\* send_message returns, after which the task only edits; or it fails, the message
\* posted or not, and the task is over.
BeatSent ==
  /\ heartbeat = "sending"
  /\ \/ /\ heartbeat' = "on" /\ known' = TRUE
        /\ working' = TRUE
        /\ UNCHANGED mishap
     \/ /\ heartbeat' = "over" /\ UNCHANGED known
        /\ working' \in BOOLEAN
        /\ mishap' = TRUE
  /\ UNCHANGED <<turnVars, stateVars, wireVars, runnerVars, showVars, pastVars>>

\* Bug: the heartbeat message is left to its task.
CancelBeatLeaves(m) ==
  /\ Goes(m, "ending", "posting")
  /\ heartbeat' = "over"
  /\ UNCHANGED <<lock, queue, stateVars, wireVars, runnerVars, known, working, mishap,
                 showVars, pastVars>>

\* finish, or render_error: _cancel_heartbeat.  A message that is being sent may
\* be posted all the same, and nobody has its id.
CancelBeat(m) ==
  /\ Goes(m, "ending", IF known THEN "deleting" ELSE "posting")
  /\ heartbeat' = "over"
  /\ IF heartbeat = "sending"
       THEN working' \in BOOLEAN /\ mishap' = TRUE
       ELSE UNCHANGED <<working, mishap>>
  /\ UNCHANGED <<lock, queue, stateVars, wireVars, runnerVars, known, showVars, pastVars>>

\* _delete_heartbeat_msg: deleted, or edited instead, or Telegram refuses both.
Deleted(m) ==
  /\ Goes(m, "deleting", "posting")
  /\ known' = FALSE
  /\ \/ working' = FALSE /\ UNCHANGED mishap
     \/ UNCHANGED working /\ mishap' = TRUE
  /\ UNCHANGED <<lock, queue, stateVars, wireVars, runnerVars, heartbeat, showVars, pastVars>>

\* Any other failure of it, after which nothing is posted.
DeleteFails(m) == Leaves(m, "deleting")

\* The answer or the error is sent, or cannot be.
Posted(m) == Leaves(m, "posting")

-----------------------------------------------------------------------------

Take(m) == TakeText(m) \/ TakeResult(m) \/ TakeEnd(m) \/ TakeError(m)

Ending(m) ==
  \/ CancelBeat(m)
  \/ Deleted(m) \/ DeleteFails(m)
  \/ Posted(m)

Next ==
  \/ HandleSend \/ HandleOpen \/ StartReturns \/ HandleClose \/ Reap \/ Refuse
  \/ \E k \in {"text", "result"} : Emit(k)
  \/ EndTurn \/ TaskDone
  \/ Deliver \/ Drop \/ Dial \/ Reopen
  \/ Close \/ CloseTimesOut
  \/ \E m \in Msg :
       \/ Arrive(m) \/ Begin(m) \/ BeginFails(m) \/ Take(m)
       \/ Ending(m)
  \/ BeatSends \/ BeatSent

Spec == Init /\ [][Next]_vars

-----------------------------------------------------------------------------
(* Properties.                                                             *)

\* As long as no turn was cut short by an error of the runner, the answer to a
\* message is the whole of what its own turn said after its last tool result, and
\* nothing of any other turn.
AnswerIsWhole ==
  clean => \A m \in Msg :
    (task[m] \in {"ending", "deleting", "posting"} /\ ~errored) =>
      buffer = [i \in 1 .. (IF drive = m THEN said ELSE 0) |-> m]

Ends == {"end", "error", "closed", "dropped"}

\* There is an end to come for the message: in its queue, on the wire, or by the
\* runner, which is at its turn or has yet to see the message.
HasEnd(m) ==
  \/ \E i \in DOMAIN queue.items : queue.items[i].type \in Ends
  \/ \E i \in DOMAIN down : down[i].type \in Ends
  \/ \E i \in DOMAIN up : up[i] = Envelope("send", m)
  \/ drive = m /\ Driving

\* A message that waits for events has an end to come, as long as close() has not
\* given the session up and no error was taken for the re-open's.
TurnHasEnd ==
  (tracked /\ ~swallowed) => \A m \in Msg : task[m] = "streaming" => HasEnd(m)

\* When the answer is posted, "working..." has gone from the topic, unless Telegram
\* failed at sending or removing it or it was cancelled as it was being sent.
NothingStale ==
  (working /\ ~mishap) => \A m \in Msg : task[m] # "posting"

=============================================================================
