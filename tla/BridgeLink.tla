----------------------------- MODULE BridgeLink -----------------------------
(***************************************************************************)
(* The bridge's end of one bridge <-> runner WebSocket: RunnerConnection   *)
(* of src/ct/bridge/runner_client.py, with the SessionHandle operations    *)
(* that go through it.  One asyncio loop runs everything, so a step of the *)
(* code from one await to the next is one action here; what interleaves    *)
(* is the reader task, the reconnect task, and the coroutines of the bot   *)
(* that are inside open_session, turn, close or an RPC.                    *)
(*                                                                         *)
(* The runner at the other end is not modelled here: any envelope it can   *)
(* send may arrive for a session the link carries (see RunnerDaemon for    *)
(* what it does send).  Of a turn queue only the first terminal item       *)
(* matters, because turn() stops reading there, so turn[s] records that    *)
(* item instead of the queue.                                              *)
(***************************************************************************)
EXTENDS Naturals

CONSTANTS Sid,   \* session ids (the Telegram thread ids, as strings)
          Rpc    \* connection-level calls: list_dir, ping, upload, ...

VARIABLES
  ws,              \* _ws: "none"; "up"; "dead" = closed, reader not told yet
  autoReconnect,   \* _auto_reconnect
  closing,         \* RunnerConnection.close: what it awaits
  reconnectTask,   \* _reconnect_task: what the task is awaiting, or "none"
  todo,            \* _reopen_sessions: sids of its snapshot still to visit
  reopenedAny,     \* _reopen_sessions: its result is not empty
  sessions,        \* the keys of _sessions
  resumable,       \* sids whose state has an sdk_session_id
  opened,          \* sids whose `opened` event is set
  openError,       \* sids whose open_error is set
  closed,          \* sids whose `closed` event is set
  handles,         \* sids with a handle whose `closed` event is not set
  opener,          \* open_session's wait on `opened`
  closers,         \* sids with a SessionHandle.close waiting on `closed`
  turn,            \* turn_queue: "idle" = None, "waiting" = no terminal item
  pendingCalls,    \* _pending_calls: RPCs whose future is not done
  carried,         \* history: sessions whose T_OPEN went out on this ws
  answered         \* history: sessions the runner answered on this ws

linkVars    == <<ws, autoReconnect, closing>>
taskVars    == <<reconnectTask, todo, reopenedAny>>
stateVars   == <<resumable, opened, openError, closed>>
waitVars    == <<handles, opener, closers>>
historyVars == <<carried, answered>>
vars == <<linkVars, taskVars, sessions, stateVars, waitVars, turn,
          pendingCalls, historyVars>>

WsState   == {"none", "up", "dead"}
Closing   == {"no", "task", "reader", "socket", "done"}
TaskState == {"none", "dialing", "reopening", "notifying", "cancelled"}
Opener    == {"idle", "waiting", "woken"}
TurnState == {"idle", "waiting", "over"}

TypeOK ==
  /\ ws \in WsState
  /\ autoReconnect \in BOOLEAN
  /\ closing \in Closing
  /\ reconnectTask \in TaskState
  /\ reopenedAny \in BOOLEAN
  /\ todo \subseteq Sid
  /\ sessions \subseteq Sid
  /\ resumable \subseteq Sid
  /\ opened \subseteq Sid
  /\ openError \subseteq Sid
  /\ closed \subseteq Sid
  /\ handles \subseteq Sid
  /\ opener \in [Sid -> Opener]
  /\ closers \subseteq Sid
  /\ turn \in [Sid -> TurnState]
  /\ pendingCalls \subseteq Rpc
  /\ carried \subseteq Sid
  /\ answered \subseteq Sid

\* RunnerPool.add_runner registers a connection only once connect() succeeded.
Init ==
  /\ ws = "up"
  /\ autoReconnect = TRUE
  /\ closing = "no"
  /\ reconnectTask = "none"
  /\ todo = {} /\ reopenedAny = FALSE
  /\ sessions = {} /\ resumable = {} /\ opened = {} /\ openError = {}
  /\ closed = {} /\ handles = {} /\ closers = {}
  /\ opener = [s \in Sid |-> "idle"]
  /\ turn = [s \in Sid |-> "idle"]
  /\ pendingCalls = {}
  /\ carried = {} /\ answered = {}

-----------------------------------------------------------------------------

\* A coroutine that an event woke returns even when the event is cleared
\* before it runs.
Wake(waiter, s) ==
  IF waiter[s] = "waiting" THEN [waiter EXCEPT ![s] = "woken"] ELSE waiter

\* The first terminal item of each waiting queue in S; turn() reads no further.
EndTurns(S) ==
  turn' = [s \in Sid |-> IF s \in S /\ turn[s] = "waiting" THEN "over" ELSE turn[s]]

\* closed.set(): the handle takes no turn any more.
SetClosed(S) ==
  /\ closed' = closed \cup S
  /\ handles' = handles \ S

\* _sessions.pop.  Of a popped state object the reopening loop still reads
\* sdk_session_id if its snapshot has it; `opened` is read by nobody any more.
Forget(S) ==
  /\ sessions' = sessions \ S
  /\ resumable' = resumable \ (S \ todo)
  /\ opened' = opened \ S
  /\ carried' = carried \ S
  /\ answered' = answered \ S

\* _send: raises without a socket; on a socket whose peer is gone, or that close()
\* is closing, it raises or loses the frame, depending on how far that has come.
SendMayPass  == ws \in {"up", "dead"}
SendMayRaise == ws \in {"none", "dead"} \/ closing = "socket"

-----------------------------------------------------------------------------
(* The socket and the reader task.                                         *)

\* The reader task runs until the socket is closed or close() cancels it.
Reading == ws # "none" /\ closing \in {"no", "task"}

\* The peer, or the network between, closes the socket.
Drop ==
  /\ ws = "up"
  /\ ws' = "dead"
  /\ UNCHANGED <<autoReconnect, closing, taskVars, sessions, stateVars, waitVars, turn,
                 pendingCalls, historyVars>>

StartReconnectTask ==
  reconnectTask' = IF autoReconnect /\ reconnectTask = "none"
                     THEN "dialing" ELSE reconnectTask

\* Bug: the in-flight turns are not told.
DisconnectForgetsTurns ==
  /\ Reading /\ ws = "dead"
  /\ ws' = "none"
  /\ pendingCalls' = {}
  /\ carried' = {} /\ answered' = {}
  /\ StartReconnectTask
  /\ UNCHANGED <<autoReconnect, closing, todo, reopenedAny, sessions, stateVars, waitVars, turn>>

\* Bug: the pending RPC futures are left to their timeouts.
DisconnectForgetsCalls ==
  /\ Reading /\ ws = "dead"
  /\ ws' = "none"
  /\ EndTurns(sessions)
  /\ carried' = {} /\ answered' = {}
  /\ StartReconnectTask
  /\ UNCHANGED <<autoReconnect, closing, todo, reopenedAny, sessions, stateVars, waitVars,
                 pendingCalls>>

\* The reader loop ends and runs _on_disconnect, which has no await.
Disconnect ==
  /\ Reading /\ ws = "dead"
  /\ ws' = "none"
  /\ EndTurns(sessions)
  /\ pendingCalls' = {}
  /\ carried' = {} /\ answered' = {}
  /\ StartReconnectTask
  /\ UNCHANGED <<autoReconnect, closing, todo, reopenedAny, sessions, stateVars, waitVars>>

-----------------------------------------------------------------------------
(* The reconnect task: _reconnect_loop and _reopen_sessions.               *)

\* Where the task is once it has visited all of its snapshot but `rest`: when
\* nothing is left, on_reconnect is awaited (a Telegram message per topic), but
\* only if a session was reopened; otherwise the task returns at once.
LoopAt(rest, any) ==
  IF rest # {} THEN "reopening" ELSE IF any THEN "notifying" ELSE "none"

\* Bug: only the sessions that are fully open are opened again.
DialSnapshotsOpened ==
  /\ reconnectTask = "dialing"
  /\ ws' = "up"
  /\ todo' = sessions \cap opened
  /\ reconnectTask' = LoopAt(todo', FALSE)
  /\ UNCHANGED <<autoReconnect, closing, reopenedAny, sessions, stateVars,
                 waitVars, turn, pendingCalls, historyVars>>

\* connect() succeeds: a new reader task starts and the session snapshot is
\* taken, with no await between them.  A refused dial only sleeps.  The code
\* awaits in the sends of the loop alone; the model lets others run between any
\* two of its visits, which only adds behaviours.
Dial ==
  /\ reconnectTask = "dialing"
  /\ ws' = "up"
  /\ todo' = sessions
  /\ reconnectTask' = LoopAt(todo', FALSE)
  /\ UNCHANGED <<autoReconnect, closing, reopenedAny, sessions, stateVars,
                 waitVars, turn, pendingCalls, historyVars>>

\* connect() raises something other than OSError (a handshake the peer breaks
\* off raises InvalidMessage): only `finally` runs.
DialRaises ==
  /\ reconnectTask = "dialing"
  /\ reconnectTask' = "none"
  /\ UNCHANGED <<linkVars, todo, reopenedAny, sessions, stateVars,
                 waitVars, turn, pendingCalls, historyVars>>

\* A session that never had a turn has nothing to resume: it is dropped.
DropUnresumable(s) ==
  /\ reconnectTask = "reopening"
  /\ s \in todo \ resumable
  /\ todo' = todo \ {s}
  /\ reconnectTask' = LoopAt(todo', reopenedAny)
  /\ SetClosed({s})
  /\ EndTurns({s})
  /\ Forget({s})
  /\ UNCHANGED <<linkVars, reopenedAny, openError, opener, closers, pendingCalls>>

\* The send of one T_OPEN of the loop; if it raises the loop goes on.
SendReopen(s) ==
  \/ /\ SendMayPass
     /\ carried' = carried \cup {s}
     /\ reopenedAny' = TRUE
  \/ /\ SendMayRaise
     /\ UNCHANGED <<carried, reopenedAny>>

\* Bug: `opened` keeps the value the previous link gave it.
ReopenKeepsOpened(s) ==
  /\ reconnectTask = "reopening"
  /\ s \in todo \cap resumable
  /\ todo' = todo \ {s}
  /\ SendReopen(s)
  /\ reconnectTask' = LoopAt(todo', reopenedAny')
  /\ UNCHANGED <<linkVars, sessions, stateVars, waitVars, turn, pendingCalls,
                 answered>>

\* T_OPEN with resume= for one session of the snapshot.
Reopen(s) ==
  /\ reconnectTask = "reopening"
  /\ s \in todo \cap resumable
  /\ todo' = todo \ {s}
  /\ opened' = opened \ {s}
  /\ openError' = openError \ {s}
  /\ SendReopen(s)
  /\ reconnectTask' = LoopAt(todo', reopenedAny')
  /\ UNCHANGED <<linkVars, sessions, resumable, closed, waitVars, turn,
                 pendingCalls, answered>>

\* Bug: a finished task object is left behind where None is expected.
NotifyLeavesTask ==
  /\ reconnectTask = "notifying"
  /\ reconnectTask' = "done"
  /\ reopenedAny' = FALSE
  /\ UNCHANGED <<linkVars, todo, sessions, stateVars, waitVars, turn,
                 pendingCalls, historyVars>>

\* on_reconnect returned or raised; the task returns whatever ws is by now.
NotifyDone ==
  /\ reconnectTask = "notifying"
  /\ reconnectTask' = "none"
  /\ reopenedAny' = FALSE
  /\ UNCHANGED <<linkVars, todo, sessions, stateVars, waitVars, turn,
                 pendingCalls, historyVars>>

-----------------------------------------------------------------------------
(* RunnerConnection.close, which awaits the reconnect task, the reader task *)
(* and the socket in turn.  Each task gets a CancelledError at its next     *)
(* step, which none of its handlers keeps from ending it.                   *)

\* Every turn ends and every session is forgotten; the pending RPCs are left to
\* their timeouts.  A reader that is done is not awaited, nor is a socket closed.
CloseSessions ==
  /\ SetClosed(sessions)
  /\ EndTurns(sessions)
  /\ Forget(sessions)
  /\ closing' = IF ws = "none" THEN "done" ELSE "reader"
  /\ UNCHANGED <<ws, openError, opener, closers, pendingCalls>>

\* Bug: the reconnect task is not cancelled.
CloseKeepsReconnectTask ==
  /\ closing = "no"
  /\ autoReconnect' = FALSE
  /\ CloseSessions
  /\ UNCHANGED taskVars

\* The reconnect task is cancelled and awaited, if there is one.
Close ==
  /\ closing = "no"
  /\ autoReconnect' = FALSE
  /\ \/ /\ reconnectTask = "none"
        /\ CloseSessions
        /\ UNCHANGED taskVars
     \/ /\ reconnectTask # "none"
        /\ reconnectTask' = "cancelled" /\ closing' = "task"
        /\ UNCHANGED <<ws, todo, reopenedAny, sessions, stateVars, waitVars, turn,
                       pendingCalls, historyVars>>

\* The cancelled task ends, wherever it was.
TaskEnds ==
  /\ reconnectTask = "cancelled"
  /\ reconnectTask' = "none"
  /\ todo' = {} /\ reopenedAny' = FALSE
  /\ UNCHANGED <<linkVars, sessions, stateVars, waitVars, turn, pendingCalls, historyVars>>

CloseGoesOn ==
  /\ closing = "task" /\ reconnectTask = "none"
  /\ CloseSessions
  /\ UNCHANGED <<autoReconnect, taskVars>>

ReaderEnds ==
  /\ closing = "reader" /\ closing' = "socket"
  /\ UNCHANGED <<ws, autoReconnect, taskVars, sessions, stateVars, waitVars, turn,
                 pendingCalls, historyVars>>

SocketCloses ==
  /\ closing = "socket" /\ closing' = "done"
  /\ ws' = "none"
  /\ carried' = {} /\ answered' = {}
  /\ UNCHANGED <<autoReconnect, taskVars, sessions, stateVars, waitVars, turn,
                 pendingCalls>>

-----------------------------------------------------------------------------
(* open_session, SessionHandle.turn and SessionHandle.close.               *)

\* The state is registered before the send, and stays registered if it raises.
\* It is a new object: handles and turns of an earlier one are out of the model.
\* One open of a sid is under way at a time.
OpenSession(s, resume) ==
  /\ s \notin sessions
  /\ opener[s] = "idle"
  /\ sessions' = sessions \cup {s}
  /\ resumable' = IF resume THEN resumable \cup {s} ELSE resumable \ {s}
  /\ opened' = opened \ {s}
  /\ openError' = openError \ {s}
  /\ closed' = closed \ {s}
  /\ handles' = handles \ {s}
  /\ turn' = [turn EXCEPT ![s] = "idle"]
  /\ \/ /\ SendMayPass
        /\ carried' = carried \cup {s}
        /\ opener' = [opener EXCEPT ![s] = "waiting"]
     \/ /\ SendMayRaise
        /\ UNCHANGED <<carried, opener>>
  /\ UNCHANGED <<linkVars, taskVars, closers, pendingCalls, answered>>

\* The waiter resumes: it returns a handle, or pops the session and raises.
OpenReturns(s) ==
  /\ opener[s] = "woken"
  /\ opener' = [opener EXCEPT ![s] = "idle"]
  /\ IF s \in openError
       THEN Forget({s}) /\ UNCHANGED handles
       ELSE /\ handles' = handles \cup ({s} \ closed)
            /\ UNCHANGED <<sessions, resumable, opened, historyVars>>
  /\ openError' = openError \ {s}
  /\ UNCHANGED <<linkVars, taskVars, closed, closers, turn, pendingCalls>>

\* 30 s without an answer.
OpenTimesOut(s) ==
  /\ opener[s] = "waiting"
  /\ opener' = [opener EXCEPT ![s] = "idle"]
  /\ Forget({s})
  /\ UNCHANGED <<linkVars, taskVars, openError, closed, handles, closers, turn,
                 pendingCalls>>

\* Bug: a turn is queued even without a socket to send it on.
TurnBeginsUnsent(s) ==
  /\ s \in handles
  /\ turn[s] = "idle"
  /\ turn' = [turn EXCEPT ![s] = "waiting"]
  /\ UNCHANGED <<linkVars, taskVars, sessions, stateVars, waitVars, pendingCalls,
                 historyVars>>

\* turn() up to its first queue read.  It looks at `closed`, not at whether the
\* connection still knows the session.  A send that raises ends the turn.
TurnBegins(s) ==
  /\ s \in handles
  /\ turn[s] = "idle"
  /\ SendMayPass
  /\ turn' = [turn EXCEPT ![s] = "waiting"]
  /\ UNCHANGED <<linkVars, taskVars, sessions, stateVars, waitVars, pendingCalls,
                 historyVars>>

\* turn() reads the terminal item: it returns or raises, and drops the queue.
TurnReturns(s) ==
  /\ turn[s] = "over"
  /\ turn' = [turn EXCEPT ![s] = "idle"]
  /\ UNCHANGED <<linkVars, taskVars, sessions, stateVars, waitVars, pendingCalls,
                 historyVars>>

\* SessionHandle.close up to its wait; without a socket it raises before that.
HandleClose(s) ==
  /\ s \in handles \ closers
  /\ SendMayPass
  /\ closers' = closers \cup {s}
  /\ UNCHANGED <<linkVars, taskVars, sessions, stateVars, handles, opener, turn,
                 pendingCalls, historyVars>>

\* The wait ends with T_CLOSED or after 5 s; either way the sid is popped.
HandleCloseReturns(s) ==
  /\ s \in closers
  /\ closers' = closers \ {s}
  /\ Forget({s})
  /\ UNCHANGED <<linkVars, taskVars, openError, closed, handles, opener, turn,
                 pendingCalls>>

-----------------------------------------------------------------------------
(* _dispatch: an envelope arrives for a session that is tracked.            *)

Arrives(s) == Reading /\ s \in sessions

RecvOpened(s) ==
  /\ Arrives(s)
  /\ opened' = opened \cup {s}
  /\ opener' = Wake(opener, s)
  /\ answered' = answered \cup {s}
  /\ UNCHANGED <<linkVars, taskVars, sessions, resumable, openError, closed,
                 handles, closers, turn, pendingCalls, carried>>

\* T_ERROR belongs to the open until the open has been answered.
RecvError(s) ==
  /\ Arrives(s)
  /\ IF s \in opened
       THEN EndTurns({s}) /\ UNCHANGED <<openError, opened, opener>>
       ELSE /\ openError' = openError \cup {s}
            /\ opened' = opened \cup {s}
            /\ opener' = Wake(opener, s)
            /\ UNCHANGED turn
  /\ answered' = answered \cup {s}
  /\ UNCHANGED <<linkVars, taskVars, sessions, resumable, closed, handles, closers,
                 pendingCalls, carried>>

RecvTurnEnd(s) ==
  /\ Arrives(s)
  /\ EndTurns({s})
  /\ UNCHANGED <<linkVars, taskVars, sessions, stateVars, waitVars, pendingCalls,
                 historyVars>>

RecvSdkId(s) ==
  /\ Arrives(s)
  /\ resumable' = resumable \cup {s}
  /\ UNCHANGED <<linkVars, taskVars, sessions, opened, openError, closed, waitVars,
                 turn, pendingCalls, historyVars>>

\* T_CLOSED; with reason idle_reaped the session is forgotten as well.
RecvClosed(s, reaped) ==
  /\ Arrives(s)
  /\ SetClosed({s})
  /\ EndTurns({s})
  /\ IF reaped THEN Forget({s})
               ELSE UNCHANGED <<sessions, resumable, opened, historyVars>>
  /\ UNCHANGED <<linkVars, taskVars, openError, opener, closers, pendingCalls>>

-----------------------------------------------------------------------------
(* _call_rpc.                                                              *)

CallBegins(r) ==
  /\ SendMayPass
  /\ pendingCalls' = pendingCalls \cup {r}
  /\ UNCHANGED <<linkVars, taskVars, sessions, stateVars, waitVars, turn,
                 historyVars>>

\* The reply arrives, or wait_for gives up; the entry is popped either way.
CallReturns(r) ==
  /\ r \in pendingCalls
  /\ pendingCalls' = pendingCalls \ {r}
  /\ UNCHANGED <<linkVars, taskVars, sessions, stateVars, waitVars, turn,
                 historyVars>>

-----------------------------------------------------------------------------

Reconnecting ==
  \/ Dial \/ DialRaises \/ NotifyDone
  \/ \E s \in Sid : DropUnresumable(s) \/ Reopen(s)

Closes == Close \/ TaskEnds \/ CloseGoesOn \/ ReaderEnds \/ SocketCloses

Coroutine(s) ==
  \/ OpenReturns(s) \/ OpenTimesOut(s) \/ TurnBegins(s) \/ TurnReturns(s)
  \/ HandleClose(s) \/ HandleCloseReturns(s)
  \/ \E resume \in BOOLEAN : OpenSession(s, resume)

Receive(s) ==
  \/ RecvOpened(s) \/ RecvError(s) \/ RecvTurnEnd(s) \/ RecvSdkId(s)
  \/ \E reaped \in BOOLEAN : RecvClosed(s, reaped)

Next ==
  \/ Drop \/ Disconnect \/ Reconnecting \/ Closes
  \/ \E s \in Sid : Coroutine(s) \/ Receive(s)
  \/ \E r \in Rpc : CallBegins(r) \/ CallReturns(r)

(* Fairness: the event loop runs every ready task.  The reader is ready as *)
(* soon as the socket is closed, the reconnect task as soon as its send or *)
(* its callback returns or it is cancelled, a turn as soon as its queue    *)
(* holds an item.  No fairness on what depends on the network, the runner  *)
(* or the user.                                                            *)
Fairness ==
  /\ WF_vars(Disconnect)
  /\ WF_vars(NotifyDone)
  /\ WF_vars(TaskEnds)
  /\ \A s \in Sid : WF_vars(DropUnresumable(s) \/ Reopen(s))
  /\ \A s \in Sid : WF_vars(TurnReturns(s))

Spec == Init /\ [][Next]_vars /\ Fairness

-----------------------------------------------------------------------------
(* Properties.                                                             *)

\* "In-flight turns get a synthetic error envelope": once the link is known to
\* be down, no turn of a tracked session is still waiting for the runner.
NoStrandedTurn ==
  ws = "none" => \A s \in sessions : turn[s] # "waiting"

\* Once the link is known to be down, every RPC caller has been told (unless
\* close() took the connection down, which leaves them to their timeouts).
NoStrandedCall ==
  ws = "none" /\ autoReconnect => pendingCalls = {}

\* Whenever a link is up and the reopening loop has passed, the runner on it
\* has been sent a T_OPEN for every session the bridge tracks, whatever was
\* opened, closed, dropped or learnt while the loop was sending.  (Until close(),
\* which cancels the loop.)
LinkCarriesSessions ==
  ws = "up" /\ autoReconnect => sessions \subseteq carried \cup todo

\* `opened` of a session means that the runner answered on the present link,
\* not on one that is gone: what open_session and the routing of T_ERROR
\* between open and turn rely on.
OpenedOnThisLink ==
  ws = "up" /\ autoReconnect => \A s \in sessions \cap opened : s \in answered \cup todo

\* close() is final, whatever it interrupts: from its call on nothing dials; what is
\* opened while it waits for the reader and the socket gets no handle, so no turn
\* waits behind it; and when it returns there is neither link nor task.
ClosedForGood ==
  /\ closing # "no" => reconnectTask \in {"none", "cancelled"}
  /\ closing \in {"reader", "socket", "done"} =>
       /\ reconnectTask = "none"
       /\ \A s \in sessions : s \notin handles /\ turn[s] # "waiting"
  /\ closing = "done" => ws = "none"

\* A turn that a dropped link interrupts ends, unless a close that timed out
\* had the connection forget the session first.
TurnEndsAfterDrop ==
  \A s \in Sid :
    (ws = "dead" /\ s \in sessions /\ turn[s] = "waiting")
      ~> (turn[s] = "idle" \/ s \notin sessions)

\* The reopening phase ends, even when the link drops again under it.
ReopeningEnds == reconnectTask = "reopening" ~> reconnectTask = "none"

\* "Try to re-establish the WS forever (until close() is called)": when the
\* reconnect task is done with its notifications there is a socket, dead or
\* alive, whose reader will start the next reconnect task.
ReconnectsForever ==
  [][(reconnectTask = "notifying" /\ reconnectTask' = "none")
       => (ws' # "none" \/ ~autoReconnect')]_vars

=============================================================================
