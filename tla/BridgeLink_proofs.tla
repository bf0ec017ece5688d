-------------------------- MODULE BridgeLink_proofs --------------------------
(***************************************************************************)
(* Proofs about BridgeLink for every set of sessions and of calls.         *)
(***************************************************************************)
EXTENDS BridgeLink, TLAPS


\* Every variable stays in its type: no handler of runner_client.py leaves the
\* connection, its task or a session in a state the others do not know.
THEOREM TypeCorrect == Spec => []TypeOK
<1>1. Init => TypeOK
  BY DEF Init, TypeOK, WsState, TaskState, Opener, TurnState, Closing
<1>2. TypeOK /\ [Next]_vars => TypeOK'
  <2> SUFFICES ASSUME TypeOK, [Next]_vars PROVE TypeOK'
    OBVIOUS
  <2> USE DEF TypeOK, WsState, TaskState, Opener, TurnState, Closing, linkVars, taskVars,
              stateVars, waitVars, historyVars
  <2>1. CASE UNCHANGED vars
    BY <2>1 DEF vars
  <2>2. CASE Drop
    BY <2>2 DEF Drop
  <2>3. CASE Disconnect
    BY <2>3 DEF Disconnect, Reading, EndTurns, StartReconnectTask
  <2>4. CASE Dial
    BY <2>4 DEF Dial, LoopAt
  <2>5. CASE DialRaises
    BY <2>5 DEF DialRaises
  <2>6. CASE NotifyDone
    BY <2>6 DEF NotifyDone
  <2>7. CASE Closes
    BY <2>7 DEF Closes, Close, TaskEnds, CloseGoesOn, ReaderEnds, SocketCloses, CloseSessions,
                SetClosed, EndTurns, Forget
  <2>8. ASSUME NEW s \in Sid, DropUnresumable(s) PROVE TypeOK'
    BY <2>8 DEF DropUnresumable, LoopAt, SetClosed, EndTurns, Forget
  <2>9. ASSUME NEW s \in Sid, Reopen(s) PROVE TypeOK'
    BY <2>9 DEF Reopen, LoopAt, SendReopen, SendMayPass, SendMayRaise
  <2>10. ASSUME NEW s \in Sid, OpenReturns(s) PROVE TypeOK'
    BY <2>10 DEF OpenReturns, Forget
  <2>11. ASSUME NEW s \in Sid, OpenTimesOut(s) PROVE TypeOK'
    BY <2>11 DEF OpenTimesOut, Forget
  <2>12. ASSUME NEW s \in Sid, TurnBegins(s) PROVE TypeOK'
    BY <2>12 DEF TurnBegins, SendMayPass
  <2>13. ASSUME NEW s \in Sid, TurnReturns(s) PROVE TypeOK'
    BY <2>13 DEF TurnReturns
  <2>14. ASSUME NEW s \in Sid, HandleClose(s) PROVE TypeOK'
    BY <2>14 DEF HandleClose, SendMayPass
  <2>15. ASSUME NEW s \in Sid, HandleCloseReturns(s) PROVE TypeOK'
    BY <2>15 DEF HandleCloseReturns, Forget
  <2>16. ASSUME NEW s \in Sid, RecvOpened(s) PROVE TypeOK'
    BY <2>16 DEF RecvOpened, Arrives, Reading, Wake
  <2>17. ASSUME NEW s \in Sid, RecvError(s) PROVE TypeOK'
    BY <2>17 DEF RecvError, Arrives, Reading, Wake, EndTurns
  <2>18. ASSUME NEW s \in Sid, RecvTurnEnd(s) PROVE TypeOK'
    BY <2>18 DEF RecvTurnEnd, Arrives, Reading, EndTurns
  <2>19. ASSUME NEW s \in Sid, RecvSdkId(s) PROVE TypeOK'
    BY <2>19 DEF RecvSdkId, Arrives, Reading
  <2>20. ASSUME NEW s \in Sid, NEW resume \in BOOLEAN, OpenSession(s, resume) PROVE TypeOK'
    BY <2>20 DEF OpenSession, SendMayPass, SendMayRaise
  <2>21. ASSUME NEW s \in Sid, NEW reaped \in BOOLEAN, RecvClosed(s, reaped) PROVE TypeOK'
    BY <2>21 DEF RecvClosed, Arrives, Reading, SetClosed, EndTurns, Forget
  <2>22. ASSUME NEW r \in Rpc, CallBegins(r) PROVE TypeOK'
    BY <2>22 DEF CallBegins, SendMayPass
  <2>23. ASSUME NEW r \in Rpc, CallReturns(r) PROVE TypeOK'
    BY <2>23 DEF CallReturns
  <2>24. QED
    BY <2>1, <2>2, <2>3, <2>4, <2>5, <2>6, <2>7, <2>8, <2>9, <2>10, <2>11,
      <2>12, <2>13, <2>14, <2>15, <2>16, <2>17, <2>18, <2>19, <2>20, <2>21,
      <2>22, <2>23 DEF Next, Reconnecting, Coroutine, Receive
<1>3. QED
  BY <1>1, <1>2, PTL DEF Spec

\* close() has been called exactly if nothing reconnects any more; the task it cancelled
\* is one it awaits; and nobody wakes who waits for a session opened after that.
WhileClosing ==
  /\ autoReconnect <=> closing = "no"
  /\ reconnectTask = "cancelled" => closing = "task"
  /\ closing \in {"reader", "socket", "done"} => \A s \in sessions : opener[s] # "woken"

\* What holds of the link at every step; the invariants are preserved given the types
\* and where close() is.
LinkInv ==
  /\ NoStrandedTurn
  /\ NoStrandedCall
  /\ LinkCarriesSessions
  /\ OpenedOnThisLink
  /\ ClosedForGood
  /\ WhileClosing

\* The five invariants of the connection hold together in every reachable state:
\* each handler of runner_client.py keeps what the others rely on.
THEOREM LinkSafety == Spec => []LinkInv
<1>1. Init => LinkInv
  BY DEF Init, LinkInv, NoStrandedTurn, NoStrandedCall, LinkCarriesSessions,
         OpenedOnThisLink, ClosedForGood, WhileClosing
<1>2. TypeOK /\ LinkInv /\ [Next]_vars => LinkInv'
  <2> SUFFICES ASSUME TypeOK, LinkInv, [Next]_vars PROVE LinkInv'
    OBVIOUS
  <2> USE DEF TypeOK, WsState, TaskState, Opener, TurnState, Closing, linkVars, taskVars,
              stateVars, waitVars, historyVars, LinkInv, NoStrandedTurn,
              NoStrandedCall, LinkCarriesSessions, OpenedOnThisLink,
              ClosedForGood, WhileClosing
  <2>1. CASE UNCHANGED vars
    BY <2>1 DEF vars
  <2>2. CASE Drop
    BY <2>2 DEF Drop
  <2>3. CASE Disconnect
    BY <2>3 DEF Disconnect, Reading, EndTurns, StartReconnectTask
  <2>4. CASE Dial
    BY <2>4 DEF Dial, LoopAt
  <2>5. CASE DialRaises
    BY <2>5 DEF DialRaises
  <2>6. CASE NotifyDone
    BY <2>6 DEF NotifyDone
  <2>7. CASE Closes
    BY <2>7 DEF Closes, Close, TaskEnds, CloseGoesOn, ReaderEnds, SocketCloses, CloseSessions,
                SetClosed, EndTurns, Forget
  <2>8. ASSUME NEW s \in Sid, DropUnresumable(s) PROVE LinkInv'
    BY <2>8 DEF DropUnresumable, LoopAt, SetClosed, EndTurns, Forget
  <2>9. ASSUME NEW s \in Sid, Reopen(s) PROVE LinkInv'
    BY <2>9 DEF Reopen, LoopAt, SendReopen, SendMayPass, SendMayRaise
  <2>10. ASSUME NEW s \in Sid, OpenReturns(s) PROVE LinkInv'
    BY <2>10 DEF OpenReturns, Forget
  <2>11. ASSUME NEW s \in Sid, OpenTimesOut(s) PROVE LinkInv'
    BY <2>11 DEF OpenTimesOut, Forget
  <2>12. ASSUME NEW s \in Sid, TurnBegins(s) PROVE LinkInv'
    BY <2>12 DEF TurnBegins, SendMayPass
  <2>13. ASSUME NEW s \in Sid, TurnReturns(s) PROVE LinkInv'
    BY <2>13 DEF TurnReturns
  <2>14. ASSUME NEW s \in Sid, HandleClose(s) PROVE LinkInv'
    BY <2>14 DEF HandleClose, SendMayPass
  <2>15. ASSUME NEW s \in Sid, HandleCloseReturns(s) PROVE LinkInv'
    BY <2>15 DEF HandleCloseReturns, Forget
  <2>16. ASSUME NEW s \in Sid, RecvOpened(s) PROVE LinkInv'
    BY <2>16 DEF RecvOpened, Arrives, Reading, Wake
  <2>17. ASSUME NEW s \in Sid, RecvError(s) PROVE LinkInv'
    BY <2>17 DEF RecvError, Arrives, Reading, Wake, EndTurns
  <2>18. ASSUME NEW s \in Sid, RecvTurnEnd(s) PROVE LinkInv'
    BY <2>18 DEF RecvTurnEnd, Arrives, Reading, EndTurns
  <2>19. ASSUME NEW s \in Sid, RecvSdkId(s) PROVE LinkInv'
    BY <2>19 DEF RecvSdkId, Arrives, Reading
  <2>20. ASSUME NEW s \in Sid, NEW resume \in BOOLEAN, OpenSession(s, resume) PROVE LinkInv'
    BY <2>20 DEF OpenSession, SendMayPass, SendMayRaise
  <2>21. ASSUME NEW s \in Sid, NEW reaped \in BOOLEAN, RecvClosed(s, reaped) PROVE LinkInv'
    BY <2>21 DEF RecvClosed, Arrives, Reading, SetClosed, EndTurns, Forget
  <2>22. ASSUME NEW r \in Rpc, CallBegins(r) PROVE LinkInv'
    BY <2>22 DEF CallBegins, SendMayPass
  <2>23. ASSUME NEW r \in Rpc, CallReturns(r) PROVE LinkInv'
    BY <2>23 DEF CallReturns
  <2>24. QED
    BY <2>1, <2>2, <2>3, <2>4, <2>5, <2>6, <2>7, <2>8, <2>9, <2>10, <2>11,
      <2>12, <2>13, <2>14, <2>15, <2>16, <2>17, <2>18, <2>19, <2>20, <2>21,
      <2>22, <2>23 DEF Next, Reconnecting, Coroutine, Receive
<1>3. QED
  BY <1>1, <1>2, TypeCorrect, PTL DEF Spec

\* No turn waits behind a dead link: _on_disconnect reaches all of them, and none
\* can begin until there is a socket again.
THEOREM NoStrandedTurnAlways == Spec => []NoStrandedTurn
<1>1. LinkInv => NoStrandedTurn
  BY DEF LinkInv
<1>2. QED
  BY <1>1, LinkSafety, PTL

\* The same for the RPCs of _call_rpc.
THEOREM NoStrandedCallAlways == Spec => []NoStrandedCall
<1>1. LinkInv => NoStrandedCall
  BY DEF LinkInv
<1>2. QED
  BY <1>1, LinkSafety, PTL

\* The snapshot of _reopen_sessions is good enough: open_session, close, the
\* reaper's notice and a second drop may all run while the loop is sending, and
\* yet every session that is tracked has been sent to the runner of this link.
THEOREM LinkCarriesSessionsAlways == Spec => []LinkCarriesSessions
<1>1. LinkInv => LinkCarriesSessions
  BY DEF LinkInv
<1>2. QED
  BY <1>1, LinkSafety, PTL

\* An `opened` event never outlives the link it was set on.
THEOREM OpenedOnThisLinkAlways == Spec => []OpenedOnThisLink
<1>1. LinkInv => OpenedOnThisLink
  BY DEF LinkInv
<1>2. QED
  BY <1>1, LinkSafety, PTL

\* Nothing that is under way at close(), nor begins while it awaits the tasks and the
\* socket, can bring the connection back or wait on it.
THEOREM ClosedForGoodAlways == Spec => []ClosedForGood
<1>1. LinkInv => ClosedForGood
  BY DEF LinkInv
<1>2. QED
  BY <1>1, LinkSafety, PTL

=============================================================================
