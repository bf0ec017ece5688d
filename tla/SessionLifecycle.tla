-------------------------- MODULE SessionLifecycle --------------------------
(***************************************************************************)
(* The life of one forum topic's session: the commands that open, restart, *)
(* move, close, undo and resume it (BridgeBot of bridge/bot.py), over the  *)
(* registry of live sessions (SessionStore of bridge/sessions.py), the     *)
(* sessions table that survives the bridge (store/db.py), and the          *)
(* connections to the Macs that host the SDK clients.                      *)
(*                                                                         *)
(* A command is a coroutine of several awaits on Macs that may fail or     *)
(* answer late; turns, the idle reaper, broken links and a dying bridge    *)
(* come in between.  Commands on the topic are given one at a time, except *)
(* that a restart may be asked for while a move waits for the turn.        *)
(* Statements on the database do not fail; they take effect in the order   *)
(* in which they are awaited, sooner than a user answers.  Where the store *)
(* is awaited between two steps on the registry, the steps are apart here. *)
(***************************************************************************)
CONSTANTS Mac,   \* runner names
          Home,  \* the default runner, without which the bridge does not boot
          Away,  \* Macs that may be asleep while the bridge boots
          Slot,  \* how many commands may be under way
          None

ASSUME HomeIsThere == Home \in Mac \ Away /\ Away \subseteq Mac
ASSUME SlotExists == Slot # {}

VARIABLES
  row,      \* the topic's row of table sessions: state, runner_name, sdk_session_id set?
  topic,    \* its TopicSession, in SessionStore._by_thread or only held by a command
  undo,     \* _last_destructive, while it is a close of this topic
  cmd,      \* the commands under way: what each awaits and what it read before
  turn,     \* the turn that holds turn_lock: "no", "running", "hung"
  link,     \* of each Mac: in RunnerPool and connected or not, "absent" from the
            \* pool, or "gone" from table macs, too
  tracked,  \* its RunnerConnection._sessions[sid]: none, without or with an SDK id
  client,   \* its SDK client of this session: none, "blank", "resumed"
  file,     \* its copy of the transcript: none, "stale", "latest"
  notices,  \* Macs whose reader awaits mark_orphaned in on_runner_idle_reaped
  astray    \* history: a move went ahead under a restart, a session was restored
            \* on a Mac that is not its own, or a closed row was orphaned

vars == <<row, topic, undo, cmd, turn, link, tracked, client, file, notices, astray>>
macs == <<link, tracked, client, file>>
noted == <<notices, astray>>

Row == [state : {"none", "active", "orphaned", "closed"}, mac : Mac, sdk : BOOLEAN]

\* A handle is that of the tracked session, or closed, or "stray": neither.
Handle == {"tracked", "closed", "stray"}

\* "home" is runner_name, "mac" where the handle really is, "sdk" whether the
\* handle knows an id, "stored" whether the store still has the session.
Topic == [home : Mac, mac : Mac, sdk : BOOLEAN, handle : Handle, stored : BOOLEAN]

\* _last_destructive: where and with which id to open the session again.
Destructive == [mac : Mac, sdk : BOOLEAN]

\* Python's None is no Mac, no session and no record of a close.
ASSUME NoneIsNot == None \notin Mac \cup Topic \cup Destructive

\* It opens on "mac" with the id it read, if any; it closes "handle" on "from".
Command ==
  [op : {"none", "boot", "new", "restart", "move", "close", "undo", "resume"},
   at : {"idle", "starting", "closing", "locking", "copied", "opening", "refused",
         "storing"},
   mac : Mac, sdk : BOOLEAN, from : Mac, handle : Handle]

\* Types of the variables.
TypeOK ==
  /\ row \in Row
  /\ topic \in Topic \cup {None}
  /\ undo \in Destructive \cup {None}
  /\ cmd \in [Slot -> Command]
  /\ turn \in {"no", "running", "hung"}
  /\ link \in [Mac -> {"up", "down", "absent", "gone"}]
  /\ tracked \in [Mac -> {"none", "new", "id"}]
  /\ client \in [Mac -> {"none", "blank", "resumed"}]
  /\ file \in [Mac -> {"none", "stale", "latest"}]
  /\ notices \subseteq Mac
  /\ astray \in BOOLEAN

NoRow == [state |-> "none", mac |-> Home, sdk |-> FALSE]

Command0(op, at, m, sdk) ==
  [op |-> op, at |-> at, mac |-> m, sdk |-> sdk, from |-> Home, handle |-> "closed"]

Idle == Command0("none", "idle", Home, FALSE)
Everywhere(x) == [m \in Mac |-> x]

Init ==
  /\ row = NoRow /\ topic = None /\ undo = None
  /\ cmd = [c \in Slot |-> Idle] /\ turn = "no"
  /\ link = Everywhere("up") /\ tracked = Everywhere("none")
  /\ client = Everywhere("none") /\ file = Everywhere("none")
  /\ notices = {} /\ astray = FALSE

-----------------------------------------------------------------------------
(* What the steps share.                                                   *)

NoCommand == \A c \in Slot : cmd[c].at = "idle"

\* The store has done what it was asked, too.
Quiet == NoCommand /\ notices = {}

\* The reader of a link takes the next envelope: not while a notice is handled.
Heard(m) == link[m] = "up" /\ m \notin notices

\* No other command is under way.
Alone(c) == \A d \in Slot \ {c} : cmd[d].at = "idle"

\* A restart may overtake a move that waits for the lock.
Overtakes(c) ==
  /\ cmd[c].at = "idle"
  /\ \A d \in Slot \ {c} : cmd[d].at = "idle" \/ (cmd[d].op = "move" /\ cmd[d].at = "locking")

InPool(m) == link[m] \in {"up", "down"}
Stored == topic # None /\ topic.stored

\* UPDATE sessions ... WHERE thread_id = ?, which may find no row.
Updated(r) == IF row.state = "none" THEN row ELSE r

\* The topic's handle is the state object tracked on this Mac.
Owns(m) == topic # None /\ topic.mac = m /\ topic.handle = "tracked"
RunsOn(m) == turn = "running" /\ Owns(m)

HandleBecomes(m, h) == IF Owns(m) THEN [topic EXCEPT !.handle = h] ELSE topic

\* A turn is told when its session is closed or its link breaks.
TurnTold(m) == IF RunsOn(m) THEN "no" ELSE turn

\* The SDK writes the transcript on one Mac; copies elsewhere fall behind.
Written(m) ==
  [x \in Mac |-> IF x = m THEN "latest" ELSE IF file[x] = "latest" THEN "stale" ELSE file[x]]

Opening(m) == \E c \in Slot : cmd[c].at = "opening" /\ cmd[c].mac = m

\* Bug: the move does not take the lock.
LockIgnored == FALSE

\* A move holds the lock from reading the transcript until it has closed the source.
LockHeld == \E c \in Slot : cmd[c].op = "move" /\ cmd[c].at # "locking"

\* open_session up to the send: a tracked sid is refused, a send on a broken link
\* raises and leaves the sid tracked.
OpenSession(c, k, track) ==
  LET m == k.mac IN
  /\ cmd' = [cmd EXCEPT ![c] =
               [k EXCEPT !.at = IF track[m] = "none" /\ link[m] = "up" THEN "opening"
                                                                      ELSE "refused"]]
  /\ tracked' = IF track[m] = "none" /\ InPool(m)
                  THEN [track EXCEPT ![m] = IF k.sdk THEN "id" ELSE "new"]
                  ELSE track

\* A command ends; a session the store has dropped is held by nobody then.
Done(c, t) ==
  /\ cmd' = [cmd EXCEPT ![c] = Idle]
  /\ topic' = IF t # None /\ ~t.stored /\ Alone(c) THEN None ELSE t

-----------------------------------------------------------------------------
(* Commands, up to their first await on a Mac.                             *)

\* A topic with a thread id of its own, so nothing is left of an earlier one.
ExecuteNewSession(c, m, sdk) ==
  /\ Quiet
  /\ row.state = "none" /\ topic = None /\ undo = None
  /\ tracked = Everywhere("none") /\ client = Everywhere("none")
  /\ InPool(m)
  /\ OpenSession(c, Command0("new", "opening", m, sdk), tracked)
  /\ file' = [x \in Mac |-> IF x = m /\ sdk THEN "latest" ELSE "none"]
  /\ row' = NoRow
  /\ UNCHANGED <<topic, undo, turn, link, client, noted>>

New(c, m) == ExecuteNewSession(c, m, FALSE)

\* The topic of a fork; the runner has copied the other topic's transcript.
Fork(c, m) == link[m] = "up" /\ ExecuteNewSession(c, m, TRUE)

Restart(c) ==
  /\ Overtakes(c) /\ Stored
  /\ cmd' = [cmd EXCEPT ![c] = [op |-> "restart", at |-> "closing", mac |-> topic.home,
                                sdk |-> topic.sdk, from |-> topic.mac,
                                handle |-> topic.handle]]
  /\ UNCHANGED <<row, topic, undo, turn, macs, noted>>

\* The close records what /undo needs.
Close(c) ==
  /\ NoCommand /\ Stored
  /\ undo' = [mac |-> topic.home, sdk |-> topic.sdk]
  /\ cmd' = [cmd EXCEPT ![c] = [op |-> "close", at |-> "closing", mac |-> topic.home,
                                sdk |-> topic.sdk, from |-> topic.mac,
                                handle |-> topic.handle]]
  /\ UNCHANGED <<row, topic, turn, macs, noted>>

Move(c, dest) ==
  /\ NoCommand /\ Stored
  /\ dest # topic.home /\ link[dest] = "up"
  /\ topic.sdk
  /\ tracked[dest] = "none"
  /\ cmd' = [cmd EXCEPT ![c] = Command0("move", "locking", dest, TRUE)]
  /\ UNCHANGED <<row, topic, undo, turn, macs, noted>>

\* The record is used up, whatever becomes of the open.
Undo(c) ==
  /\ Quiet /\ undo # None
  /\ OpenSession(c, Command0("undo", "opening", undo.mac, undo.sdk), tracked)
  /\ undo' = None
  /\ UNCHANGED <<row, topic, turn, link, client, file, noted>>

Resume(c) ==
  /\ Quiet
  /\ row.state = "orphaned" /\ row.sdk /\ link[row.mac] = "up"
  /\ OpenSession(c, Command0("resume", "opening", row.mac, TRUE), tracked)
  /\ UNCHANGED <<row, topic, undo, turn, link, client, file, noted>>

UndoExpires == undo # None /\ undo' = None /\ UNCHANGED <<row, topic, cmd, turn, macs, noted>>

PruneOldClosed ==
  /\ Quiet /\ row.state = "closed" /\ undo = None
  /\ row' = NoRow
  /\ UNCHANGED <<topic, undo, cmd, turn, macs, noted>>

-----------------------------------------------------------------------------
(* Awaits of a command.                                                    *)

\* The rest of _restart_session, on the Mac that runner_name says by now.
RestartReopens(c, track) == OpenSession(c, [cmd[c] EXCEPT !.mac = topic.home], track)

\* sessions.close up to its await: mark_closed.
StoreClose(c) ==
  /\ row' = Updated([row EXCEPT !.state = "closed"])
  /\ cmd' = [cmd EXCEPT ![c].at = "storing"]

\* SessionHandle.close of the handle read at the start.  It may be closed already;
\* the send may raise, which the callers suppress; CLOSED may come in 5 s or not.
CloseEnds(c, how) ==
  LET k == cmd[c]
      m == k.from
      already == k.handle = "closed" \/ (k.handle = "tracked" /\ tracked[m] = "none")
      track == IF how \in {"answered", "late"} THEN [tracked EXCEPT ![m] = "none"] ELSE tracked
      shut == [client EXCEPT ![m] = "none"]
      handle == CASE how = "raised" -> k.handle [] how = "late" -> "stray" [] OTHER -> "closed"
      t == IF k.op # "move" /\ topic.mac = m THEN [topic EXCEPT !.handle = handle] ELSE topic
      told == IF how = "late" /\ RunsOn(m) THEN "hung"
              ELSE IF how = "answered" THEN TurnTold(m) ELSE turn
  IN
  /\ k.at = "closing"
  /\ CASE how = "already"  -> already
       [] how = "raised"   -> ~already /\ link[m] # "up"
       [] how = "answered" -> ~already /\ Heard(m) /\ k.handle = "tracked"
       [] how = "late"     -> ~already
  /\ CASE how = "answered" -> client' = shut
       [] how = "late"     -> client' \in {client, shut}
       [] OTHER            -> client' = client
  /\ \/ /\ k.op = "restart"
        /\ RestartReopens(c, track)
        /\ topic' = t /\ turn' = told /\ UNCHANGED row
     \/ /\ k.op = "close"
        /\ StoreClose(c)
        /\ topic' = t /\ tracked' = track /\ turn' = told
     \/ /\ k.op = "move"
        /\ Done(c, t)
        /\ tracked' = track /\ turn' = told /\ UNCHANGED row
  /\ UNCHANGED <<undo, link, file, noted>>

\* The rest of sessions.close: the entry is popped, if it is still there.
StorePops(c) ==
  /\ cmd[c].at = "storing"
  /\ Done(c, [topic EXCEPT !.stored = FALSE])
  /\ turn' = "no"
  /\ UNCHANGED <<row, undo, macs, noted>>

\* Bug: a transcript that is there already is not overwritten.
MoveKeepsOldCopy(c) ==
  LET k == cmd[c] IN
  /\ k.op = "move" /\ k.at = "locking" /\ turn = "no" /\ ~LockHeld
  /\ link[topic.home] = "up" /\ link[k.mac] = "up" /\ file[topic.home] # "none"
  /\ cmd' = [cmd EXCEPT ![c].at = "copied"]
  /\ file' = [file EXCEPT ![k.mac] = IF @ = "none" THEN file[topic.home] ELSE @]
  /\ astray' = (astray \/ ~Alone(c))
  /\ UNCHANGED <<row, topic, undo, turn, link, tracked, client, notices>>

\* Under turn_lock: get_file on the source, upload_file on the destination.
MoveCopies(c) ==
  LET k == cmd[c] IN
  /\ k.op = "move" /\ k.at = "locking" /\ turn = "no" /\ ~LockHeld
  /\ link[topic.home] = "up" /\ link[k.mac] = "up" /\ file[topic.home] # "none"
  /\ cmd' = [cmd EXCEPT ![c].at = "copied"]
  /\ file' = [file EXCEPT ![k.mac] = file[topic.home]]
  /\ astray' = (astray \/ ~Alone(c))
  /\ UNCHANGED <<row, topic, undo, turn, link, tracked, client, notices>>

\* Either call fails, the upload perhaps only in its reply.
MoveGivesUp(c) ==
  LET k == cmd[c] IN
  /\ k.op = "move" /\ k.at = "locking" /\ turn = "no"
  /\ Done(c, topic)
  /\ file' \in {file, IF file[topic.home] = "none" THEN file
                      ELSE [file EXCEPT ![k.mac] = file[topic.home]]}
  /\ UNCHANGED <<row, undo, turn, link, tracked, client, noted>>

\* The row says the new Mac before anything is opened there.
MovePersists(c) ==
  LET k == cmd[c] IN
  /\ k.op = "move" /\ k.at = "copied"
  /\ row' = Updated([row EXCEPT !.mac = k.mac])
  /\ OpenSession(c, k, tracked)
  /\ UNCHANGED <<topic, undo, turn, link, client, file, noted>>

\* Bug: an aborted move leaves the row at the destination.
FailedLeavesRow(c) ==
  /\ row' = IF cmd[c].op = "boot" THEN [row EXCEPT !.state = "orphaned"] ELSE row
  /\ Done(c, topic)
  /\ UNCHANGED <<undo, turn, link, file, noted>>

\* The open failed: a move takes the row back, the boot orphans the session.
Failed(c) ==
  LET k == cmd[c] IN
  /\ row' = CASE k.op = "move" -> Updated([row EXCEPT !.mac = topic.home])
              [] k.op = "boot" -> [row EXCEPT !.state = "orphaned"]
              [] OTHER -> row
  /\ Done(c, topic)
  /\ UNCHANGED <<undo, turn, link, file, noted>>

OpenRefused(c) == cmd[c].at = "refused" /\ Failed(c) /\ UNCHANGED <<tracked, client>>

\* The runner answers with an error: it has the sid, or the SDK did not start.
OpenRejected(c) ==
  LET m == cmd[c].mac IN
  /\ cmd[c].at = "opening" /\ Heard(m) /\ tracked[m] # "none"
  /\ Failed(c)
  /\ tracked' = [tracked EXCEPT ![m] = "none"]
  /\ UNCHANGED client

\* What the runner opens: a resume needs the transcript.
Opens(m, sdk) ==
  IF client[m] = "none" /\ link[m] = "up" /\ (sdk => file[m] # "none")
    THEN [client EXCEPT ![m] = IF sdk THEN "resumed" ELSE "blank"]
    ELSE client

\* 30 seconds without OPENED; the runner may have opened it all the same.
OpenTimesOut(c) ==
  LET k == cmd[c] IN
  /\ k.at = "opening"
  /\ Failed(c)
  /\ tracked' = [tracked EXCEPT ![k.mac] = "none"]
  /\ client' \in {client, Opens(k.mac, k.sdk)}

\* SDK_ID, which update_sdk_session_id writes to the row, comes before OPENED.
SdkIdWritten(sdk) == Updated([row EXCEPT !.sdk = @ \/ sdk])

\* Bug: the insert leaves out runner_name.
AddWithoutRunner(m, sdk) ==
  /\ row' = [state |-> "active", mac |-> None, sdk |-> FALSE]
  /\ topic' = [home |-> m, mac |-> m, sdk |-> sdk, handle |-> "tracked", stored |-> TRUE]

\* sessions.add: INSERT OR REPLACE of a row without sdk_session_id.
Add(m, sdk) ==
  /\ row' = [state |-> "active", mac |-> m, sdk |-> FALSE]
  /\ topic' = [home |-> m, mac |-> m, sdk |-> sdk, handle |-> "tracked", stored |-> TRUE]

\* The session takes the new handle.
Swapped(c) ==
  [topic EXCEPT !.mac = cmd[c].mac, !.sdk = cmd[c].sdk, !.handle = "tracked"]

RestartSwaps(c) == row' = SdkIdWritten(cmd[c].sdk) /\ Done(c, Swapped(c))

\* A move goes on to close the handle it replaces.
MoveSwaps(c) ==
  /\ row' = SdkIdWritten(TRUE)
  /\ topic' = [Swapped(c) EXCEPT !.home = cmd[c].mac]
  /\ cmd' = [cmd EXCEPT ![c].at = "closing", ![c].from = topic.mac, ![c].handle = topic.handle]

\* The restored session keeps the Mac of its row, wherever it was opened.
Restored(c) ==
  /\ row' = SdkIdWritten(TRUE)
  /\ topic' = [home |-> row.mac, mac |-> cmd[c].mac, sdk |-> TRUE, handle |-> "tracked",
               stored |-> TRUE]
  /\ cmd' = [cmd EXCEPT ![c] = Idle]

\* OPENED reaches open_session in time.
Opened(c) ==
  LET k == cmd[c]
      m == k.mac IN
  /\ k.at = "opening" /\ Heard(m) /\ tracked[m] # "none" /\ client[m] = "none"
  /\ client' = Opens(m, k.sdk) /\ client' # client
  /\ \/ k.op \in {"new", "undo", "resume"} /\ Add(m, k.sdk) /\ cmd' = [cmd EXCEPT ![c] = Idle]
     \/ k.op = "restart" /\ RestartSwaps(c)
     \/ k.op = "move" /\ MoveSwaps(c)
     \/ k.op = "boot" /\ Restored(c)
  /\ UNCHANGED <<undo, turn, link, tracked, file, noted>>

-----------------------------------------------------------------------------
(* Turns.                                                                  *)

\* A message in the topic.  On a handle that is not tracked the answer never comes.
TurnBegins ==
  /\ Stored /\ turn = "no" /\ ~LockHeld
  /\ link[topic.mac] = "up" /\ client[topic.mac] # "none"
  /\ \/ topic.handle = "tracked" /\ turn' = "running"
     \/ topic.handle = "stray" /\ turn' = "hung"
  /\ file' = IF client[topic.mac] = "resumed" THEN Written(topic.mac) ELSE file
  /\ UNCHANGED <<row, topic, undo, cmd, link, tracked, client, noted>>

\* The first turn of a fresh client: its SDK id reaches the handle and the row.
IdAssigned ==
  /\ turn = "running" /\ Owns(topic.mac) /\ client[topic.mac] = "blank" /\ Heard(topic.mac)
  /\ client' = [client EXCEPT ![topic.mac] = "resumed"]
  /\ tracked' = [tracked EXCEPT ![topic.mac] = "id"]
  /\ topic' = [topic EXCEPT !.sdk = TRUE]
  /\ row' = Updated([row EXCEPT !.sdk = TRUE])
  /\ file' = Written(topic.mac)
  /\ UNCHANGED <<undo, cmd, turn, link, noted>>

TurnEnds == turn = "running" /\ turn' = "no" /\ UNCHANGED <<row, topic, undo, cmd, macs, noted>>

-----------------------------------------------------------------------------
(* The Macs and their links.                                               *)

\* Bug: the notice does not ask whether the store has the session.
ReapedUnasked(m) ==
  /\ Heard(m) /\ client[m] # "none"
  /\ client' = [client EXCEPT ![m] = "none"]
  /\ tracked' = [tracked EXCEPT ![m] = "none"]
  /\ IF tracked[m] = "none"
       THEN UNCHANGED <<row, topic, turn, notices>>
       ELSE /\ row' = Updated([row EXCEPT !.state = "orphaned"])
            /\ topic' = HandleBecomes(m, "closed") /\ turn' = TurnTold(m)
            /\ notices' = notices \cup {m}
  /\ UNCHANGED <<undo, cmd, link, file, astray>>

\* The runner's idle reaper closes a client, its turn perhaps just begun.  If its sid
\* is tracked the bridge pops it, and orphans the row of the topic's session,
\* whichever Mac that one is on.
Reaped(m) ==
  /\ Heard(m) /\ client[m] # "none"
  /\ client' = [client EXCEPT ![m] = "none"]
  /\ tracked' = [tracked EXCEPT ![m] = "none"]
  /\ IF tracked[m] = "none"
       THEN UNCHANGED <<topic, turn>>
       ELSE topic' = HandleBecomes(m, "closed") /\ turn' = TurnTold(m)
  /\ IF tracked[m] # "none" /\ Stored
       THEN /\ row' = Updated([row EXCEPT !.state = "orphaned"])
            /\ notices' = notices \cup {m}
            /\ astray' = (astray \/ row.state = "closed")
       ELSE UNCHANGED <<row, notices, astray>>
  /\ UNCHANGED <<undo, cmd, link, file>>

\* mark_orphaned is through: whatever session the store has is evicted.
Evict(m) ==
  /\ m \in notices /\ notices' = notices \ {m}
  /\ IF Stored
       THEN /\ topic' = IF NoCommand THEN None ELSE [topic EXCEPT !.stored = FALSE]
            /\ turn' = "no"
       ELSE UNCHANGED <<topic, turn>>
  /\ UNCHANGED <<row, undo, cmd, macs, astray>>

\* The runner tears its sessions down.
Drop(m) ==
  /\ link[m] = "up"
  /\ link' = [link EXCEPT ![m] = "down"]
  /\ client' = [client EXCEPT ![m] = "none"]
  /\ turn' = TurnTold(m)
  /\ UNCHANGED <<row, topic, undo, cmd, tracked, file, noted>>

\* What is tracked is opened again with its id; what has none is closed and dropped.
\* A sid that a command is opening is answered to the command.
Reconnect(m) ==
  /\ link[m] = "down" /\ m \notin notices
  /\ link' = [link EXCEPT ![m] = "up"]
  /\ \/ /\ tracked[m] = "new"
        /\ tracked' = [tracked EXCEPT ![m] = "none"]
        /\ topic' = HandleBecomes(m, "closed")
        /\ UNCHANGED <<row, client>>
     \/ /\ tracked[m] = "id" /\ ~Opening(m) /\ file[m] # "none"
        /\ client' = [client EXCEPT ![m] = "resumed"]
        /\ row' = Updated([row EXCEPT !.sdk = TRUE])
        /\ UNCHANGED <<tracked, topic>>
     \/ tracked[m] # "new" /\ UNCHANGED <<row, topic, tracked, client>>
  /\ UNCHANGED <<undo, cmd, turn, file, noted>>

MacsAdd(m) ==
  /\ Quiet /\ ~InPool(m)
  /\ link' = [link EXCEPT ![m] = "up"]
  /\ UNCHANGED <<row, topic, undo, cmd, turn, tracked, client, file, noted>>

\* The connection is closed with all it tracked; the runner tears down.
MacsRemove(m) ==
  /\ Quiet /\ m # Home /\ link[m] # "gone"
  /\ ~(Stored /\ topic.home = m)
  /\ link' = [link EXCEPT ![m] = "gone"]
  /\ tracked' = [tracked EXCEPT ![m] = "none"]
  /\ client' = [client EXCEPT ![m] = "none"]
  /\ UNCHANGED <<row, topic, undo, cmd, turn, file, noted>>

\* The bridge dies and comes back; only the row and the transcripts survive.  A Mac
\* that is asleep is not added to the pool.
Crash ==
  /\ topic' = None /\ undo' = None /\ turn' = "no"
  /\ tracked' = Everywhere("none") /\ client' = Everywhere("none")
  /\ \E asleep \in SUBSET Away :
       link' = [m \in Mac |-> IF link[m] = "gone" THEN "gone"
                              ELSE IF m \in asleep THEN "absent" ELSE "up"]
  /\ \E c \in Slot :
       cmd' = [d \in Slot |-> IF d = c THEN Command0("boot", "starting", Home, FALSE) ELSE Idle]
  /\ notices' = {}
  /\ UNCHANGED <<row, file, astray>>

\* The factory of restore_sessions takes the default runner for a Mac not in the pool.
RestoreMac == IF InPool(row.mac) THEN row.mac ELSE Home

\* SessionStore.restore, of this row.
Restore(c) ==
  /\ cmd[c].at = "starting"
  /\ \/ /\ row.state = "active" /\ row.sdk
        /\ OpenSession(c, Command0("boot", "opening", RestoreMac, TRUE), tracked)
        /\ astray' = (astray \/ RestoreMac # row.mac)
        /\ UNCHANGED row
     \/ /\ row.state = "active" /\ ~row.sdk
        /\ row' = [row EXCEPT !.state = "orphaned"]
        /\ cmd' = [cmd EXCEPT ![c] = Idle] /\ UNCHANGED <<tracked, astray>>
     \/ /\ row.state # "active"
        /\ cmd' = [cmd EXCEPT ![c] = Idle] /\ UNCHANGED <<row, tracked, astray>>
  /\ UNCHANGED <<topic, undo, turn, link, client, file, notices>>

-----------------------------------------------------------------------------
Step(c) ==
  \/ \E m \in Mac : New(c, m) \/ Fork(c, m) \/ Move(c, m)
  \/ Restart(c) \/ Close(c) \/ Undo(c) \/ Resume(c)
  \/ \E how \in {"already", "raised", "answered", "late"} : CloseEnds(c, how)
  \/ StorePops(c)
  \/ MoveCopies(c) \/ MoveGivesUp(c) \/ MovePersists(c)
  \/ OpenRefused(c) \/ OpenRejected(c) \/ OpenTimesOut(c) \/ Opened(c)
  \/ Restore(c)

Next ==
  \/ \E c \in Slot : Step(c)
  \/ UndoExpires \/ PruneOldClosed
  \/ TurnBegins \/ IdAssigned \/ TurnEnds
  \/ \E m \in Mac : Reaped(m) \/ Evict(m) \/ Drop(m) \/ Reconnect(m) \/ MacsAdd(m) \/ MacsRemove(m)
  \/ Crash

Spec == Init /\ [][Next]_vars

-----------------------------------------------------------------------------
(* Properties.  Those on where the session is hold until it goes astray: a *)
(* move that waited for the turn goes ahead while a restart re-opens the   *)
(* source (bot.py:2448), a boot restores the session on the default Mac    *)
(* because its own was asleep (bot.py:3490), or a notice falls between     *)
(* mark_closed and the pop of sessions.close (sessions.py:96-98).          *)

\* Wherever the session would be opened next, by a restored row, by /resume or by
\* /undo, the transcript is there with all turns: a move that fails half-way, or a
\* bridge that dies in it, leaves the row at a Mac that has the conversation.
ReopensFindLatest ==
  ~astray =>
    /\ row.state \in {"active", "orphaned"} /\ row.sdk => file[row.mac] = "latest"
    /\ undo # None /\ undo.sdk => file[undo.mac] = "latest"

\* A message in the topic goes to a client that knows all turns before it, however
\* the session was moved, left behind and re-opened on either Mac.
TalksToLatest ==
  ~astray /\ Stored /\ Owns(topic.mac) /\ client[topic.mac] = "resumed"
    => file[topic.mac] = "latest"

\* Between commands the store has a session exactly if its row is active, and it
\* runs where the row says: else the topic can neither take a turn nor be resumed.
StoreMatchesTable ==
  ~astray /\ Quiet =>
    IF Stored THEN row.state = "active" /\ row.mac = topic.home /\ topic.mac = topic.home
              ELSE row.state # "active"

\* A session the user closed is not offered for /resume by what its runner says later.
\* The exception is a notice of another Mac's left-over session that falls between
\* mark_closed and the pop: that one does orphan the closed row.
ClosedStaysClosed ==
  [][row.state = "closed" /\ (\A c \in Slot : cmd[c].at # "storing")
       => row'.state # "orphaned"]_vars

\* cmd_resume: the row of an orphaned session keeps sdk_session_id, so a session with
\* a transcript can be resumed.
OrphansCanResume ==
  row.state = "orphaned" /\ (\E m \in Mac : file[m] = "latest") => row.sdk

=============================================================================
