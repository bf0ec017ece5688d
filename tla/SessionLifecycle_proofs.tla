---------------------- MODULE SessionLifecycle_proofs ----------------------
(***************************************************************************)
(* Proofs about SessionLifecycle, for any Macs, any of them asleep at a    *)
(* boot, and any number of commands under way.  The commands, the row and  *)
(* the registry agree in every state.  Where the conversation is, and that *)
(* registry and table name one Mac, holds until the session goes astray.   *)
(***************************************************************************)
EXTENDS SessionLifecycle, TLAPS

-----------------------------------------------------------------------------
(* In every state.                                                         *)

\* Only a command that took the topic's session holds it, and it does so to its end.
TopicHeld == \A c \in Slot : cmd[c].op \in {"restart", "move", "close"} => topic # None

\* A restart and a move may be under way together, no other two commands.
OneCommand ==
  /\ \A c \in Slot : cmd[c].at = "idle" <=> cmd[c].op = "none"
  /\ \A c \in Slot : cmd[c].at = "starting" => cmd[c].op = "boot"
  /\ \A c \in Slot : cmd[c].at = "storing" => cmd[c].op = "close"
  /\ \A c, d \in Slot :
       c # d /\ cmd[c].op \notin {"none", "restart", "move"} => cmd[d].op = "none"

\* While the bridge boots there is no session, and one is opened for an active row.
BootAlone ==
  \A c \in Slot : cmd[c].op = "boot" =>
    /\ topic = None /\ notices = {}
    /\ cmd[c].at # "starting" => row.state = "active"

\* A registered session whose row is not active is about to leave the registry: the
\* close that wrote the row, or the notice that did, waits for the store.
StoredIsActive ==
  Stored => \/ row.state = "active"
            \/ row.state = "orphaned" /\ notices # {}
            \/ \E c \in Slot : cmd[c].at = "storing"

RowInv == TopicHeld /\ OneCommand /\ BootAlone /\ StoredIsActive

-----------------------------------------------------------------------------
(* Operators.                                                              *)

\* The open of a command is a command, on a Mac that tracks what it may track.
LEMMA OpenSessionTypes ==
  ASSUME cmd \in [Slot -> Command], NEW c \in Slot, NEW k \in Command,
         NEW track \in [Mac -> {"none", "new", "id"}], OpenSession(c, k, track)
  PROVE  /\ cmd' \in [Slot -> Command]
         /\ tracked' \in [Mac -> {"none", "new", "id"}]
<1>1. [k EXCEPT !.at = "opening"] \in Command /\ [k EXCEPT !.at = "refused"] \in Command
  BY DEF Command
<1>2. cmd' \in [Slot -> Command]
  BY <1>1 DEF OpenSession
<1>3. k.mac \in Mac
  BY DEF Command
<1>4. tracked' \in [Mac -> {"none", "new", "id"}]
  BY <1>3 DEF OpenSession
<1>5. QED
  BY <1>2, <1>4

\* A command as it is given is a command.
LEMMA Command0Types ==
  ASSUME NEW m \in Mac, NEW sdk \in BOOLEAN,
         NEW op \in {"none", "boot", "new", "restart", "move", "close", "undo", "resume"},
         NEW at \in {"idle", "starting", "closing", "locking", "copied", "opening", "refused",
                 "storing"}
  PROVE  Command0(op, at, m, sdk) \in Command
<1>1. Home \in Mac
  BY HomeIsThere
<1>2. QED
  BY <1>1 DEF Command0, Command, Handle

\* An update of the topic's row leaves a row.
LEMMA UpdatedTypes ==
  ASSUME row \in Row, NEW r \in Row
  PROVE  Updated(r) \in Row
BY DEF Updated

\* The changes that updates make to a row leave a row.
LEMMA RowChanges ==
  ASSUME row \in Row
  PROVE  /\ \A s \in {"none", "active", "orphaned", "closed"} : [row EXCEPT !.state = s] \in Row
         /\ \A m \in Mac : [row EXCEPT !.mac = m] \in Row
         /\ \A b \in BOOLEAN : [row EXCEPT !.sdk = b] \in Row
         /\ \A b \in BOOLEAN : [row EXCEPT !.sdk = @ \/ b] \in Row
         /\ NoRow \in Row
BY HomeIsThere DEF Row, NoRow

\* A command that ends leaves the slot idle, and the session or nothing.
LEMMA DoneTypes ==
  ASSUME cmd \in [Slot -> Command], NEW c \in Slot, NEW t \in Topic \cup {None}, Done(c, t)
  PROVE  cmd' \in [Slot -> Command] /\ topic' \in Topic \cup {None}
<1>1. Idle \in Command
  BY Command0Types, HomeIsThere DEF Idle
<1>2. QED
  BY <1>1 DEF Done

\* A copy of the transcript that falls behind or catches up is a copy.
LEMMA WrittenTypes ==
  ASSUME file \in [Mac -> {"none", "stale", "latest"}], NEW m \in Mac
  PROVE  Written(m) \in [Mac -> {"none", "stale", "latest"}]
BY DEF Written

-----------------------------------------------------------------------------
(* Types.                                                                  *)

\* Every operation leaves every variable in its type.
LEMMA StepTypes ==
  ASSUME TypeOK, TopicHeld, OneCommand, [Next]_vars
  PROVE  TypeOK'
<1> USE DEF TypeOK, macs, noted
<1>home. Home \in Mac
  BY HomeIsThere
<1>open. ASSUME NEW c \in Slot, NEW k \in Command, NEW track \in [Mac -> {"none", "new", "id"}],
                OpenSession(c, k, track)
         PROVE  cmd' \in [Slot -> Command] /\ tracked' \in [Mac -> {"none", "new", "id"}]
  BY <1>open, OpenSessionTypes
<1>done. ASSUME NEW c \in Slot, NEW t \in Topic \cup {None}, Done(c, t)
         PROVE  cmd' \in [Slot -> Command] /\ topic' \in Topic \cup {None}
  BY <1>done, DoneTypes
<1>failed. ASSUME NEW c \in Slot, Failed(c)
           PROVE  /\ row' \in Row /\ cmd' \in [Slot -> Command] /\ topic' \in Topic \cup {None}
                  /\ UNCHANGED <<undo, turn, link, file, notices, astray>>
  <2>1. cmd[c].op = "move" => topic.home \in Mac
    BY DEF TopicHeld, Topic
  <2>2. row' \in Row
    BY <1>failed, <2>1, RowChanges, UpdatedTypes DEF Failed
  <2>3. QED
    BY <1>failed, <2>2, <1>done DEF Failed
<1>1. CASE UNCHANGED vars
  BY <1>1 DEF vars
<1>2. ASSUME NEW c \in Slot, NEW m \in Mac, NEW sdk \in BOOLEAN, ExecuteNewSession(c, m, sdk)
      PROVE  TypeOK'
  <2>1. Command0("new", "opening", m, sdk) \in Command
    BY Command0Types
  <2>2. cmd' \in [Slot -> Command] /\ tracked' \in [Mac -> {"none", "new", "id"}]
    BY <1>2, <2>1, <1>open DEF ExecuteNewSession
  <2>3. QED
    BY <1>2, <2>2, RowChanges DEF ExecuteNewSession
<1>3. ASSUME NEW c \in Slot, NEW m \in Mac, New(c, m) PROVE TypeOK'
  BY <1>2, <1>3 DEF New
<1>4. ASSUME NEW c \in Slot, NEW m \in Mac, Fork(c, m) PROVE TypeOK'
  BY <1>2, <1>4 DEF Fork
<1>5. ASSUME NEW c \in Slot, NEW m \in Mac, Move(c, m) PROVE TypeOK'
  <2>1. Command0("move", "locking", m, TRUE) \in Command
    BY Command0Types
  <2>2. QED
    BY <1>5, <2>1 DEF Move
<1>6. ASSUME NEW c \in Slot, NEW op \in {"restart", "close"}, topic # None
      PROVE  [op |-> op, at |-> "closing", mac |-> topic.home, sdk |-> topic.sdk,
              from |-> topic.mac, handle |-> topic.handle] \in Command
  BY <1>6 DEF Topic, Command
<1>7. ASSUME NEW c \in Slot, Restart(c) PROVE TypeOK'
  BY <1>6, <1>7 DEF Restart, Stored
<1>8. ASSUME NEW c \in Slot, Close(c) PROVE TypeOK'
  <2>1. undo' \in Destructive
    BY <1>8 DEF Close, Stored, Topic, Destructive
  <2>2. QED
    BY <1>6, <1>8, <2>1 DEF Close, Stored
<1>9. ASSUME NEW c \in Slot, Undo(c) PROVE TypeOK'
  <2>1. Command0("undo", "opening", undo.mac, undo.sdk) \in Command
    BY <1>9, Command0Types DEF Undo, Destructive
  <2>2. cmd' \in [Slot -> Command] /\ tracked' \in [Mac -> {"none", "new", "id"}]
    BY <1>9, <2>1, <1>open DEF Undo
  <2>3. QED
    BY <1>9, <2>2 DEF Undo
<1>10. ASSUME NEW c \in Slot, Resume(c) PROVE TypeOK'
  <2>1. Command0("resume", "opening", row.mac, TRUE) \in Command
    BY Command0Types DEF Row
  <2>2. cmd' \in [Slot -> Command] /\ tracked' \in [Mac -> {"none", "new", "id"}]
    BY <1>10, <2>1, <1>open DEF Resume
  <2>3. QED
    BY <1>10, <2>2 DEF Resume
<1>11. ASSUME NEW c \in Slot, NEW how \in {"already", "raised", "answered", "late"},
              CloseEnds(c, how)
       PROVE  TypeOK'
  <2> DEFINE k == cmd[c]
             track == IF how \in {"answered", "late"} THEN [tracked EXCEPT ![k.from] = "none"]
                                                      ELSE tracked
             handle == CASE how = "raised" -> k.handle [] how = "late" -> "stray"
                         [] OTHER -> "closed"
             t == IF k.op # "move" /\ topic.mac = k.from THEN [topic EXCEPT !.handle = handle]
                                                         ELSE topic
  <2>1. k \in Command /\ track \in [Mac -> {"none", "new", "id"}] /\ handle \in Handle
    BY DEF Command, Handle
  <2>2. CASE k.op \in {"restart", "close", "move"}
    <3>1. topic \in Topic
      BY <2>2 DEF TopicHeld
    <3>2. t \in Topic /\ [t EXCEPT !.stored = FALSE] \in Topic
      BY <3>1, <2>1 DEF Topic
    <3>3. /\ client' \in [Mac -> {"none", "blank", "resumed"}]
          /\ UNCHANGED <<undo, link, file, notices, astray>>
      BY <1>11 DEF CloseEnds
    <3>4. CASE k.op = "restart"
      <4>1. [k EXCEPT !.mac = topic.home] \in Command
        BY <2>1, <3>1 DEF Command, Topic
      <4>2. /\ OpenSession(c, [k EXCEPT !.mac = topic.home], track)
            /\ topic' = t /\ UNCHANGED row /\ turn' \in {"no", "running", "hung"}
        BY <1>11, <3>4 DEF CloseEnds, RestartReopens, TurnTold
      <4>3. QED
        BY <3>2, <3>3, <4>1, <4>2, <2>1, <1>open
    <3>5. CASE k.op = "close"
      <4>1. /\ StoreClose(c) /\ topic' = t /\ tracked' = track
            /\ turn' \in {"no", "running", "hung"}
        BY <1>11, <3>5 DEF CloseEnds, TurnTold
      <4>2. row' \in Row
        BY <4>1, RowChanges, UpdatedTypes DEF StoreClose
      <4>3. cmd' \in [Slot -> Command]
        <5>1. [k EXCEPT !.at = "storing"] \in Command
          BY <2>1 DEF Command
        <5>2. QED
          BY <4>1, <5>1 DEF StoreClose
      <4>4. QED
        BY <3>2, <3>3, <4>1, <4>2, <4>3, <2>1
    <3>6. CASE k.op = "move"
      <4>1. /\ Done(c, t) /\ tracked' = track
            /\ UNCHANGED row /\ turn' \in {"no", "running", "hung"}
        BY <1>11, <3>6 DEF CloseEnds, TurnTold
      <4>2. QED
        BY <3>2, <3>3, <4>1, <2>1, <1>done
    <3>7. QED
      BY <2>2, <3>4, <3>5, <3>6
  <2>3. QED
    BY <1>11, <2>2 DEF CloseEnds
<1>pops. ASSUME NEW c \in Slot, StorePops(c) PROVE TypeOK'
  <2>1. cmd[c].op = "close"
    BY <1>pops DEF StorePops, OneCommand
  <2>2. [topic EXCEPT !.stored = FALSE] \in Topic
    BY <2>1 DEF TopicHeld, Topic
  <2>3. cmd' \in [Slot -> Command] /\ topic' \in Topic \cup {None}
    BY <1>pops, <2>2, <1>done DEF StorePops
  <2>4. QED
    BY <1>pops, <2>3 DEF StorePops
<1>12. ASSUME NEW c \in Slot, MoveCopies(c) PROVE TypeOK'
  <2>1. topic.home \in Mac /\ [cmd[c] EXCEPT !.at = "copied"] \in Command
    BY <1>12 DEF MoveCopies, TopicHeld, Topic, Command
  <2>2. QED
    BY <1>12, <2>1 DEF MoveCopies
<1>13. ASSUME NEW c \in Slot, MoveGivesUp(c) PROVE TypeOK'
  <2>1. topic.home \in Mac /\ cmd[c].mac \in Mac
    BY <1>13 DEF MoveGivesUp, TopicHeld, Topic, Command
  <2>2. cmd' \in [Slot -> Command] /\ topic' \in Topic \cup {None}
    BY <1>13, <1>done DEF MoveGivesUp
  <2>3. QED
    BY <1>13, <2>1, <2>2 DEF MoveGivesUp
<1>14. ASSUME NEW c \in Slot, MovePersists(c) PROVE TypeOK'
  <2>1. cmd' \in [Slot -> Command] /\ tracked' \in [Mac -> {"none", "new", "id"}]
    BY <1>14, <1>open DEF MovePersists
  <2>2. cmd[c].mac \in Mac
    BY DEF Command
  <2>3. row' \in Row
    BY <1>14, <2>2, RowChanges, UpdatedTypes DEF MovePersists
  <2>4. QED
    BY <1>14, <2>1, <2>3 DEF MovePersists
<1>15. ASSUME NEW c \in Slot, OpenRefused(c) PROVE TypeOK'
  BY <1>15, <1>failed DEF OpenRefused
<1>16. ASSUME NEW c \in Slot, OpenRejected(c) PROVE TypeOK'
  BY <1>16, <1>failed DEF OpenRejected
<1>17. ASSUME NEW c \in Slot, OpenTimesOut(c) PROVE TypeOK'
  <2>1. client' \in [Mac -> {"none", "blank", "resumed"}]
    BY <1>17 DEF OpenTimesOut, Opens
  <2>2. QED
    BY <1>17, <2>1, <1>failed DEF OpenTimesOut
<1>18. ASSUME NEW c \in Slot, Opened(c) PROVE TypeOK'
  <2>1. cmd[c] \in Command /\ cmd[c].mac \in Mac /\ cmd[c].sdk \in BOOLEAN
    BY DEF Command
  <2>2. client' \in [Mac -> {"none", "blank", "resumed"}]
    BY <1>18 DEF Opened, Opens
  <2>3. [cmd EXCEPT ![c] = Idle] \in [Slot -> Command]
    BY <1>home, Command0Types DEF Idle
  <2>4. \A b \in BOOLEAN : SdkIdWritten(b) \in Row
    BY RowChanges, UpdatedTypes DEF SdkIdWritten
  <2>5. topic # None => Swapped(c) \in Topic
    BY <2>1 DEF Swapped, Topic, Handle
  <2>6. CASE cmd[c].op \in {"new", "undo", "resume"}
    <3>1. Add(cmd[c].mac, cmd[c].sdk) /\ cmd' = [cmd EXCEPT ![c] = Idle]
      BY <1>18, <2>6 DEF Opened
    <3>2. row' \in Row /\ topic' \in Topic
      BY <2>1, <3>1 DEF Add, Row, Topic, Handle
    <3>3. QED
      BY <1>18, <2>2, <2>3, <3>1, <3>2 DEF Opened
  <2>7. CASE cmd[c].op = "restart"
    <3>1. RestartSwaps(c)
      BY <1>18, <2>7 DEF Opened
    <3>2. Swapped(c) \in Topic /\ row' \in Row /\ Done(c, Swapped(c))
      BY <2>1, <2>4, <2>5, <2>7, <3>1 DEF RestartSwaps, TopicHeld
    <3>3. cmd' \in [Slot -> Command] /\ topic' \in Topic \cup {None}
      BY <3>2, <1>done
    <3>4. QED
      BY <1>18, <2>2, <3>2, <3>3 DEF Opened
  <2>8. CASE cmd[c].op = "move"
    <3>1. MoveSwaps(c)
      BY <1>18, <2>8 DEF Opened
    <3>2. topic \in Topic /\ Swapped(c) \in Topic
      BY <2>5, <2>8 DEF TopicHeld
    <3>3. topic' \in Topic
      BY <2>1, <3>1, <3>2 DEF MoveSwaps, Topic
    <3>4. [cmd[c] EXCEPT !.at = "closing", !.from = topic.mac, !.handle = topic.handle]
            \in Command
      BY <2>1, <3>2 DEF Command, Topic
    <3>5. cmd' \in [Slot -> Command]
      BY <3>1, <3>4 DEF MoveSwaps
    <3>6. row' \in Row
      BY <2>4, <3>1 DEF MoveSwaps
    <3>7. QED
      BY <1>18, <2>2, <3>3, <3>5, <3>6 DEF Opened
  <2>9. CASE cmd[c].op = "boot"
    <3>1. Restored(c)
      BY <1>18, <2>9 DEF Opened
    <3>2. row' \in Row /\ topic' \in Topic
      BY <2>1, <2>4, <3>1 DEF Restored, Row, Topic, Handle
    <3>3. QED
      BY <1>18, <2>2, <2>3, <3>1, <3>2 DEF Opened, Restored
  <2>10. QED
    BY <1>18, <2>6, <2>7, <2>8, <2>9 DEF Opened
<1>19. ASSUME NEW c \in Slot, Restore(c) PROVE TypeOK'
  <2>1. Idle \in Command /\ Command0("boot", "opening", RestoreMac, TRUE) \in Command
    BY <1>home, Command0Types DEF Idle, RestoreMac, Row
  <2>2. CASE row.state = "active" /\ row.sdk
    BY <1>19, <2>1, <2>2, <1>open DEF Restore
  <2>3. CASE ~(row.state = "active" /\ row.sdk)
    BY <1>19, <2>1, <2>3, RowChanges DEF Restore
  <2>4. QED
    BY <2>2, <2>3
<1>20. CASE UndoExpires
  BY <1>20 DEF UndoExpires
<1>21. CASE PruneOldClosed
  BY <1>21, RowChanges DEF PruneOldClosed
<1>22. CASE TurnBegins
  <2>1. file' \in [Mac -> {"none", "stale", "latest"}]
    BY <1>22, WrittenTypes DEF TurnBegins, Stored, Topic
  <2>2. QED
    BY <1>22, <2>1 DEF TurnBegins
<1>23. CASE IdAssigned
  <2>1. topic \in Topic /\ topic.mac \in Mac
    BY <1>23 DEF IdAssigned, Owns, Topic
  <2>2. row' \in Row
    BY <1>23, RowChanges, UpdatedTypes DEF IdAssigned
  <2>3. file' \in [Mac -> {"none", "stale", "latest"}]
    BY <1>23, <2>1, WrittenTypes DEF IdAssigned
  <2>4. topic' \in Topic
    BY <1>23, <2>1 DEF IdAssigned, Topic
  <2>5. QED
    BY <1>23, <2>1, <2>2, <2>3, <2>4 DEF IdAssigned
<1>24. CASE TurnEnds
  BY <1>24 DEF TurnEnds
<1>25. ASSUME NEW m \in Mac, NEW h \in Handle
       PROVE  HandleBecomes(m, h) \in Topic \cup {None}
  BY DEF HandleBecomes, Owns, Topic
<1>26. ASSUME NEW m \in Mac, Reaped(m) PROVE TypeOK'
  <2>1. row' \in Row
    BY <1>26, RowChanges, UpdatedTypes DEF Reaped
  <2>2. topic' \in Topic \cup {None}
    BY <1>25, <1>26 DEF Reaped, Handle
  <2>3. QED
    BY <1>26, <2>1, <2>2 DEF Reaped, TurnTold
<1>evict. ASSUME NEW m \in Mac, Evict(m) PROVE TypeOK'
  <2>1. topic' \in Topic \cup {None}
    BY <1>evict DEF Evict, Stored, Topic
  <2>2. QED
    BY <1>evict, <2>1 DEF Evict
<1>27. ASSUME NEW m \in Mac, Drop(m) PROVE TypeOK'
  BY <1>27 DEF Drop, TurnTold
<1>28. ASSUME NEW m \in Mac, Reconnect(m) PROVE TypeOK'
  <2>1. row' \in Row
    BY <1>28, RowChanges, UpdatedTypes DEF Reconnect
  <2>2. topic' \in Topic \cup {None}
    BY <1>25, <1>28 DEF Reconnect, Handle
  <2>3. QED
    BY <1>28, <2>1, <2>2 DEF Reconnect
<1>29. ASSUME NEW m \in Mac, MacsAdd(m) PROVE TypeOK'
  BY <1>29 DEF MacsAdd
<1>30. ASSUME NEW m \in Mac, MacsRemove(m) PROVE TypeOK'
  BY <1>30 DEF MacsRemove
<1>31. CASE Crash
  <2>1. Idle \in Command /\ Command0("boot", "starting", Home, FALSE) \in Command
    BY <1>home, Command0Types DEF Idle
  <2>2. cmd' \in [Slot -> Command]
    <3>1. PICK c \in Slot :
            cmd' = [d \in Slot |-> IF d = c THEN Command0("boot", "starting", Home, FALSE)
                                            ELSE Idle]
      BY <1>31 DEF Crash
    <3>2. QED
      BY <2>1, <3>1
  <2>3. link' \in [Mac -> {"up", "down", "absent", "gone"}]
    BY <1>31 DEF Crash
  <2>4. /\ tracked' \in [Mac -> {"none", "new", "id"}]
        /\ client' \in [Mac -> {"none", "blank", "resumed"}]
    BY <1>31 DEF Crash, Everywhere
  <2>5. QED
    BY <1>31, <2>2, <2>3, <2>4 DEF Crash
<1>32. QED
  BY <1>1, <1>3, <1>4, <1>5, <1>7, <1>8, <1>9, <1>10, <1>11, <1>pops, <1>12, <1>13, <1>14, <1>15,
     <1>16, <1>17, <1>18, <1>19, <1>20, <1>21, <1>22, <1>23, <1>24, <1>26, <1>evict, <1>27, <1>28,
     <1>29, <1>30, <1>31
     DEF Next, Step

\* A command that ends without a change of the row's state, or a boot that fails.
LEMMA CommandEnds ==
  ASSUME TypeOK, RowInv, NEW c \in Slot, cmd[c].at \notin {"idle", "storing"},
         NEW t \in Topic \cup {None}, Done(c, t),
         t = None <=> topic = None, t # None /\ t.stored => Stored,
         cmd[c].op = "boot" \/ row'.state = row.state, UNCHANGED notices
  PROVE  RowInv'
<1> USE NoneIsNot DEF RowInv, OneCommand
<1>1. /\ cmd'[c].op = "none" /\ cmd'[c].at = "idle"
      /\ \A d \in Slot : d # c => cmd'[d] = cmd[d]
  BY DEF Done, TypeOK, Idle, Command0
<1>2. OneCommand'
  BY <1>1
<1>3. topic' = None => topic = None \/ \A d \in Slot : cmd'[d].op = "none"
  BY <1>1 DEF Done, Alone
<1>4. TopicHeld'
  BY <1>1, <1>3 DEF TopicHeld
<1>5. topic = None => topic' = None
  BY DEF Done
<1>6. BootAlone'
  BY <1>1, <1>5 DEF BootAlone
<1>7. Stored' => Stored
  BY DEF Done, Stored
<1>8. (\E d \in Slot : cmd[d].at = "storing") => \E d \in Slot : cmd'[d].at = "storing"
  BY <1>1
<1>9. StoredIsActive'
  BY <1>7, <1>8 DEF StoredIsActive, BootAlone, Stored
<1>10. QED
  BY <1>2, <1>4, <1>6, <1>9

\* A restart or a move that goes on, the row in its state and the session held.
LEMMA CommandGoesOn ==
  ASSUME TypeOK, RowInv, NEW c \in Slot, cmd[c].op \in {"restart", "move"},
         cmd'[c].op = cmd[c].op, cmd'[c].at \notin {"idle", "starting", "storing"},
         \A d \in Slot : d # c => cmd'[d] = cmd[d],
         topic' # None, Stored' => Stored, row'.state = row.state, UNCHANGED notices
  PROVE  RowInv'
<1> USE DEF RowInv, OneCommand
<1>1. OneCommand'
  OBVIOUS
<1>2. TopicHeld'
  BY DEF TopicHeld
<1>3. \A d \in Slot : cmd'[d].op # "boot"
  OBVIOUS
<1>4. (\E d \in Slot : cmd[d].at = "storing") => \E d \in Slot : cmd'[d].at = "storing"
  OBVIOUS
<1>5. BootAlone' /\ StoredIsActive'
  BY <1>3, <1>4 DEF BootAlone, StoredIsActive
<1>6. QED
  BY <1>1, <1>2, <1>5

\* Every operation keeps the commands apart and the row beside what is stored.
LEMMA RowInvStep ==
  ASSUME TypeOK, RowInv, [Next]_vars
  PROVE  RowInv'
<1> USE NoneIsNot DEF RowInv, TopicHeld, OneCommand, BootAlone, StoredIsActive, Stored, TypeOK,
        NoCommand, Quiet, Topic, Command, macs, noted
<1>1. CASE UNCHANGED vars
  BY <1>1 DEF vars
<1>2. ASSUME NEW c \in Slot, NEW m \in Mac, New(c, m) PROVE RowInv'
  BY <1>2 DEF New, ExecuteNewSession, OpenSession, Command0
<1>3. ASSUME NEW c \in Slot, NEW m \in Mac, Fork(c, m) PROVE RowInv'
  BY <1>3 DEF Fork, ExecuteNewSession, OpenSession, Command0
<1>4. ASSUME NEW c \in Slot, NEW m \in Mac, Move(c, m) PROVE RowInv'
  BY <1>4 DEF Move, Command0
<1>5. ASSUME NEW c \in Slot, Restart(c) PROVE RowInv'
  BY <1>5 DEF Restart, Overtakes
<1>6. ASSUME NEW c \in Slot, Close(c) PROVE RowInv'
  BY <1>6 DEF Close
<1>7. ASSUME NEW c \in Slot, Undo(c) PROVE RowInv'
  BY <1>7 DEF Undo, OpenSession, Command0
<1>8. ASSUME NEW c \in Slot, Resume(c) PROVE RowInv'
  BY <1>8 DEF Resume, OpenSession, Command0
<1>9. ASSUME NEW c \in Slot, NEW how \in {"already", "raised", "answered", "late"}, CloseEnds(c,
             how)
      PROVE  RowInv'
  <2> DEFINE k == cmd[c]
             handle == CASE how = "raised" -> k.handle [] how = "late" -> "stray"
                         [] OTHER -> "closed"
             t == IF k.op # "move" /\ topic.mac = k.from THEN [topic EXCEPT !.handle = handle]
                                                         ELSE topic
  <2>1. CASE k.op \in {"restart", "close", "move"}
    <3>1. topic \in Topic /\ k.handle \in Handle
      BY <2>1
    <3>2. handle \in Handle
      BY <3>1 DEF Handle
    <3>3. t \in Topic /\ t.stored = topic.stored
      BY <3>1, <3>2
    <3> DEFINE gone == [t EXCEPT !.stored = FALSE]
    <3>4. t # None /\ gone \in Topic /\ gone # None /\ gone.stored = FALSE
      <4> HIDE DEF t
      <4>1. gone \in Topic /\ gone.stored = FALSE
        BY <3>3
      <4>2. \A x \in Topic : x # None
        BY NoneIsNot
      <4> HIDE DEF gone
      <4>3. QED
        BY <3>3, <4>1, <4>2
    <3> HIDE DEF t
    <3>5. CASE k.op = "restart"
      <4>1. /\ cmd'[c].op = "restart" /\ cmd'[c].at \in {"opening", "refused"}
            /\ \A d \in Slot : d # c => cmd'[d] = cmd[d]
            /\ topic' = t /\ UNCHANGED row
        <5> DEFINE r == [k EXCEPT !.mac = topic.home]
        <5>1. topic' = t /\ UNCHANGED row
          BY <1>9, <3>5 DEF CloseEnds, t
        <5>2. \E track : OpenSession(c, r, track)
          BY <1>9, <3>5 DEF CloseEnds, RestartReopens
        <5>3. r \in Command /\ r.op = "restart"
          BY <3>1, <3>5
        <5> HIDE DEF r
        <5>4. \E at \in {"opening", "refused"} : cmd' = [cmd EXCEPT ![c] = [r EXCEPT !.at = at]]
          BY <5>2 DEF OpenSession
        <5>5. QED
          BY <5>1, <5>3, <5>4
      <4>2. topic' # None /\ topic'.stored = topic.stored
        BY <3>3, <3>4, <4>1
      <4>3. cmd'[c].op = cmd[c].op /\ cmd'[c].at # "storing" /\ (Stored' => Stored)
        BY <3>5, <4>1, <4>2
      <4>4. QED
        BY <1>9, <3>5, <4>1, <4>2, <4>3, CommandGoesOn DEF CloseEnds
    <3>6. CASE k.op = "close"
      <4>1. StoreClose(c) /\ topic' = t
        BY <1>9, <3>6 DEF CloseEnds, t
      <4>2. cmd' = [cmd EXCEPT ![c] = [k EXCEPT !.at = "storing"]]
        BY <4>1 DEF StoreClose
      <4>3. /\ \A d \in Slot : cmd'[d].op = cmd[d].op /\ (d # c => cmd'[d].at = cmd[d].at)
            /\ cmd'[c].op = "close" /\ cmd'[c].at = "storing"
        BY <3>6, <4>2
      <4>4. topic' # None
        BY <3>3, <3>4, <4>1
      <4>5. \A d \in Slot : cmd'[d].op # "boot"
        BY <3>6, <4>3
      <4>6. TopicHeld'
        BY <4>4
      <4>7. OneCommand'
        BY <3>6, <4>3
      <4>8. BootAlone' /\ StoredIsActive'
        BY <4>3, <4>5
      <4>9. QED
        BY <4>6, <4>7, <4>8
    <3>7. CASE k.op = "move"
      <4>1. Done(c, t) /\ UNCHANGED row
        BY <1>9, <3>7 DEF CloseEnds, t
      <4>2. k.at = "closing" /\ UNCHANGED notices
        BY <1>9 DEF CloseEnds
      <4>3. QED
        BY <3>1, <3>3, <3>4, <4>1, <4>2, CommandEnds
    <3>8. QED
      BY <2>1, <3>5, <3>6, <3>7
  <2>2. QED
    BY <1>9, <2>1 DEF CloseEnds
<1>pops. ASSUME NEW c \in Slot, StorePops(c) PROVE RowInv'
  <2>1. cmd[c].at = "storing" /\ cmd[c].op = "close"
    BY <1>pops DEF StorePops
  <2>2. topic \in Topic /\ Alone(c)
    BY <2>1 DEF Alone
  <2>3. [topic EXCEPT !.stored = FALSE] \in Topic /\ ~[topic EXCEPT !.stored = FALSE].stored
    BY <2>2
  <2>4. topic' = None
    BY <1>pops, <2>2, <2>3 DEF StorePops, Done
  <2>5. cmd' = [cmd EXCEPT ![c] = Idle]
    BY <1>pops DEF StorePops, Done
  <2>6. QED
    BY <2>1, <2>4, <2>5 DEF Idle, Command0
<1>10. ASSUME NEW c \in Slot, MoveCopies(c) PROVE RowInv'
  BY <1>10 DEF MoveCopies
<1>11. ASSUME NEW c \in Slot, MoveGivesUp(c) PROVE RowInv'
  BY <1>11, CommandEnds DEF MoveGivesUp
<1>12. ASSUME NEW c \in Slot, MovePersists(c) PROVE RowInv'
  BY <1>12 DEF MovePersists, OpenSession, Updated, Row
<1>failed. ASSUME NEW c \in Slot, Failed(c), cmd[c].at \in {"opening", "refused"}
           PROVE  RowInv'
  <2>1. cmd[c].op = "boot" \/ row'.state = row.state
    BY <1>failed DEF Failed, Updated, Row
  <2>2. QED
    BY <1>failed, <2>1, CommandEnds DEF Failed
<1>13. ASSUME NEW c \in Slot, OpenRefused(c) PROVE RowInv'
  BY <1>13, <1>failed DEF OpenRefused
<1>14. ASSUME NEW c \in Slot, OpenRejected(c) PROVE RowInv'
  BY <1>14, <1>failed DEF OpenRejected
<1>15. ASSUME NEW c \in Slot, OpenTimesOut(c) PROVE RowInv'
  BY <1>15, <1>failed DEF OpenTimesOut
<1>16. ASSUME NEW c \in Slot, Opened(c) PROVE RowInv'
  <2> DEFINE k == cmd[c]
  <2>1. \A b \in BOOLEAN : SdkIdWritten(b).state = row.state
    BY DEF SdkIdWritten, Updated, Row
  <2>2. k.sdk \in BOOLEAN /\ k.mac \in Mac /\ cmd[c].at = "opening"
    BY <1>16 DEF Opened
  <2>3. CASE k.op \in {"new", "undo", "resume"}
    <3>1. Add(k.mac, k.sdk) /\ cmd' = [cmd EXCEPT ![c] = Idle]
      BY <1>16, <2>3 DEF Opened
    <3>2. row'.state = "active" /\ topic' \in Topic
      BY <2>2, <3>1 DEF Add, Handle
    <3>3. QED
      BY <2>3, <3>1, <3>2 DEF Idle, Command0
  <2>4. topic # None => Swapped(c) \in Topic /\ Swapped(c).stored = topic.stored
    BY <2>2 DEF Swapped, Handle
  <2>5. CASE k.op = "restart"
    <3>1. RestartSwaps(c)
      BY <1>16, <2>5 DEF Opened
    <3>2. QED
      BY <1>16, <2>1, <2>2, <2>4, <2>5, <3>1, CommandEnds DEF RestartSwaps, Opened
  <2>6. CASE k.op = "move"
    <3>1. MoveSwaps(c)
      BY <1>16, <2>6 DEF Opened
    <3>2. topic' \in Topic /\ topic'.stored = topic.stored
      BY <2>2, <2>4, <2>6, <3>1 DEF MoveSwaps
    <3>3. /\ cmd'[c].op = "move" /\ cmd'[c].at = "closing"
          /\ \A d \in Slot : d # c => cmd'[d] = cmd[d]
          /\ row'.state = row.state
      <4>1. row' = SdkIdWritten(TRUE)
        BY <3>1 DEF MoveSwaps
      <4>2. row'.state = row.state
        BY <2>1, <4>1
      <4>3. cmd'[c] = [cmd[c] EXCEPT !.at = "closing", !.from = topic.mac, !.handle = topic.handle]
        BY <3>1 DEF MoveSwaps
      <4>4. cmd'[c].op = "move" /\ cmd'[c].at = "closing"
        BY <2>6, <4>3
      <4>5. \A d \in Slot : d # c => cmd'[d] = cmd[d]
        BY <3>1 DEF MoveSwaps
      <4>6. QED
        BY <4>2, <4>4, <4>5
    <3>4. QED
      BY <1>16, <2>6, <3>2, <3>3, CommandGoesOn DEF Opened
  <2>7. CASE k.op = "boot"
    <3>1. Restored(c)
      BY <1>16, <2>7 DEF Opened
    <3>2. row'.state = "active"
      BY <2>1, <2>2, <2>7, <3>1 DEF Restored
    <3>3. topic' \in Topic
      BY <2>2, <3>1 DEF Restored, Row, Handle
    <3>4. cmd' = [cmd EXCEPT ![c] = Idle]
      BY <3>1 DEF Restored
    <3>5. QED
      BY <2>7, <3>2, <3>3, <3>4 DEF Idle, Command0
  <2>8. QED
    BY <1>16, <2>3, <2>5, <2>6, <2>7 DEF Opened
<1>17. ASSUME NEW c \in Slot, Restore(c) PROVE RowInv'
  <2>1. topic = None /\ \A d \in Slot : d # c => cmd[d].op = "none"
    BY <1>17 DEF Restore
  <2>2. CASE row.state = "active" /\ row.sdk
    <3>1. OpenSession(c, Command0("boot", "opening", RestoreMac, TRUE), tracked) /\ UNCHANGED row
      BY <1>17, <2>2 DEF Restore
    <3>2. /\ cmd'[c].op = "boot" /\ cmd'[c].at \in {"opening", "refused"}
          /\ \A d \in Slot : d # c => cmd'[d] = cmd[d]
      BY <3>1 DEF OpenSession, Command0
    <3>3. QED
      BY <1>17, <2>1, <2>2, <3>1, <3>2 DEF Restore
  <2>3. CASE ~(row.state = "active" /\ row.sdk)
    <3>1. cmd' = [cmd EXCEPT ![c] = Idle] /\ UNCHANGED topic
      BY <1>17, <2>3 DEF Restore
    <3>2. QED
      BY <2>1, <3>1 DEF Idle, Command0
  <2>4. QED
    BY <2>2, <2>3
<1>18. CASE UndoExpires
  BY <1>18 DEF UndoExpires
<1>19. CASE PruneOldClosed
  BY <1>19 DEF PruneOldClosed, NoRow
<1>20. CASE TurnBegins
  BY <1>20 DEF TurnBegins
<1>21. CASE IdAssigned
  <2>1. topic \in Topic /\ topic' \in Topic /\ topic'.stored = topic.stored
    BY <1>21 DEF IdAssigned, Owns
  <2>2. row'.state = row.state /\ UNCHANGED <<cmd, notices>>
    BY <1>21 DEF IdAssigned, Updated, Row
  <2>3. QED
    BY <2>1, <2>2
<1>22. CASE TurnEnds
  BY <1>22 DEF TurnEnds
<1>23. ASSUME NEW m \in Mac, Reaped(m) PROVE RowInv'
  <2>1. topic' = None <=> topic = None
    BY <1>23 DEF Reaped, HandleBecomes, Owns, Handle
  <2>2. Stored' = Stored
    BY <1>23, <2>1 DEF Reaped, HandleBecomes, Owns, Handle
  <2>3. UNCHANGED cmd
    BY <1>23 DEF Reaped
  <2>4. CASE tracked[m] # "none" /\ Stored
    <3>2. row'.state = "orphaned" \/ \E c \in Slot : cmd[c].at = "storing"
      BY <1>23, <2>4 DEF Reaped, Updated, Row
    <3>4. notices' # {}
      BY <1>23, <2>4 DEF Reaped
    <3>3. QED
      BY <2>1, <2>2, <2>3, <2>4, <3>2, <3>4
  <2>5. CASE ~(tracked[m] # "none" /\ Stored)
    <3>1. UNCHANGED <<row, notices>>
      BY <1>23, <2>5 DEF Reaped
    <3>2. QED
      BY <2>1, <2>2, <2>3, <3>1
  <2>6. QED
    BY <2>4, <2>5
<1>evict. ASSUME NEW m \in Mac, Evict(m) PROVE RowInv'
  <2>1. UNCHANGED <<row, cmd>> /\ \A c \in Slot : cmd[c].op # "boot"
    BY <1>evict DEF Evict
  <2>2. CASE Stored
    <3> DEFINE gone == [topic EXCEPT !.stored = FALSE]
    <3>1. gone \in Topic /\ ~gone.stored
      BY <2>2
    <3>2. topic' = IF NoCommand THEN None ELSE gone
      BY <1>evict, <2>2 DEF Evict
    <3> HIDE DEF gone
    <3>3. CASE NoCommand
      BY <2>1, <3>2, <3>3
    <3>4. CASE ~NoCommand
      <4>1. topic' # None /\ ~topic'.stored
        BY <3>1, <3>2, <3>4
      <4>2. QED
        BY <2>1, <4>1
    <3>5. QED
      BY <3>3, <3>4
  <2>3. CASE ~Stored
    BY <1>evict, <2>1, <2>3 DEF Evict
  <2>4. QED
    BY <2>2, <2>3
<1>24. ASSUME NEW m \in Mac, Drop(m) PROVE RowInv'
  BY <1>24 DEF Drop
<1>25. ASSUME NEW m \in Mac, Reconnect(m) PROVE RowInv'
  <2>1. row'.state = row.state /\ UNCHANGED <<cmd, notices>>
    BY <1>25 DEF Reconnect, Updated, Row
  <2>2. topic = None => topic' = None
    BY <1>25 DEF Reconnect, HandleBecomes, Owns
  <2>3. topic # None => topic' \in Topic /\ topic'.stored = topic.stored
    BY <1>25 DEF Reconnect, HandleBecomes, Handle
  <2>4. QED
    BY <2>1, <2>2, <2>3
<1>26. ASSUME NEW m \in Mac, MacsAdd(m) PROVE RowInv'
  BY <1>26 DEF MacsAdd
<1>27. ASSUME NEW m \in Mac, MacsRemove(m) PROVE RowInv'
  BY <1>27 DEF MacsRemove
<1>28. CASE Crash
  <2>1. PICK c \in Slot :
          cmd' = [d \in Slot |-> IF d = c THEN Command0("boot", "starting", Home, FALSE)
                                          ELSE Idle]
    BY <1>28 DEF Crash
  <2>2. /\ cmd'[c].op = "boot" /\ cmd'[c].at = "starting"
        /\ \A d \in Slot : d # c => cmd'[d].op = "none" /\ cmd'[d].at = "idle"
    BY <2>1 DEF Command0, Idle
  <2>3. topic' = None /\ notices' = {}
    BY <1>28 DEF Crash
  <2>4. QED
    BY <2>2, <2>3
<1>29. QED
  BY <1>1, <1>2, <1>3, <1>4, <1>5, <1>6, <1>7, <1>8, <1>9, <1>pops, <1>10, <1>11, <1>12, <1>13,
     <1>14, <1>15,
     <1>16, <1>17, <1>18, <1>19, <1>20, <1>21, <1>22, <1>23, <1>evict, <1>24,
     <1>25, <1>26, <1>27, <1>28
     DEF Next, Step

-----------------------------------------------------------------------------
(* Until the session goes astray.                                          *)

Conversation == \E m \in Mac : file[m] # "none"

\* If there is a transcript at all, this Mac has it with all turns.
HasIt(m) == Conversation => file[m] = "latest"

\* Of two commands under way one is a restart, the other a move that waits for the lock.
Apart ==
  \A c, d \in Slot : c # d /\ cmd[c].op # "none" /\ cmd[d].op # "none" =>
    \/ cmd[c].op = "restart" /\ cmd[d].op = "move" /\ cmd[d].at = "locking"
    \/ cmd[d].op = "restart" /\ cmd[c].op = "move" /\ cmd[c].at = "locking"

\* An SDK id is known, and a client resumed, only when there is a transcript.
IdMeansConversation ==
  /\ row.sdk \/ (topic # None /\ topic.sdk) \/ (undo # None /\ undo.sdk) => Conversation
  /\ \A c \in Slot : cmd[c].op # "none" /\ cmd[c].sdk => Conversation
  /\ \A m \in Mac : tracked[m] = "id" \/ client[m] = "resumed" => Conversation

\* The Macs that the row, the session, /undo and the command under way name.
WhereItIs ==
  /\ row.state \in {"active", "orphaned"} => HasIt(row.mac)
  /\ topic # None => HasIt(topic.mac)
  /\ undo # None => HasIt(undo.mac)
  /\ \A c \in Slot :
       cmd[c].op # "none" /\ cmd[c].at \notin {"starting", "locking"} => HasIt(cmd[c].mac)

\* The command at hand, its Mac and the session it took.
CommandAt ==
  \A c \in Slot :
    LET k == cmd[c] IN
    /\ k.op \in {"restart", "close"} => k.mac = topic.home
    /\ k.op \in {"restart", "close"} /\ k.at = "closing" => k.from = topic.mac
    /\ k.op = "close" => k.at \in {"closing", "storing"}
    /\ k.at = "storing" => row.state \in {"closed", "none"}
    /\ k.op = "move" =>
         IF k.at = "closing" THEN k.mac = topic.home /\ k.from # topic.mac
                             ELSE k.mac # topic.home
    /\ k.op = "move" /\ k.at \in {"opening", "refused"} =>
         row.state = "none" \/ row.mac = k.mac
    /\ k.op = "boot" /\ k.at # "starting" => k.mac = row.mac
    /\ k.op = "move" \/ (k.op = "boot" /\ k.at # "starting") => k.sdk
    /\ k.op \in {"new", "undo", "resume"} => topic = None /\ notices = {}

\* The registry and the table agree, but for a row that a boot has not restored and
\* the Mac of a move that opens.
Agree ==
  /\ topic # None => topic.home = topic.mac /\ (topic.stored \/ ~NoCommand)
  /\ notices # {} => row.state # "active"
  /\ row.state = "active" => Stored \/ \E c \in Slot : cmd[c].op = "boot"
  /\ Stored /\ row.mac # topic.home =>
       \E c \in Slot : cmd[c].op = "move" /\ cmd[c].at \in {"opening", "refused"}

TurnsWrite == turn = "running" => Stored /\ ~LockHeld

\* /undo is there from the start of a close until a session is opened.
UndoOfClosed ==
  undo # None =>
    \/ \E c \in Slot : cmd[c].op = "close" /\ undo.mac = topic.mac
    \/ NoCommand /\ topic = None /\ row.state \in {"closed", "none"}

SlotInv ==
  /\ Apart /\ IdMeansConversation /\ WhereItIs /\ CommandAt
  /\ Agree /\ TurnsWrite /\ UndoOfClosed

-----------------------------------------------------------------------------
(* What the larger steps come to.                                          *)

\* The end of a close: a restart goes on to open, a close to the store, a move is over.
LEMMA CloseEffect ==
  ASSUME TypeOK, TopicHeld, NEW c \in Slot,
         NEW how \in {"already", "raised", "answered", "late"}, CloseEnds(c, how)
  PROVE  /\ cmd[c].at = "closing" /\ topic \in Topic
         /\ UNCHANGED <<undo, link, file, notices, astray>>
         /\ \A d \in Slot : d # c => cmd'[d] = cmd[d]
         /\ \A m \in Mac : /\ tracked'[m] = "id" => tracked[m] = "id" \/ cmd[c].sdk
                           /\ client'[m] = "resumed" => client[m] = "resumed"
         /\ turn' = "running" => turn = "running"
         /\ \/ /\ cmd[c].op = "restart"
               /\ cmd'[c].op = "restart" /\ cmd'[c].at \in {"opening", "refused"}
               /\ cmd'[c].mac = topic.home /\ cmd'[c].sdk = cmd[c].sdk
               /\ topic' \in Topic /\ topic'.home = topic.home /\ topic'.mac = topic.mac
               /\ topic'.sdk = topic.sdk /\ topic'.stored = topic.stored
               /\ UNCHANGED row
            \/ /\ cmd[c].op = "close"
               /\ cmd'[c].op = "close" /\ cmd'[c].at = "storing"
               /\ cmd'[c].mac = cmd[c].mac /\ cmd'[c].sdk = cmd[c].sdk
               /\ topic' \in Topic /\ topic'.home = topic.home /\ topic'.mac = topic.mac
               /\ topic'.sdk = topic.sdk /\ topic'.stored = topic.stored
               /\ row'.state \in {"none", "closed"} /\ row'.mac = row.mac /\ row'.sdk = row.sdk
            \/ /\ cmd[c].op = "move"
               /\ cmd'[c] = Idle
               /\ topic' = IF ~topic.stored /\ Alone(c) THEN None ELSE topic
               /\ UNCHANGED row
<1> USE DEF TypeOK
<1> DEFINE k == cmd[c]
           track == IF how \in {"answered", "late"} THEN [tracked EXCEPT ![k.from] = "none"]
                                                    ELSE tracked
           handle == CASE how = "raised" -> k.handle [] how = "late" -> "stray"
                       [] OTHER -> "closed"
           t == IF k.op # "move" /\ topic.mac = k.from THEN [topic EXCEPT !.handle = handle]
                                                       ELSE topic
<1>1. /\ k.at = "closing" /\ k.op \in {"restart", "close", "move"}
      /\ UNCHANGED <<undo, link, file, notices, astray>>
  BY DEF CloseEnds, noted
<1>2. topic \in Topic
  BY <1>1 DEF TopicHeld
<1>3. k \in Command /\ k.handle \in Handle /\ k.from \in Mac
  BY DEF Command
<1>4. handle \in Handle
  BY <1>3 DEF Handle
<1>5. /\ t \in Topic /\ t.home = topic.home /\ t.mac = topic.mac
      /\ t.sdk = topic.sdk /\ t.stored = topic.stored
  BY <1>2, <1>4 DEF Topic
<1>6. client' = client \/ client' = [client EXCEPT ![k.from] = "none"]
  BY DEF CloseEnds
<1>7. \A m \in Mac : client'[m] = "resumed" => client[m] = "resumed"
  BY <1>3, <1>6
<1>8. \A m \in Mac : track[m] = "id" => tracked[m] = "id"
  BY <1>3
<1>9. \A d \in Slot : d # c => cmd'[d] = cmd[d]
  BY DEF CloseEnds, RestartReopens, OpenSession, StoreClose, Done
<1>10. CASE k.op = "restart"
  <2> DEFINE r == [k EXCEPT !.mac = topic.home]
  <2>1. /\ OpenSession(c, r, track)
        /\ topic' = t /\ UNCHANGED row
    BY <1>10 DEF CloseEnds, RestartReopens
  <2>2. turn' = "running" => turn = "running"
    BY <1>10 DEF CloseEnds, TurnTold
  <2>3. r \in Command /\ r.op = "restart" /\ r.mac = topic.home /\ r.sdk = k.sdk
    BY <1>2, <1>3, <1>10 DEF Command, Topic
  <2> HIDE DEF r, track, t
  <2>4. /\ tracked' = track \/ tracked' = [track EXCEPT ![r.mac] = IF r.sdk THEN "id" ELSE "new"]
        /\ \E at \in {"opening", "refused"} : cmd' = [cmd EXCEPT ![c] = [r EXCEPT !.at = at]]
    BY <2>1 DEF OpenSession
  <2>5. track \in [Mac -> {"none", "new", "id"}]
    BY <1>3 DEF track
  <2>6. \A m \in Mac : tracked'[m] = "id" => tracked[m] = "id" \/ k.sdk
    BY <1>8, <2>3, <2>4, <2>5
  <2>7. /\ cmd'[c].op = "restart" /\ cmd'[c].at \in {"opening", "refused"}
        /\ cmd'[c].mac = topic.home /\ cmd'[c].sdk = k.sdk
    BY <2>3, <2>4 DEF Command
  <2>8. QED
    BY <1>1, <1>2, <1>5, <1>7, <1>9, <1>10, <2>1, <2>2, <2>6, <2>7
<1>11. CASE k.op = "close"
  <2>1. StoreClose(c) /\ topic' = t /\ tracked' = track
    BY <1>11 DEF CloseEnds
  <2>2. cmd'[c].op = "close" /\ cmd'[c].at = "storing" /\ cmd'[c].mac = k.mac /\ cmd'[c].sdk = k.sdk
    BY <1>3, <1>11, <2>1 DEF StoreClose, Command
  <2>3. turn' = "running" => turn = "running"
    BY <1>11 DEF CloseEnds, TurnTold
  <2>5. row'.state \in {"none", "closed"} /\ row'.mac = row.mac /\ row'.sdk = row.sdk
    BY <2>1 DEF StoreClose, Updated, Row
  <2> HIDE DEF t, track
  <2>6. QED
    BY <1>1, <1>2, <1>5, <1>7, <1>8, <1>9, <1>11, <2>1, <2>2, <2>3, <2>5
<1>12. CASE k.op = "move"
  <2>1. Done(c, topic) /\ UNCHANGED row /\ tracked' = track
    BY <1>12 DEF CloseEnds
  <2>2. turn' = "running" => turn = "running"
    BY <1>12 DEF CloseEnds, TurnTold
  <2>3. topic # None /\ topic.stored \in BOOLEAN
    BY <1>2, NoneIsNot DEF Topic
  <2>4. cmd'[c] = Idle /\ topic' = IF ~topic.stored /\ Alone(c) THEN None ELSE topic
    BY <2>1, <2>3 DEF Done
  <2> HIDE DEF track
  <2>5. QED
    BY <1>1, <1>2, <1>7, <1>8, <1>9, <1>12, <2>1, <2>2, <2>4
<1>13. QED
  BY <1>1, <1>10, <1>11, <1>12

\* An open that succeeds, for each command.
LEMMA OpenEffect ==
  ASSUME TypeOK, TopicHeld, NEW c \in Slot, Opened(c)
  PROVE  /\ cmd[c].at = "opening" /\ link[cmd[c].mac] = "up"
         /\ cmd[c].sdk => file[cmd[c].mac] # "none"
         /\ \A m \in Mac : client'[m] = "resumed" => client[m] = "resumed" \/ cmd[c].sdk
         /\ UNCHANGED <<undo, turn, link, tracked, file, notices, astray>>
         /\ \A d \in Slot : d # c => cmd'[d] = cmd[d]
         /\ \/ /\ cmd[c].op \in {"new", "undo", "resume"}
               /\ row'.state = "active" /\ row'.mac = cmd[c].mac /\ row'.sdk = FALSE
               /\ topic' \in Topic /\ topic'.home = cmd[c].mac /\ topic'.mac = cmd[c].mac
               /\ topic'.sdk = cmd[c].sdk /\ topic'.stored = TRUE
               /\ cmd'[c] = Idle
            \/ /\ cmd[c].op = "restart"
               /\ row'.state = row.state /\ row'.mac = row.mac
               /\ row'.sdk = TRUE => row.sdk \/ cmd[c].sdk
               /\ topic \in Topic
               /\ IF topic.stored \/ ~Alone(c)
                    THEN /\ topic' \in Topic /\ topic'.home = topic.home
                         /\ topic'.mac = cmd[c].mac /\ topic'.sdk = cmd[c].sdk
                         /\ topic'.stored = topic.stored
                    ELSE topic' = None
               /\ cmd'[c] = Idle
            \/ /\ cmd[c].op = "move"
               /\ row'.state = row.state /\ row'.mac = row.mac
               /\ topic \in Topic
               /\ topic' \in Topic /\ topic'.home = cmd[c].mac /\ topic'.mac = cmd[c].mac
               /\ topic'.sdk = cmd[c].sdk /\ topic'.stored = topic.stored
               /\ cmd'[c].op = "move" /\ cmd'[c].at = "closing"
               /\ cmd'[c].mac = cmd[c].mac /\ cmd'[c].sdk = cmd[c].sdk
               /\ cmd'[c].from = topic.mac
            \/ /\ cmd[c].op = "boot"
               /\ row'.state = row.state /\ row'.mac = row.mac
               /\ topic' \in Topic /\ topic'.home = row.mac /\ topic'.mac = cmd[c].mac
               /\ topic'.stored = TRUE
               /\ cmd'[c] = Idle
<1> USE DEF TypeOK
<1> DEFINE k == cmd[c]
<1>1. k \in Command /\ k.mac \in Mac /\ k.sdk \in BOOLEAN
  BY DEF Command
<1>2. /\ k.at = "opening" /\ client' = Opens(k.mac, k.sdk) /\ client' # client
      /\ UNCHANGED <<undo, turn, link, tracked, file, notices, astray>>
  BY DEF Opened, noted
<1>3. /\ link[k.mac] = "up"
      /\ k.sdk => file[k.mac] # "none"
      /\ client' = [client EXCEPT ![k.mac] = IF k.sdk THEN "resumed" ELSE "blank"]
  BY <1>2 DEF Opens
<1>4. \A m \in Mac : client'[m] = "resumed" => client[m] = "resumed" \/ k.sdk
  BY <1>1, <1>3
<1>5. \A b \in BOOLEAN : /\ SdkIdWritten(b).state = row.state /\ SdkIdWritten(b).mac = row.mac
                         /\ SdkIdWritten(b).sdk = TRUE => row.sdk \/ b
  BY DEF SdkIdWritten, Updated, Row
<1>6. \A d \in Slot : d # c => cmd'[d] = cmd[d]
  BY DEF Opened, RestartSwaps, MoveSwaps, Restored, Done
<1>7. topic \in Topic =>
        /\ Swapped(c) \in Topic /\ Swapped(c).home = topic.home /\ Swapped(c).mac = k.mac
        /\ Swapped(c).sdk = k.sdk /\ Swapped(c).stored = topic.stored
        /\ topic.stored \in BOOLEAN
  BY <1>1 DEF Swapped, Topic, Handle
<1>8. CASE k.op \in {"new", "undo", "resume"}
  <2>1. Add(k.mac, k.sdk) /\ cmd' = [cmd EXCEPT ![c] = Idle]
    BY <1>8 DEF Opened
  <2>2. /\ row'.state = "active" /\ row'.mac = k.mac /\ row'.sdk = FALSE
        /\ topic' \in Topic /\ topic'.home = k.mac /\ topic'.mac = k.mac
        /\ topic'.sdk = k.sdk /\ topic'.stored = TRUE
    BY <1>1, <2>1 DEF Add, Topic, Handle
  <2>3. QED
    BY <1>2, <1>3, <1>4, <1>6, <1>8, <2>1, <2>2
<1>9. CASE k.op = "restart"
  <2>1. row' = SdkIdWritten(k.sdk) /\ Done(c, Swapped(c))
    BY <1>9 DEF Opened, RestartSwaps
  <2>2. topic \in Topic
    BY <1>9 DEF TopicHeld
  <2>3. Swapped(c) # None
    BY <1>7, <2>2, NoneIsNot
  <2>4. cmd'[c] = Idle /\ topic' = IF ~topic.stored /\ Alone(c) THEN None ELSE Swapped(c)
    BY <1>7, <2>1, <2>2, <2>3 DEF Done
  <2>5. QED
    BY <1>1, <1>2, <1>3, <1>4, <1>5, <1>6, <1>7, <1>9, <2>1, <2>2, <2>4
<1>10. CASE k.op = "move"
  <2>1. /\ row' = SdkIdWritten(TRUE)
        /\ topic' = [Swapped(c) EXCEPT !.home = k.mac]
        /\ cmd'[c] = [k EXCEPT !.at = "closing", !.from = topic.mac, !.handle = topic.handle]
    BY <1>10 DEF Opened, MoveSwaps
  <2>2. topic \in Topic
    BY <1>10 DEF TopicHeld
  <2>3. /\ topic' \in Topic /\ topic'.home = k.mac /\ topic'.mac = k.mac
        /\ topic'.sdk = k.sdk /\ topic'.stored = topic.stored
    BY <1>1, <1>7, <2>1, <2>2 DEF Topic
  <2>4. /\ cmd'[c].op = "move" /\ cmd'[c].at = "closing" /\ cmd'[c].mac = k.mac
        /\ cmd'[c].sdk = k.sdk /\ cmd'[c].from = topic.mac
    BY <1>1, <1>10, <2>1 DEF Command
  <2>5. row'.state = row.state /\ row'.mac = row.mac
    BY <1>5, <2>1
  <2>6. QED
    BY <1>2, <1>3, <1>4, <1>6, <1>10, <2>2, <2>3, <2>4, <2>5
<1>11. CASE k.op = "boot"
  <2>1. Restored(c)
    BY <1>11 DEF Opened
  <2>2. /\ topic' \in Topic /\ topic'.home = row.mac /\ topic'.mac = k.mac
        /\ topic'.stored = TRUE
    BY <1>1, <2>1 DEF Restored, Topic, Handle, Row
  <2>3. row'.state = row.state /\ row'.mac = row.mac /\ cmd'[c] = Idle
    BY <1>5, <2>1 DEF Restored
  <2>4. QED
    BY <1>2, <1>3, <1>4, <1>6, <1>11, <2>2, <2>3
<1>12. QED
  BY <1>8, <1>9, <1>10, <1>11 DEF Opened

\* An open that succeeds keeps the invariant: the session is at the Mac that has it.
LEMMA OpenedKeeps ==
  ASSUME TypeOK, RowInv, SlotInv, NEW c \in Slot, Opened(c)
  PROVE  SlotInv'
<1> USE NoneIsNot DEF SlotInv
<1>1. /\ cmd[c] \in Command /\ cmd[c].at = "opening" /\ link[cmd[c].mac] = "up"
      /\ cmd[c].mac \in Mac
      /\ cmd[c].sdk => file[cmd[c].mac] # "none"
      /\ \A m \in Mac : client'[m] = "resumed" => client[m] = "resumed" \/ cmd[c].sdk
      /\ UNCHANGED <<undo, turn, link, tracked, file, notices>>
  BY OpenEffect DEF RowInv, TypeOK, Command
<1>2. \A d \in Slot : d # c =>
        /\ cmd'[d] = cmd[d]
        /\ \/ cmd[d].op = "none" /\ cmd[d].at = "idle"
           \/ cmd[c].op = "restart" /\ cmd[d].op = "move" /\ cmd[d].at = "locking"
  BY <1>1, OpenEffect DEF Apart, RowInv, OneCommand
<1>3. Conversation' = Conversation
  BY <1>1 DEF Conversation
<1>4. \A x \in Topic : x # None
  OBVIOUS
<1>5. row \in Row /\ row.mac \in Mac
  BY DEF TypeOK, Row
<1>6. HasIt(cmd[c].mac)
  BY <1>1 DEF WhereItIs, RowInv, OneCommand
<1>7. /\ cmd[c].op \in {"boot", "new", "undo", "resume"} => topic = None /\ notices = {}
      /\ cmd[c].op \in {"restart", "close"} => cmd[c].mac = topic.home
      /\ cmd[c].op = "move" => cmd[c].mac # topic.home /\ cmd[c].sdk
      /\ cmd[c].op = "move" => row.state = "none" \/ row.mac = cmd[c].mac
      /\ cmd[c].op = "boot" => cmd[c].mac = row.mac /\ cmd[c].sdk
  BY <1>1 DEF CommandAt, RowInv, BootAlone
<1>8. topic # None => topic.home = topic.mac /\ topic.stored \in BOOLEAN
  BY DEF Agree, TypeOK, Topic
<1>9. cmd[c].op = "boot" => row.state = "active"
  BY <1>1 DEF RowInv, BootAlone
<1>10. CASE cmd[c].op \in {"new", "undo", "resume"}
  <2>1. /\ topic = None
        /\ row'.state = "active" /\ row'.mac = cmd[c].mac /\ row'.sdk = FALSE
        /\ topic' \in Topic /\ topic'.home = cmd[c].mac /\ topic'.mac = cmd[c].mac
        /\ topic'.sdk = cmd[c].sdk /\ topic'.stored = TRUE
        /\ cmd'[c] = Idle
    BY <1>4, <1>7, <1>8, <1>9, <1>10, OpenEffect DEF RowInv
  <2>2. IdMeansConversation'
    BY <1>1, <1>2, <1>3, <1>4, <1>5, <1>6, <1>7, <1>8, <1>9, <1>10, <2>1
       DEF IdMeansConversation, Idle, Command0, Conversation
  <2>3. WhereItIs'
    BY <1>1, <1>2, <1>3, <1>4, <1>5, <1>6, <1>7, <1>8, <1>9, <1>10, <2>1
       DEF WhereItIs, HasIt, Idle, Command0
  <2>4. CommandAt'
    BY <1>1, <1>2, <1>3, <1>4, <1>5, <1>6, <1>7, <1>8, <1>9, <1>10, <2>1
       DEF CommandAt, Idle, Command0
  <2>5. Agree'
    BY <1>1, <1>2, <1>3, <1>4, <1>5, <1>6, <1>7, <1>8, <1>9, <1>10, <2>1
       DEF Agree, Idle, Command0, NoCommand, Stored, RowInv, OneCommand, StoredIsActive
  <2>6. TurnsWrite'
    BY <1>1, <1>2, <1>3, <1>4, <1>5, <1>6, <1>7, <1>8, <1>9, <1>10, <2>1
       DEF TurnsWrite, CommandAt, Idle, Command0, Stored, LockHeld
  <2>7. UndoOfClosed'
    BY <1>1, <1>2, <1>3, <1>4, <1>5, <1>6, <1>7, <1>8, <1>9, <1>10, <2>1
       DEF UndoOfClosed, CommandAt, Agree, NoCommand, Idle, Command0
  <2>8. Apart'
    BY <1>2, <1>10, <2>1 DEF Apart, Idle, Command0
  <2>9. QED
    BY <2>2, <2>3, <2>4, <2>5, <2>6, <2>7, <2>8
<1>11. CASE cmd[c].op = "restart"
  <2>1. /\ topic \in Topic /\ topic.stored \in BOOLEAN
        /\ cmd[c].mac = topic.home /\ topic.mac = topic.home
        /\ row'.state = row.state /\ row'.mac = row.mac
        /\ row'.sdk = TRUE => row.sdk \/ cmd[c].sdk
        /\ IF topic.stored \/ ~Alone(c)
             THEN /\ topic' \in Topic /\ topic'.home = topic.home
                  /\ topic'.mac = topic.home /\ topic'.sdk = cmd[c].sdk
                  /\ topic'.stored = topic.stored
             ELSE topic' = None
        /\ cmd'[c] = Idle
    BY <1>4, <1>7, <1>8, <1>9, <1>11, OpenEffect DEF RowInv
  <2>11. IF \A d \in Slot : d # c => cmd[d].op = "none"
           THEN (topic.stored \/ topic' = None) /\ \A d \in Slot : cmd'[d].op = "none"
           ELSE topic' # None /\ ~NoCommand'
    <3>1. (\A d \in Slot : d # c => cmd[d].op = "none") <=> Alone(c)
      BY <1>2 DEF Alone
    <3>2. Alone(c) => \A d \in Slot : cmd'[d].op = "none"
      BY <1>2, <2>1, <3>1 DEF Idle, Command0
    <3>3. ~Alone(c) => ~NoCommand'
      BY <1>2 DEF Alone, NoCommand
    <3>4. QED
      BY <1>4, <2>1, <3>1, <3>2, <3>3
  <2>2. IdMeansConversation'
    BY <1>1, <1>2, <1>3, <1>4, <1>5, <1>6, <1>7, <1>8, <1>9, <1>11, <2>1, <2>11
       DEF IdMeansConversation, Idle, Command0, Conversation
  <2>3. WhereItIs'
    BY <1>1, <1>2, <1>3, <1>4, <1>5, <1>6, <1>7, <1>8, <1>9, <1>11, <2>1, <2>11
       DEF WhereItIs, HasIt, Idle, Command0
  <2>4. CommandAt'
    BY <1>1, <1>2, <1>3, <1>4, <1>5, <1>6, <1>7, <1>8, <1>9, <1>11, <2>1, <2>11
       DEF CommandAt, Idle, Command0
  <2>5. Agree'
    BY <1>1, <1>2, <1>3, <1>4, <1>5, <1>6, <1>7, <1>8, <1>9, <1>11, <2>1, <2>11
       DEF Agree, Idle, Command0, NoCommand, Stored, RowInv, OneCommand, StoredIsActive
  <2>6. TurnsWrite'
    BY <1>1, <1>2, <1>3, <1>4, <1>5, <1>6, <1>7, <1>8, <1>9, <1>11, <2>1, <2>11
       DEF TurnsWrite, CommandAt, Idle, Command0, Stored, LockHeld
  <2>7. UndoOfClosed'
    BY <1>1, <1>2, <1>3, <1>4, <1>5, <1>6, <1>7, <1>8, <1>9, <1>11, <2>1, <2>11
       DEF UndoOfClosed, CommandAt, Agree, NoCommand, Idle, Command0
  <2>8. Apart'
    BY <1>2, <1>11, <2>1 DEF Apart, Idle, Command0
  <2>9. QED
    BY <2>2, <2>3, <2>4, <2>5, <2>6, <2>7, <2>8
<1>12. CASE cmd[c].op = "move"
  <2>1. /\ topic \in Topic /\ topic.stored \in BOOLEAN
        /\ cmd[c].sdk /\ cmd[c].mac # topic.mac
        /\ row'.state = row.state /\ row'.mac = row.mac
        /\ topic' \in Topic /\ topic'.home = cmd[c].mac /\ topic'.mac = cmd[c].mac
        /\ topic'.sdk = cmd[c].sdk /\ topic'.stored = topic.stored
        /\ row.state = "none" \/ row.mac = cmd[c].mac
        /\ cmd'[c].op = "move" /\ cmd'[c].at = "closing"
        /\ cmd'[c].mac = cmd[c].mac /\ cmd'[c].sdk = cmd[c].sdk /\ cmd'[c].sdk
        /\ cmd'[c].from = topic.mac
    BY <1>4, <1>7, <1>8, <1>9, <1>12, OpenEffect DEF RowInv
  <2>2. IdMeansConversation'
    BY <1>1, <1>2, <1>3, <1>4, <1>5, <1>6, <1>7, <1>8, <1>9, <1>12, <2>1
       DEF IdMeansConversation, Idle, Command0, Conversation
  <2>3. WhereItIs'
    BY <1>1, <1>2, <1>3, <1>4, <1>5, <1>6, <1>7, <1>8, <1>9, <1>12, <2>1
       DEF WhereItIs, HasIt, Idle, Command0
  <2>4. CommandAt'
    BY <1>1, <1>2, <1>3, <1>4, <1>5, <1>6, <1>7, <1>8, <1>9, <1>12, <2>1
       DEF CommandAt, Idle, Command0
  <2>5. Agree'
    BY <1>1, <1>2, <1>3, <1>4, <1>5, <1>6, <1>7, <1>8, <1>9, <1>12, <2>1
       DEF Agree, Idle, Command0, NoCommand, Stored, RowInv, OneCommand, StoredIsActive
  <2>6. TurnsWrite'
    BY <1>1, <1>2, <1>3, <1>4, <1>5, <1>6, <1>7, <1>8, <1>9, <1>12, <2>1
       DEF TurnsWrite, CommandAt, Idle, Command0, Stored, LockHeld
  <2>7. UndoOfClosed'
    BY <1>1, <1>2, <1>3, <1>4, <1>5, <1>6, <1>7, <1>8, <1>9, <1>12, <2>1
       DEF UndoOfClosed, CommandAt, Agree, NoCommand, Idle, Command0
  <2>8. Apart'
    BY <1>2, <1>12, <2>1 DEF Apart, Idle, Command0
  <2>9. QED
    BY <2>2, <2>3, <2>4, <2>5, <2>6, <2>7, <2>8
<1>13. CASE cmd[c].op = "boot"
  <2>1. /\ topic = None /\ row.state = "active" /\ cmd[c].sdk /\ cmd[c].mac = row.mac
        /\ row'.state = row.state /\ row'.mac = row.mac
        /\ topic' \in Topic /\ topic'.home = row.mac /\ topic'.mac = row.mac
        /\ topic'.stored = TRUE
        /\ cmd'[c] = Idle
    BY <1>4, <1>7, <1>8, <1>9, <1>13, OpenEffect DEF RowInv
  <2>2. IdMeansConversation'
    BY <1>1, <1>2, <1>3, <1>4, <1>5, <1>6, <1>7, <1>8, <1>9, <1>13, <2>1
       DEF IdMeansConversation, Idle, Command0, Conversation
  <2>3. WhereItIs'
    BY <1>1, <1>2, <1>3, <1>4, <1>5, <1>6, <1>7, <1>8, <1>9, <1>13, <2>1
       DEF WhereItIs, HasIt, Idle, Command0
  <2>4. CommandAt'
    BY <1>1, <1>2, <1>3, <1>4, <1>5, <1>6, <1>7, <1>8, <1>9, <1>13, <2>1
       DEF CommandAt, Idle, Command0
  <2>5. Agree'
    BY <1>1, <1>2, <1>3, <1>4, <1>5, <1>6, <1>7, <1>8, <1>9, <1>13, <2>1
       DEF Agree, Idle, Command0, NoCommand, Stored, RowInv, OneCommand, StoredIsActive
  <2>6. TurnsWrite'
    BY <1>1, <1>2, <1>3, <1>4, <1>5, <1>6, <1>7, <1>8, <1>9, <1>13, <2>1
       DEF TurnsWrite, CommandAt, Idle, Command0, Stored, LockHeld
  <2>7. UndoOfClosed'
    BY <1>1, <1>2, <1>3, <1>4, <1>5, <1>6, <1>7, <1>8, <1>9, <1>13, <2>1
       DEF UndoOfClosed, CommandAt, Agree, NoCommand, Idle, Command0
  <2>8. Apart'
    BY <1>2, <1>13, <2>1 DEF Apart, Idle, Command0
  <2>9. QED
    BY <2>2, <2>3, <2>4, <2>5, <2>6, <2>7, <2>8
<1>14. QED
  BY <1>10, <1>11, <1>12, <1>13, OpenEffect DEF RowInv

\* A command that ends with the session as it was keeps the invariant.
LEMMA EndKeeps ==
  ASSUME TypeOK, RowInv, SlotInv, NEW c \in Slot, Done(c, topic),
         cmd[c].at \notin {"idle", "starting", "storing"}, cmd[c].op # "close",
         IF cmd[c].op = "boot" THEN row'.state = "orphaned" ELSE row'.state = row.state,
         row'.sdk = TRUE => row.sdk, row'.mac \in Mac,
         \/ row'.mac = row.mac /\ (cmd[c].op = "move" => cmd[c].at \notin {"opening", "refused"})
         \/ row'.mac = row.mac /\ cmd[c].op # "move"
         \/ row'.mac = row.mac /\ row.state = "none"
         \/ row'.mac = topic.home /\ cmd[c].op = "move",
         \A m \in Mac : /\ tracked'[m] = "id" => tracked[m] = "id"
                        /\ client'[m] = "resumed" => client[m] = "resumed" \/ cmd[c].sdk
                        /\ file[m] = "latest" => file'[m] = "latest",
         Conversation' = Conversation, turn' = "running" => turn = "running",
         UNCHANGED <<undo, notices>>
  PROVE  SlotInv'
<1> USE NoneIsNot DEF SlotInv
<1>1. /\ cmd'[c].op = "none" /\ cmd'[c].at = "idle" /\ ~cmd'[c].sdk
      /\ \A d \in Slot : d # c =>
           /\ cmd'[d] = cmd[d]
           /\ \/ cmd[d].op = "none" /\ cmd[d].at = "idle"
              \/ cmd[c].op = "restart" /\ cmd[d].op = "move" /\ cmd[d].at = "locking"
              \/ cmd[c].op = "move" /\ cmd[c].at = "locking" /\ cmd[d].op = "restart"
  BY DEF Done, TypeOK, Idle, Command0, RowInv, OneCommand, Apart
<1>2. undo = None /\ undo' = None
  BY <1>1 DEF UndoOfClosed, NoCommand
<1>3. /\ Alone(c) => NoCommand'
      /\ ~Alone(c) => ~NoCommand' /\ topic # None
  BY <1>1 DEF Alone, NoCommand, RowInv, TopicHeld
<1>4. /\ topic' = topic \/ topic' = None
      /\ topic' = None <=> topic = None \/ (~topic.stored /\ Alone(c))
  BY DEF Done
<1>5. topic # None => topic \in Topic /\ topic.mac \in Mac /\ topic.stored \in BOOLEAN
  BY DEF TypeOK, Topic
<1>6. Stored' <=> Stored
  BY <1>3, <1>4, <1>5 DEF Stored
<1>7. Apart'
  BY <1>1 DEF Apart
<1>8. IdMeansConversation'
  BY <1>1, <1>2, <1>4 DEF IdMeansConversation, RowInv, OneCommand
<1>9. row.mac \in Mac /\ \A m \in Mac : HasIt(m) => HasIt(m)'
  BY DEF HasIt, TypeOK, Row
<1>10. topic # None => HasIt(topic.mac) /\ topic.home = topic.mac
  BY DEF WhereItIs, Agree
<1>11. row'.state \in {"active", "orphaned"} => HasIt(row'.mac)
  BY <1>10 DEF WhereItIs, RowInv, TopicHeld, BootAlone
<1>12. \A d \in Slot : cmd[d].mac \in Mac
  BY DEF TypeOK, Command
<1>13. WhereItIs'
  BY <1>1, <1>2, <1>4, <1>5, <1>9, <1>10, <1>11, <1>12 DEF WhereItIs
<1>14. cmd[c].op \in {"restart", "move"} => topic # None
  BY DEF RowInv, TopicHeld
<1>15. CommandAt'
  <2>1. CASE Alone(c)
    BY <1>1, <1>3, <2>1 DEF CommandAt, NoCommand, RowInv, OneCommand
  <2>2. CASE ~Alone(c)
    BY <1>1, <1>3, <1>4, <2>2 DEF CommandAt, RowInv, OneCommand
  <2>3. QED
    BY <2>1, <2>2
<1>16. Agree'
  <2>1. topic' # None => topic'.home = topic'.mac /\ (topic'.stored \/ ~NoCommand')
    BY <1>3, <1>4, <1>5, <1>10
  <2>2. row'.state = "active" => Stored' \/ \E d \in Slot : cmd'[d].op = "boot"
    BY <1>1, <1>6 DEF Agree, RowInv, BootAlone, OneCommand
  <2>3. Stored' /\ row'.mac # topic'.home =>
          \E d \in Slot : cmd'[d].op = "move" /\ cmd'[d].at \in {"opening", "refused"}
    BY <1>1, <1>4, <1>6 DEF Agree, RowInv, StoredIsActive, OneCommand, Stored
  <2>4. notices' # {} => row'.state # "active"
    BY DEF Agree
  <2>5. QED
    BY <2>1, <2>2, <2>3, <2>4 DEF Agree
<1>17. TurnsWrite'
  BY <1>1, <1>6 DEF TurnsWrite, LockHeld
<1>18. UndoOfClosed'
  BY <1>2 DEF UndoOfClosed
<1>19. QED
  BY <1>7, <1>8, <1>13, <1>15, <1>16, <1>17, <1>18

\* A move that gives up leaves the session where it was.
LEMMA GivesUpKeeps ==
  ASSUME TypeOK, RowInv, SlotInv, NEW c \in Slot, MoveGivesUp(c)
  PROVE  SlotInv'
<1>1. /\ cmd[c].op = "move" /\ cmd[c].at = "locking" /\ Done(c, topic)
      /\ UNCHANGED <<row, undo, turn, tracked, client, notices>>
  BY DEF MoveGivesUp, noted
<1>2. /\ \A m \in Mac : file[m] = "latest" => file'[m] = "latest"
      /\ Conversation' = Conversation
  <2>1. topic \in Topic /\ topic.home \in Mac /\ cmd[c].mac \in Mac
    BY <1>1 DEF TypeOK, Topic, Command, RowInv, TopicHeld
  <2>2. Conversation => file[topic.home] = "latest"
    BY <2>1, NoneIsNot DEF SlotInv, WhereItIs, HasIt, Agree
  <2>3. \/ file' = file
        \/ /\ file[topic.home] # "none"
           /\ file' = [file EXCEPT ![cmd[c].mac] = file[topic.home]]
    BY DEF MoveGivesUp
  <2>4. CASE file' = file
    BY <2>4 DEF Conversation
  <2>5. CASE /\ file[topic.home] # "none"
             /\ file' = [file EXCEPT ![cmd[c].mac] = file[topic.home]]
    <3>1. Conversation
      BY <2>1, <2>5 DEF Conversation
    <3>2. \A m \in Mac : file'[m] = IF m = cmd[c].mac THEN "latest" ELSE file[m]
      BY <2>2, <2>5, <3>1 DEF TypeOK
    <3>3. Conversation'
      BY <2>1, <3>2 DEF Conversation
    <3>4. QED
      BY <3>1, <3>2, <3>3
  <2>6. QED
    BY <2>3, <2>4, <2>5
<1>3. row.mac \in Mac
  BY DEF TypeOK, Row
<1>4. QED
  BY <1>1, <1>2, <1>3, EndKeeps

\* A failed open leaves the session where it was, and the row of a move back there.
LEMMA FailedKeeps ==
  ASSUME TypeOK, RowInv, SlotInv, NEW c \in Slot, Failed(c), cmd[c].at \in {"opening", "refused"},
         \A m \in Mac : /\ tracked'[m] = "id" => tracked[m] = "id"
                        /\ client'[m] = "resumed" => client[m] = "resumed" \/ cmd[c].sdk
  PROVE  SlotInv'
<1>1. cmd[c].op # "close" /\ (cmd[c].op = "move" => topic \in Topic)
  BY DEF SlotInv, CommandAt, RowInv, TopicHeld, TypeOK
<1>2. row' = CASE cmd[c].op = "move" -> Updated([row EXCEPT !.mac = topic.home])
               [] cmd[c].op = "boot" -> [row EXCEPT !.state = "orphaned"]
               [] OTHER -> row
  BY DEF Failed
<1>3. /\ IF cmd[c].op = "boot" THEN row'.state = "orphaned" ELSE row'.state = row.state
      /\ row'.sdk = row.sdk /\ row'.mac \in Mac
      /\ IF cmd[c].op = "move" /\ row.state # "none" THEN row'.mac = topic.home
                                                   ELSE row'.mac = row.mac
  BY <1>1, <1>2 DEF Updated, TypeOK, Row, Topic
<1>4. Done(c, topic) /\ UNCHANGED <<undo, turn, file, notices>>
  BY DEF Failed, noted
<1>5. Conversation' = Conversation
  BY <1>4 DEF Conversation
<1>6. QED
  BY <1>1, <1>3, <1>4, <1>5, EndKeeps

\* Every operation keeps the conversation where the row, the session, /undo and the
\* command look for it.
LEMMA SlotInvStep ==
  ASSUME TypeOK, RowInv, SlotInv, [Next]_vars, ~astray'
  PROVE  SlotInv'
<1> USE NoneIsNot, HomeIsThere DEF SlotInv, Apart, IdMeansConversation, WhereItIs,
        CommandAt, Agree, TurnsWrite, UndoOfClosed,
        Conversation, HasIt, LockHeld,
        RowInv, TopicHeld, OneCommand, BootAlone, StoredIsActive, Stored, TypeOK, NoCommand, Quiet,
        Topic,
        Command, Destructive, macs, noted
<1>1. CASE UNCHANGED vars
  BY <1>1 DEF vars
<1>new. ASSUME NEW c \in Slot, NEW m \in Mac, NEW sdk \in BOOLEAN, ExecuteNewSession(c, m, sdk)
        PROVE  SlotInv'
  <2>1. /\ topic' = None /\ undo' = None /\ notices = {} /\ turn' = turn
        /\ row' = NoRow /\ row'.state = "none" /\ row'.sdk = FALSE
        /\ \A x \in Mac : tracked[x] = "none" /\ client[x] = "none"
        /\ \A x \in Mac : file'[x] = IF x = m /\ sdk THEN "latest" ELSE "none"
        /\ UNCHANGED <<client, notices>>
    BY <1>new DEF ExecuteNewSession, NoRow, Everywhere
  <2>2. /\ cmd'[c].op = "new" /\ cmd'[c].at \in {"opening", "refused"}
        /\ cmd'[c].mac = m /\ cmd'[c].sdk = sdk
        /\ \A d \in Slot : d # c => cmd'[d] = cmd[d]
        /\ \A x \in Mac : tracked'[x] = "id" => sdk /\ x = m
    BY <1>new, <2>1 DEF ExecuteNewSession, OpenSession, Command0
  <2>3. \A d \in Slot : d # c => cmd[d].op = "none" /\ cmd[d].at = "idle"
    BY <1>new DEF ExecuteNewSession
  <2>4. sdk => Conversation'
    BY <2>1
  <2>5. \A x \in Mac : (file'[x] = "latest") <=> (x = m /\ sdk)
    BY <2>1
  <2>6. IdMeansConversation'
    BY <2>1, <2>2, <2>3, <2>4
  <2>7. WhereItIs'
    BY <2>1, <2>2, <2>3, <2>5
  <2>8. CommandAt' /\ Apart'
    BY <2>1, <2>2, <2>3
  <2>9. Agree' /\ UndoOfClosed'
    BY <2>1, <2>2, <2>3
  <2>10. topic = None
    BY <1>new DEF ExecuteNewSession
  <2>11. TurnsWrite'
    BY <2>1, <2>10
  <2>12. QED
    BY <2>6, <2>7, <2>8, <2>9, <2>11
<1>2. ASSUME NEW c \in Slot, NEW m \in Mac, New(c, m) PROVE SlotInv'
  BY <1>new, <1>2 DEF New
<1>3. ASSUME NEW c \in Slot, NEW m \in Mac, Fork(c, m) PROVE SlotInv'
  BY <1>new, <1>3 DEF Fork
<1>4. ASSUME NEW c \in Slot, NEW m \in Mac, Move(c, m) PROVE SlotInv'
  BY <1>4 DEF Move, Command0
<1>5. ASSUME NEW c \in Slot, Restart(c) PROVE SlotInv'
  BY <1>5 DEF Restart, Overtakes
<1>6. ASSUME NEW c \in Slot, Close(c) PROVE SlotInv'
  BY <1>6 DEF Close
<1>7. ASSUME NEW c \in Slot, Undo(c) PROVE SlotInv'
  BY <1>7 DEF Undo, OpenSession, Command0
<1>8. ASSUME NEW c \in Slot, Resume(c) PROVE SlotInv'
  BY <1>8 DEF Resume, OpenSession, Command0
<1>9. ASSUME NEW c \in Slot, NEW how \in {"already", "raised", "answered", "late"}, CloseEnds(c,
             how)
      PROVE  SlotInv'
  BY <1>9, CloseEffect DEF Idle, Command0, Alone
<1>pops. ASSUME NEW c \in Slot, StorePops(c) PROVE SlotInv'
  <2>1. /\ cmd[c].at = "storing" /\ cmd[c].op = "close" /\ topic \in Topic
        /\ \A d \in Slot : d # c => cmd[d].op = "none" /\ cmd[d].at = "idle"
        /\ turn' = "no" /\ UNCHANGED <<row, undo, file, tracked, client, notices>>
    BY <1>pops DEF StorePops
  <2> DEFINE gone == [topic EXCEPT !.stored = FALSE]
  <2>2. gone \in Topic /\ ~gone.stored
    BY <2>1
  <2>3. Done(c, gone) /\ Alone(c)
    BY <1>pops, <2>1 DEF StorePops, Alone
  <2> HIDE DEF gone
  <2>11. gone # None
    BY <2>2
  <2>4. topic' = None /\ \A d \in Slot : cmd'[d].op = "none" /\ cmd'[d].at = "idle"
    BY <2>1, <2>2, <2>3, <2>11 DEF Done, Idle, Command0
  <2>5. row.state \in {"closed", "none"}
    BY <2>1
  <2>6. IdMeansConversation' /\ WhereItIs'
    BY <2>1, <2>4
  <2>7. CommandAt' /\ Apart' /\ TurnsWrite'
    BY <2>1, <2>4
  <2>8. Agree'
    BY <2>1, <2>4, <2>5
  <2>9. UndoOfClosed'
    BY <2>1, <2>4, <2>5
  <2>10. QED
    BY <2>6, <2>7, <2>8, <2>9
<1>10. ASSUME NEW c \in Slot, MoveCopies(c) PROVE SlotInv'
  BY <1>10 DEF MoveCopies, Alone
<1>11. ASSUME NEW c \in Slot, MoveGivesUp(c) PROVE SlotInv'
  BY <1>11, GivesUpKeeps DEF MoveGivesUp
<1>12. ASSUME NEW c \in Slot, MovePersists(c) PROVE SlotInv'
  BY <1>12 DEF MovePersists, OpenSession, Updated, Row
<1>13. ASSUME NEW c \in Slot, OpenRefused(c) PROVE SlotInv'
  BY <1>13, FailedKeeps DEF OpenRefused
<1>14. ASSUME NEW c \in Slot, OpenRejected(c) PROVE SlotInv'
  BY <1>14, FailedKeeps DEF OpenRejected
<1>15. ASSUME NEW c \in Slot, OpenTimesOut(c) PROVE SlotInv'
  BY <1>15, FailedKeeps DEF OpenTimesOut, Opens
<1>16. ASSUME NEW c \in Slot, Opened(c) PROVE SlotInv'
  BY <1>16, OpenedKeeps
<1>17. ASSUME NEW c \in Slot, Restore(c) PROVE SlotInv'
  BY <1>17 DEF Restore, OpenSession, Idle, Command0, Row, RestoreMac
<1>18. CASE UndoExpires
  BY <1>18 DEF UndoExpires
<1>19. CASE PruneOldClosed
  BY <1>19 DEF PruneOldClosed, NoRow
<1>20. CASE TurnBegins
  BY <1>20 DEF TurnBegins, Written
<1>21. CASE IdAssigned
  <2>1. /\ topic \in Topic /\ topic.stored /\ Owns(topic.mac) /\ turn = "running"
        /\ client' = [client EXCEPT ![topic.mac] = "resumed"]
        /\ tracked' = [tracked EXCEPT ![topic.mac] = "id"]
        /\ file' = Written(topic.mac)
        /\ UNCHANGED <<undo, cmd, turn, link, notices>>
    BY <1>21 DEF IdAssigned, Owns
  <2>2. /\ topic' \in Topic /\ topic'.stored = topic.stored /\ topic'.home = topic.home
        /\ topic'.mac = topic.mac
    BY <1>21, <2>1 DEF IdAssigned
  <2>3. row'.state = row.state /\ row'.mac = row.mac
    BY <1>21 DEF IdAssigned, Updated, Row
  <2>4. /\ file'[topic.mac] = "latest"
        /\ Conversation'
    BY <2>1 DEF Written
  <2>5. IdMeansConversation'
    BY <2>4
  <2>6. undo # None => undo.mac = topic.mac
    BY <2>1
  <2>7. \A c \in Slot :
          cmd[c].op # "none" /\ cmd[c].at \notin {"starting", "locking"} => cmd[c].mac = topic.mac
    BY <2>1
  <2>8. row.state \in {"active", "orphaned"} => row.mac = topic.mac
    BY <2>1
  <2>9. WhereItIs'
    BY <2>1, <2>2, <2>3, <2>4, <2>6, <2>7, <2>8
  <2>10. CommandAt' /\ Apart' /\ Agree'
    BY <2>1, <2>2, <2>3
  <2>11. TurnsWrite' /\ UndoOfClosed'
    BY <2>1, <2>2, <2>3
  <2>12. QED
    BY <2>5, <2>9, <2>10, <2>11
<1>22. CASE TurnEnds
  BY <1>22 DEF TurnEnds
<1>23. ASSUME NEW m \in Mac, Reaped(m) PROVE SlotInv'
  <2>1. /\ topic = None => topic' = None
        /\ topic # None =>
             /\ topic' \in Topic /\ topic' # None /\ topic'.stored = topic.stored
             /\ topic'.home = topic.home /\ topic'.mac = topic.mac /\ topic'.sdk = topic.sdk
    BY <1>23 DEF Reaped, HandleBecomes, Owns, Handle
  <2>2. /\ UNCHANGED <<undo, cmd, file>> /\ (turn' = "running" => turn = "running")
        /\ (Conversation => Conversation')
        /\ \A x \in Mac : /\ tracked'[x] = "id" => tracked[x] = "id"
                          /\ client'[x] = "resumed" => client[x] = "resumed"
    BY <1>23 DEF Reaped, TurnTold
  <2>3. /\ row'.mac = row.mac /\ row'.sdk = row.sdk
        /\ \/ row'.state = row.state /\ UNCHANGED notices
           \/ row.state \notin {"none", "closed"} /\ row'.state = "orphaned" /\ Stored
           \/ row.state = "none" /\ row'.state = "none" /\ Stored
    BY <1>23 DEF Reaped, Updated, Row
  <2>4. Stored' = Stored
    BY <2>1
  <2>12. row'.sdk \/ (topic' # None /\ topic'.sdk) \/ (undo' # None /\ undo'.sdk) => Conversation'
    BY <2>1, <2>2, <2>3
  <2>13. \A x \in Mac : tracked'[x] = "id" \/ client'[x] = "resumed" => Conversation'
    <3>1. ASSUME NEW x \in Mac, tracked[x] = "id" \/ client[x] = "resumed" PROVE Conversation
      BY <3>1
    <3>2. ASSUME NEW x \in Mac, tracked'[x] = "id" \/ client'[x] = "resumed" PROVE Conversation'
      <4>1. tracked[x] = "id" \/ client[x] = "resumed"
        BY <2>2, <3>2
      <4>2. QED
        BY <2>2, <3>1, <4>1
    <3>3. QED
      BY <3>2
  <2>5. IdMeansConversation'
    BY <2>2, <2>12, <2>13
  <2>6. WhereItIs'
    BY <2>1, <2>2, <2>3
  <2>7. CommandAt' /\ Apart'
    BY <2>1, <2>2, <2>3
  <2>8. Agree'
    BY <2>1, <2>2, <2>3
  <2>9. TurnsWrite'
    BY <2>2, <2>4
  <2>10. UndoOfClosed'
    BY <2>1, <2>2, <2>3
  <2>11. QED
    BY <2>5, <2>6, <2>7, <2>8, <2>9, <2>10
<1>evict. ASSUME NEW m \in Mac, Evict(m) PROVE SlotInv'
  <2>1. UNCHANGED <<row, undo, cmd, tracked, client, file>> /\ notices' \subseteq notices
        /\ notices # {}
    BY <1>evict DEF Evict
  <2>2. \A c \in Slot : cmd[c].op \notin {"boot", "new", "undo", "resume"}
    BY <2>1
  <2>3. CASE Stored
    <3> DEFINE gone == [topic EXCEPT !.stored = FALSE]
    <3>1. /\ gone \in Topic /\ ~gone.stored /\ gone.home = topic.home /\ gone.mac = topic.mac
          /\ gone.sdk = topic.sdk
      BY <2>3
    <3>2. topic' = (IF NoCommand THEN None ELSE gone) /\ turn' = "no"
      BY <1>evict, <2>3 DEF Evict
    <3> HIDE DEF gone
    <3>3. gone # None
      BY <3>1
    <3>4. \/ topic' = None /\ NoCommand
          \/ /\ topic' # None /\ ~topic'.stored /\ topic'.home = topic.home
             /\ topic'.mac = topic.mac /\ topic'.sdk = topic.sdk /\ ~NoCommand
      BY <3>1, <3>2, <3>3
    <3>5. row.state # "active"
      BY <2>1
    <3>6. IdMeansConversation' /\ WhereItIs'
      BY <2>1, <3>4
    <3>7. CommandAt' /\ Apart' /\ TurnsWrite'
      BY <2>1, <2>2, <3>2, <3>4
    <3>8. Agree' /\ UndoOfClosed'
      BY <2>1, <2>2, <2>3, <3>4, <3>5
    <3>9. QED
      BY <3>6, <3>7, <3>8
  <2>4. CASE ~Stored
    <3>1. UNCHANGED <<topic, turn>>
      BY <1>evict, <2>4 DEF Evict
    <3>2. QED
      BY <2>1, <2>2, <3>1
  <2>5. QED
    BY <2>3, <2>4
<1>24. ASSUME NEW m \in Mac, Drop(m) PROVE SlotInv'
  BY <1>24 DEF Drop, TurnTold, RunsOn, Owns
<1>25. ASSUME NEW m \in Mac, Reconnect(m) PROVE SlotInv'
  <2>1. UNCHANGED <<undo, cmd, turn, file, notices>>
    BY <1>25 DEF Reconnect
  <2>2. link' = [link EXCEPT ![m] = "up"] /\ link[m] = "down"
    BY <1>25 DEF Reconnect
  <2>3. row'.state = row.state /\ row'.mac = row.mac
    BY <1>25 DEF Reconnect, Updated, Row
  <2>4. topic = None => topic' = None
    BY <1>25 DEF Reconnect, HandleBecomes, Owns
  <2>5. topic # None =>
          /\ topic' \in Topic /\ topic'.stored = topic.stored /\ topic'.home = topic.home
          /\ topic'.mac = topic.mac /\ topic'.sdk = topic.sdk
    BY <1>25 DEF Reconnect, HandleBecomes, Handle
  <2>6. /\ row'.sdk = TRUE => Conversation
        /\ \A x \in Mac : tracked'[x] = "id" \/ client'[x] = "resumed" => Conversation
    BY <1>25 DEF Reconnect, Updated, Row
  <2>7. IdMeansConversation'
    BY <2>1, <2>4, <2>5, <2>6
  <2>8. WhereItIs'
    BY <2>1, <2>2, <2>3, <2>4, <2>5
  <2>9. CommandAt' /\ Apart'
    BY <2>1, <2>2, <2>3, <2>4, <2>5
  <2>10. Agree' /\ TurnsWrite'
    BY <2>1, <2>2, <2>3, <2>4, <2>5
  <2>11. UndoOfClosed'
    BY <2>1, <2>2, <2>3, <2>4, <2>5
  <2>12. QED
    BY <2>7, <2>8, <2>9, <2>10, <2>11
<1>26. ASSUME NEW m \in Mac, MacsAdd(m) PROVE SlotInv'
  BY <1>26 DEF MacsAdd
<1>27. ASSUME NEW m \in Mac, MacsRemove(m) PROVE SlotInv'
  BY <1>27 DEF MacsRemove
<1>28. CASE Crash
  <2>1. PICK c \in Slot :
          cmd' = [d \in Slot |-> IF d = c THEN Command0("boot", "starting", Home, FALSE)
                                          ELSE Idle]
    BY <1>28 DEF Crash
  <2>2. /\ cmd'[c].op = "boot" /\ cmd'[c].at = "starting"
        /\ \A d \in Slot : ~cmd'[d].sdk /\ (d # c => cmd'[d].op = "none" /\ cmd'[d].at = "idle")
    BY <2>1 DEF Command0, Idle
  <2>3. /\ topic' = None /\ undo' = None /\ turn' = "no" /\ notices' = {}
        /\ UNCHANGED <<row, file>>
        /\ tracked' = Everywhere("none") /\ client' = Everywhere("none")
    BY <1>28 DEF Crash
  <2>4. Agree'
    BY <2>2, <2>3
  <2>5. IdMeansConversation' /\ WhereItIs' /\ CommandAt' /\ TurnsWrite' /\ UndoOfClosed' /\ Apart'
    BY <2>2, <2>3 DEF Everywhere
  <2>6. QED
    BY <2>4, <2>5
<1> HIDE NoneIsNot, HomeIsThere
         DEF SlotInv, Apart, IdMeansConversation, WhereItIs, CommandAt, Agree,
                 TurnsWrite, UndoOfClosed, Conversation, HasIt, LockHeld,
             RowInv, TopicHeld, OneCommand, BootAlone, StoredIsActive, Stored, TypeOK, NoCommand, Quiet,
             Topic,
             Command, Destructive, macs, noted
<1>29. QED
  BY <1>1, <1>2, <1>3, <1>4, <1>5, <1>6, <1>7, <1>8, <1>9, <1>pops, <1>10, <1>11, <1>12, <1>13,
     <1>14, <1>15,
     <1>16, <1>17, <1>18, <1>19, <1>20, <1>21, <1>22, <1>23, <1>evict, <1>24,
     <1>25, <1>26, <1>27, <1>28
     DEF Next, Step

-----------------------------------------------------------------------------
(* Theorems.                                                               *)

\* Every variable stays in its type; the commands, the row and the registry keep to
\* what the theorems below rest on.
THEOREM RowSafety == Spec => [](TypeOK /\ RowInv)
<1>1. Init => TypeOK /\ RowInv
  <2> SUFFICES ASSUME Init PROVE TypeOK /\ RowInv
    OBVIOUS
  <2>1. Home \in Mac
    BY HomeIsThere
  <2>2. Idle \in Command
    BY <2>1, Command0Types DEF Idle
  <2>3. TypeOK
    BY <2>1, <2>2 DEF Init, TypeOK, NoRow, Row, Everywhere
  <2>4. RowInv
    BY DEF Init, RowInv, TopicHeld, OneCommand, BootAlone, StoredIsActive, Stored, Idle, Command0
  <2>5. QED
    BY <2>3, <2>4
<1>2. TypeOK /\ RowInv /\ [Next]_vars => (TypeOK /\ RowInv)'
  BY StepTypes, RowInvStep DEF RowInv
<1>3. QED
  BY <1>1, <1>2, PTL DEF Spec

\* No command, notice or crash leaves a variable that the others do not know.
THEOREM LifecycleTypes == Spec => []TypeOK
BY RowSafety, PTL

\* A closed row is not made an orphan: not by a boot, and by the notice of a runner
\* only between mark_closed and the pop, which is when the registry still has the session.
THEOREM ClosedStaysClosedAlways == Spec => ClosedStaysClosed
<1>1. TypeOK /\ RowInv /\ [Next]_vars
        => [row.state = "closed" /\ (\A c \in Slot : cmd[c].at # "storing")
              => row'.state # "orphaned"]_vars
  <2> SUFFICES ASSUME TypeOK, RowInv, Next, row.state = "closed",
                      \A c \in Slot : cmd[c].at # "storing"
               PROVE  row'.state # "orphaned"
    OBVIOUS
  <2> USE DEF TypeOK, RowInv, Row, Updated
  <2>1. ~Stored /\ \A c \in Slot : cmd[c].op = "boot" => cmd[c].at = "starting"
    BY DEF StoredIsActive, BootAlone
  <2>2. ASSUME NEW c \in Slot, Failed(c), cmd[c].at # "starting" PROVE row'.state # "orphaned"
    BY <2>1, <2>2 DEF Failed
  <2>3. ASSUME NEW c \in Slot, NEW m \in Mac, New(c, m) \/ Fork(c, m) \/ Move(c, m)
        PROVE  row'.state # "orphaned"
    BY <2>3 DEF New, Fork, ExecuteNewSession, Move, NoRow
  <2>4. ASSUME NEW c \in Slot, Restart(c) \/ Close(c) \/ Undo(c) \/ Resume(c) \/ StorePops(c)
                               \/ MoveCopies(c) \/ MoveGivesUp(c)
        PROVE  row'.state # "orphaned"
    BY <2>4 DEF Restart, Close, Undo, Resume, StorePops, MoveCopies, MoveGivesUp
  <2>5. ASSUME NEW c \in Slot, NEW how \in {"already", "raised", "answered", "late"},
               CloseEnds(c, how)
        PROVE  row'.state # "orphaned"
    <3>1. row' = row \/ row' = Updated([row EXCEPT !.state = "closed"])
      BY <2>5 DEF CloseEnds, StoreClose
    <3>2. QED
      BY <3>1
  <2>6. ASSUME NEW c \in Slot, MovePersists(c) PROVE row'.state # "orphaned"
    BY <2>6 DEF MovePersists
  <2>7. ASSUME NEW c \in Slot, OpenRefused(c) \/ OpenRejected(c) \/ OpenTimesOut(c)
        PROVE  row'.state # "orphaned"
    BY <2>2, <2>7 DEF OpenRefused, OpenRejected, OpenTimesOut
  <2>8. ASSUME NEW c \in Slot, Opened(c) PROVE row'.state # "orphaned"
    BY <2>8 DEF Opened, Add, RestartSwaps, MoveSwaps, Restored, SdkIdWritten
  <2>9. ASSUME NEW c \in Slot, Restore(c) PROVE row'.state # "orphaned"
    BY <2>9 DEF Restore
  <2>10. CASE UndoExpires \/ PruneOldClosed \/ TurnBegins \/ IdAssigned \/ TurnEnds
    BY <2>10 DEF UndoExpires, PruneOldClosed, NoRow, TurnBegins, IdAssigned, TurnEnds
  <2>11. ASSUME NEW m \in Mac, \/ Reaped(m) \/ Evict(m) \/ Drop(m) \/ Reconnect(m)
                               \/ MacsAdd(m) \/ MacsRemove(m)
         PROVE  row'.state # "orphaned"
    BY <2>1, <2>11 DEF Reaped, Evict, Drop, Reconnect, MacsAdd, MacsRemove
  <2>12. CASE Crash
    BY <2>12 DEF Crash
  <2>13. QED
    BY <2>3, <2>4, <2>5, <2>6, <2>7, <2>8, <2>9, <2>10, <2>11, <2>12 DEF Next, Step
<1>2. QED
  BY <1>1, RowSafety, PTL DEF Spec, ClosedStaysClosed

\* Nothing that went astray comes back: the history only grows.
LEMMA AstrayStays ==
  ASSUME [Next]_vars, ~astray'
  PROVE  ~astray
<1> USE DEF noted
<1>1. ASSUME NEW c \in Slot, Step(c) PROVE ~astray
  <2>1. ASSUME NEW m \in Mac, New(c, m) \/ Fork(c, m) \/ Move(c, m) PROVE ~astray
    BY <2>1 DEF New, Fork, ExecuteNewSession, Move
  <2>2. CASE Restart(c) \/ Close(c) \/ Undo(c) \/ Resume(c) \/ StorePops(c)
    BY <2>2 DEF Restart, Close, Undo, Resume, StorePops
  <2>3. ASSUME NEW how \in {"already", "raised", "answered", "late"}, CloseEnds(c, how)
        PROVE  ~astray
    BY <2>3 DEF CloseEnds
  <2>4. CASE MoveCopies(c) \/ MoveGivesUp(c) \/ MovePersists(c)
    BY <2>4 DEF MoveCopies, MoveGivesUp, MovePersists
  <2>5. CASE OpenRefused(c) \/ OpenRejected(c) \/ OpenTimesOut(c)
    BY <2>5 DEF OpenRefused, OpenRejected, OpenTimesOut, Failed
  <2>6. CASE Opened(c)
    BY <2>6 DEF Opened
  <2>7. CASE Restore(c)
    BY <2>7 DEF Restore
  <2>8. QED
    BY <1>1, <2>1, <2>2, <2>3, <2>4, <2>5, <2>6, <2>7 DEF Step
<1>2. CASE UndoExpires \/ PruneOldClosed \/ TurnBegins \/ IdAssigned \/ TurnEnds \/ Crash
  BY <1>2 DEF UndoExpires, PruneOldClosed, TurnBegins, IdAssigned, TurnEnds, Crash
<1>3. ASSUME NEW m \in Mac, \/ Reaped(m) \/ Evict(m) \/ Drop(m) \/ Reconnect(m)
                            \/ MacsAdd(m) \/ MacsRemove(m)
      PROVE  ~astray
  BY <1>3 DEF Reaped, Evict, Drop, Reconnect, MacsAdd, MacsRemove
<1>4. CASE UNCHANGED vars
  BY <1>4 DEF vars
<1>5. QED
  BY <1>1, <1>2, <1>3, <1>4 DEF Next

\* Until the session goes astray, wherever the row, the session, /undo or the command
\* under way point, the conversation is there with all turns.
THEOREM SlotSafety == Spec => [](TypeOK /\ RowInv /\ (~astray => SlotInv))
<1>1. Init => SlotInv
  BY HomeIsThere DEF Init, SlotInv, Apart, IdMeansConversation, WhereItIs, CommandAt, Agree,
     TurnsWrite, UndoOfClosed, Conversation, HasIt, Everywhere, NoRow, Idle, Command0, Stored
<1>2. TypeOK /\ RowInv /\ (~astray => SlotInv) /\ [Next]_vars => (~astray => SlotInv)'
  BY SlotInvStep, AstrayStays
<1>3. QED
  BY <1>1, <1>2, RowSafety, PTL DEF Spec

\* The transcript is at the Mac where the session would be opened next: a move or a
\* bridge that breaks off leaves the row and /undo at a Mac that has all turns.
THEOREM ReopensFindLatestAlways == Spec => []ReopensFindLatest
<1>1. (~astray => SlotInv) => ReopensFindLatest
  BY DEF SlotInv, IdMeansConversation, WhereItIs, HasIt, ReopensFindLatest
<1>2. QED
  BY <1>1, SlotSafety, PTL

\* A message in the topic reaches a client that knows all turns before it.
THEOREM TalksToLatestAlways == Spec => []TalksToLatest
<1>1. TypeOK /\ (~astray => SlotInv) => TalksToLatest
  BY DEF TypeOK, Topic, SlotInv, IdMeansConversation, WhereItIs, HasIt, TalksToLatest, Stored
<1>2. QED
  BY <1>1, SlotSafety, PTL

\* Between commands the registry has a session exactly if its row is active, and the
\* two agree on its Mac.
THEOREM StoreMatchesTableAlways == Spec => []StoreMatchesTable
<1>1. RowInv /\ (~astray => SlotInv) => StoreMatchesTable
  BY DEF RowInv, OneCommand, StoredIsActive, SlotInv, Agree, StoreMatchesTable, Quiet, NoCommand,
     Stored
<1>2. QED
  BY <1>1, SlotSafety, PTL

=============================================================================
