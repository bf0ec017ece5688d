------------------------- MODULE TurnAnswers_proofs -------------------------
(***************************************************************************)
(* The answer to a message is whole, for every set of messages and all     *)
(* bounds: proof of Turns' AnswerIsWhole.  What is on its way to a turn,   *)
(* read in order from the texts its renderer has, leaves at its end what   *)
(* the runner said; the run of that reading is part of the invariant.      *)
(***************************************************************************)
EXTENDS Turns_proofs

-----------------------------------------------------------------------------
(* What a step does to a channel, envelope by envelope.                    *)

\* One more request on its way.
LEMMA RequestAdded ==
  ASSUME up \in Seq(Request), NEW r \in Request, up' = Append(up, r)
  PROVE  /\ Len(up) \in Nat /\ DOMAIN up = 1 .. Len(up) /\ DOMAIN up' = 1 .. Len(up) + 1
         /\ \A i \in DOMAIN up : i \in DOMAIN up' /\ up'[i] = up[i]
         /\ up'[Len(up) + 1] = r
OBVIOUS

\* The first request dispatched.
LEMMA RequestTaken ==
  ASSUME up \in Seq(Request), up # <<>>, up' = Tail(up)
  PROVE  /\ Len(up) \in Nat \ {0} /\ DOMAIN up = 1 .. Len(up)
         /\ DOMAIN up' = 1 .. Len(up) - 1
         /\ \A i \in DOMAIN up' : i + 1 \in DOMAIN up /\ up'[i] = up[i + 1]
         /\ \A i \in DOMAIN up : i # 1 => i - 1 \in DOMAIN up' /\ up'[i - 1] = up[i]
         /\ 1 \in DOMAIN up /\ Head(up) = up[1] /\ Head(up) \in Request
OBVIOUS

\* One more event on its way ...
LEMMA EventAdded ==
  ASSUME down \in Seq(Event), NEW e \in Event, down' = Append(down, e)
  PROVE  /\ Len(down) \in Nat /\ DOMAIN down = 1 .. Len(down)
         /\ DOMAIN down' = 1 .. Len(down) + 1
         /\ \A i \in DOMAIN down : i \in DOMAIN down' /\ down'[i] = down[i]
         /\ down'[Len(down) + 1] = e
OBVIOUS

\* ... or two.
LEMMA EventsAdded ==
  ASSUME down \in Seq(Event), NEW e \in Event, NEW f \in Event,
         down' = Append(Append(down, e), f)
  PROVE  /\ Len(down) \in Nat /\ DOMAIN down = 1 .. Len(down)
         /\ DOMAIN down' = 1 .. Len(down) + 2
         /\ \A i \in DOMAIN down : i \in DOMAIN down' /\ down'[i] = down[i]
         /\ down'[Len(down) + 1] = e /\ down'[Len(down) + 2] = f
OBVIOUS

\* The first event delivered.
LEMMA EventTaken ==
  ASSUME down \in Seq(Event), down # <<>>, down' = Tail(down)
  PROVE  /\ Len(down) \in Nat \ {0} /\ DOMAIN down = 1 .. Len(down)
         /\ DOMAIN down' = 1 .. Len(down) - 1
         /\ \A i \in DOMAIN down' : i + 1 \in DOMAIN down /\ down'[i] = down[i + 1]
         /\ 1 \in DOMAIN down /\ Head(down) = down[1] /\ Head(down) \in Event
OBVIOUS

\* One more event for the turn.
LEMMA ItemAdded ==
  ASSUME TypeOK, NEW e \in Event, queue.on, Tells(e)
  PROVE  /\ queue'.on /\ queue'.items = Append(queue.items, e)
         /\ Len(queue.items) \in Nat /\ DOMAIN queue.items = 1 .. Len(queue.items)
         /\ DOMAIN queue'.items = 1 .. Len(queue.items) + 1
         /\ \A i \in DOMAIN queue.items :
              i \in DOMAIN queue'.items /\ queue'.items[i] = queue.items[i]
         /\ queue'.items[Len(queue.items) + 1] = e
<1>1. queue'.on /\ queue'.items = Append(queue.items, e)
  BY DEF TypeOK, Tells
<1>2. queue.items \in Seq(Event)
  BY DEF TypeOK
<1> QED
  BY <1>1, <1>2

\* The turn takes one.
LEMMA ItemTaken ==
  ASSUME TypeOK, queue.items # <<>>, Rest
  PROVE  /\ queue'.on = queue.on /\ queue'.items = Tail(queue.items)
         /\ Len(queue.items) \in Nat \ {0} /\ DOMAIN queue.items = 1 .. Len(queue.items)
         /\ DOMAIN queue'.items = 1 .. Len(queue.items) - 1
         /\ \A i \in DOMAIN queue'.items :
              i + 1 \in DOMAIN queue.items /\ queue'.items[i] = queue.items[i + 1]
         /\ 1 \in DOMAIN queue.items /\ First = queue.items[1] /\ First \in Event
<1>1. queue'.on = queue.on /\ queue'.items = Tail(queue.items)
  BY DEF TypeOK, Rest
<1>2. queue.items \in Seq(Event)
  BY DEF TypeOK
<1> QED
  BY <1>1, <1>2 DEF First

\* Two that are reported at once come one after the other.
LEMMA TwoReported ==
  ASSUME TypeOK, NEW e \in Event, NEW f \in Event, Reports(<<e, f>>)
  PROVE  down' = Append(Append(down, e), f)
BY DEF TypeOK, Reports

\* What the runner reports.
LEMMA Reported ==
  ASSUME TypeOK, NEW k \in EventKind, NEW m \in Msg \cup {None}
  PROVE  /\ Envelope(k, m) \in Event
         /\ Reports(<<Envelope(k, m)>>) => down' = Append(down, Envelope(k, m))
<1>1. Envelope(k, m) \in Event
  BY Enveloped
<1>2. \A e \in Event : down \o <<e>> = Append(down, e)
  BY DEF TypeOK
<1> QED
  BY <1>1, <1>2 DEF Reports

\* The runner sees a message: an error, a turn, or an error and the end of one.
LEMMA SendEffect ==
  ASSUME TypeOK, HandleSend
  PROVE  \E m \in Msg \cup {None} :
           /\ up # <<>> /\ up' = Tail(up) /\ Head(up) = Envelope("send", m) /\ Connected
           /\ UNCHANGED <<turnVars, stateVars, link, present, showVars, pastVars>>
           /\ \/ /\ down' = Append(down, Envelope("error", m))
                 /\ UNCHANGED <<drive, stage, said>>
              \/ /\ present # "no" /\ stage = "idle" /\ stage' = "streaming"
                 /\ drive' = m /\ said' = 0 /\ UNCHANGED down
              \/ /\ present # "no" /\ stage = "idle" /\ stage' = "idle"
                 /\ drive' = m /\ said' = 0
                 /\ down' = Append(Append(down, Envelope("error", m)), Envelope("end", m))
<1>1. Head(up) \in Request /\ Head(up).type = "send" /\ up # <<>> /\ up' = Tail(up)
  BY TakenOut DEF HandleSend, Handles, TypeOK
<1> DEFINE m == Head(up).of
<1>2. m \in Msg \cup {None} /\ Head(up) = Envelope("send", m)
  BY <1>1 DEF Request, Envelope
<1>3. Reports(<<Envelope("error", m)>>) => down' = Append(down, Envelope("error", m))
  BY <1>2, Reported DEF EventKind
<1>4. Reports(<<Envelope("error", m), Envelope("end", m)>>) =>
        down' = Append(Append(down, Envelope("error", m)), Envelope("end", m))
  BY <1>2, Reported, TwoReported DEF EventKind
<1> HIDE DEF m
<1>5. \/ Reports(<<Envelope("error", m)>>) /\ UNCHANGED <<drive, stage, said>>
      \/ present # "no" /\ stage = "idle" /\ StartTurn(m)
      \/ present # "no" /\ stage = "idle" /\ FailAtOnce(m)
  BY DEF HandleSend, m
<1> QED
  BY <1>1, <1>2, <1>3, <1>4, <1>5 DEF HandleSend, Handles, StartTurn, FailAtOnce

\* A session that stops: its turn sends its end first.
LEMMA StopEffect ==
  ASSUME TypeOK, Stops
  PROVE  /\ present' = "no" /\ stage' = "idle"
         /\ \/ ~Driving /\ down' = Append(down, Envelope("closed", None))
            \/ /\ Driving
               /\ down' = Append(Append(down, Envelope("end", drive)),
                              Envelope("closed", None))
<1> DEFINE cancelled == IF Driving THEN <<Envelope("end", drive)>> ELSE <<>>
<1>1. \A s, t, u \in Seq(Event) : s \o (t \o u) = (s \o t) \o u
  OBVIOUS
<1>2. \A s \in Seq(Event), e \in Event : s \o <<e>> = Append(s, e) /\ Append(s, e) \in Seq(Event)
  OBVIOUS
<1>3. Envelope("end", drive) \in Event /\ Envelope("closed", None) \in Event
  BY Enveloped DEF EventKind, TypeOK
<1>4. \A e \in Event : <<e>> \in Seq(Event) /\ down \o <<>> = down
  BY DEF TypeOK
<1>5. down \in Seq(Event) /\ <<>> \in Seq(Event)
  BY DEF TypeOK
<1>6. down' = down \o (cancelled \o <<Envelope("closed", None)>>)
  BY DEF Stops, Reports
<1> HIDE DEF Envelope
<1>7. down' = IF Driving THEN Append(Append(down, Envelope("end", drive)),
                                     Envelope("closed", None))
                         ELSE Append(down, Envelope("closed", None))
  BY <1>1, <1>2, <1>3, <1>4, <1>5, <1>6
<1> QED
  BY <1>7 DEF Stops

\* The runner closes the session ...
LEMMA CloseEffect ==
  ASSUME TypeOK, HandleClose
  PROVE  /\ up # <<>> /\ up' = Tail(up) /\ Head(up).type = "close" /\ Connected
         /\ UNCHANGED <<turnVars, stateVars, link, drive, said, showVars, pastVars>>
         /\ \/ present = "no" /\ UNCHANGED <<present, stage, down>>
            \/ /\ present # "no" /\ present' = "no" /\ stage' = "idle"
               /\ \/ ~Driving /\ down' = Append(down, Envelope("closed", None))
                  \/ /\ Driving
                     /\ down' = Append(Append(down, Envelope("end", drive)),
                                    Envelope("closed", None))
  BY StopEffect DEF HandleClose, Handles

\* ... or reaps it.
LEMMA ReapEffect ==
  ASSUME TypeOK, Reap
  PROVE  /\ Connected /\ present = "open"
         /\ UNCHANGED <<turnVars, stateVars, link, up, drive, said, showVars, pastVars>>
         /\ present' = "no" /\ stage' = "idle"
         /\ \/ ~Driving /\ down' = Append(down, Envelope("closed", None))
            \/ /\ Driving
               /\ down' = Append(Append(down, Envelope("end", drive)),
                              Envelope("closed", None))
  BY StopEffect DEF Reap

\* The runner ends a turn, in error or not.
LEMMA EndEffect ==
  ASSUME TypeOK, EndTurn
  PROVE  /\ Connected /\ Driving /\ stage' = "ended"
         /\ UNCHANGED <<turnVars, stateVars, link, up, present, drive, said, showVars, pastVars>>
         /\ \/ down' = Append(down, Envelope("end", drive))
            \/ down' = Append(Append(down, Envelope("error", drive)), Envelope("end", drive))
<1>1. drive \in Msg \cup {None}
  BY DEF TypeOK
<1>2. Reports(<<Envelope("end", drive)>>) => down' = Append(down, Envelope("end", drive))
  BY <1>1, Reported DEF EventKind
<1>3. Reports(<<Envelope("error", drive), Envelope("end", drive)>>) =>
        down' = Append(Append(down, Envelope("error", drive)), Envelope("end", drive))
  BY <1>1, Reported, TwoReported DEF EventKind
<1> QED
  BY <1>2, <1>3 DEF EndTurn

-----------------------------------------------------------------------------
(* The invariant.                                                          *)

NoOpen   == \A i \in DOMAIN up : up[i].type # "open"
OneOpen  == \A i, j \in DOMAIN up : up[i].type = "open" /\ up[j].type = "open" => i = j
NoClosed == \A i \in DOMAIN down : down[i].type # "closed"
NoneTold == \A i \in DOMAIN queue.items : queue.items[i].type # "closed"

\* The runner's session is not there, no turn of it runs, and nothing will open it.
Dead == present = "no" /\ ~Driving /\ NoOpen

\* A link that is down is empty; there is no session until it is up and the re-open is
\* handled, once; and after a CLOSED there is none any more.
WireInv ==
  /\ link = "down" => up = <<>> /\ down = <<>>
  /\ link # "up" => Dead /\ NoClosed
  /\ OneOpen /\ (present # "no" => NoOpen)
  /\ ~NoClosed => Dead
  /\ closed => ~tracked /\ Dead
  /\ ~NoneTold => closed

\* The runner never says "dropped"; and while there is no session of it, until the re-open
\* is handled, it reports nothing but errors.
DownInv ==
  /\ \A i \in DOMAIN down : down[i].type # "dropped"
  /\ link # "up" => \A i \in DOMAIN down : down[i].type = "error"

Sent(i, m) == i \in DOMAIN up /\ up[i].type = "send" /\ up[i].of = m

\* A message is sent once, and the turn of one that was sent has not begun.
SentOnce ==
  /\ \A i \in DOMAIN up : up[i].type = "send" => up[i].of \in Msg
  /\ \A m \in Msg : task[m] \in {"new", "waiting"} => drive # m
  /\ \A m \in Msg, i \in DOMAIN up : Sent(i, m) =>
       /\ task[m] \notin {"new", "waiting"} /\ drive # m
       /\ \A j \in DOMAIN up : Sent(j, m) => i = j

NotSent(m) == \A i \in DOMAIN up : ~Sent(i, m)

\* The turn that runs is of a message that waits for it, and so is one yet to begin.
TurnIsAwaited ==
  /\ Driving => drive \in Msg /\ task[drive] = "streaming"
  /\ \A m \in Msg : NotSent(m) \/ task[m] = "streaming" \/ closed

Spoken(e) == e.type \in {"text", "result", "end"}

NoneSpoken == \A i \in DOMAIN down : ~Spoken(down[i])

\* While nobody waits, nothing of a turn is on the wire.
NothingOfTurns == tracked /\ (\A m \in Msg : task[m] # "streaming") => NoneSpoken

Over  == \E i \in DOMAIN queue.items : queue.items[i].type \in {"end", "dropped"}
Ended == \E i \in DOMAIN queue.items : queue.items[i].type = "end"

\* An end on the wire is that of the turn of m, which is over, and the last of it.
LastEnd(m) ==
  \A i \in DOMAIN down : down[i].type = "end" =>
    /\ drive = m /\ ~Driving
    /\ \A j \in DOMAIN down : j > i => ~Spoken(down[j])

\* What ends the turn that m waits for comes after all there is of it.
EndIsLast(m) ==
  /\ Over => ~Driving /\ NotSent(m) /\ (tracked => NoneSpoken)
  /\ Ended => drive = m
  /\ tracked => LastEnd(m)

OfBuffer(m) == \A i \in DOMAIN buffer : buffer[i] = m
OfItems(m)  ==
  \A i \in DOMAIN queue.items : queue.items[i].type = "text" => queue.items[i].of = m
OfDown(m)   == \A i \in DOMAIN down : down[i].type = "text" => down[i].of = m

\* All the text there is, is of its turn.
OwnText(m) == OfBuffer(m) /\ OfItems(m) /\ (tracked => OfDown(m))

\* How many texts there are after an event, when there were n before it.
After(n, e) == CASE e.type = "text" -> n + 1
                 [] e.type = "result" -> 0
                 [] OTHER -> n

\* Read from a texts on, the events of q leave b, and at an end that comes before a drop
\* there are s.
Reads(q, a, b, s) ==
  \E n \in [0 .. Len(q) -> Nat] :
    /\ n[0] = a /\ n[Len(q)] = b
    /\ \A i \in DOMAIN q :
         /\ n[i] = After(n[i - 1], q[i])
         /\ q[i].type \in {"end", "closed"} /\ (\A j \in DOMAIN q : j < i => q[j].type # "dropped")
              => n[i] = s

Said(m) == IF drive = m THEN said ELSE 0

Undropped == \A i \in DOMAIN queue.items : queue.items[i].type # "dropped"

\* Read to its end, what is in the queue and on the wire leaves what the turn said.
ReadsWhole(m) ==
  \E c \in Nat :
    /\ Reads(queue.items, Len(buffer), c, Said(m))
    /\ tracked /\ Undropped =>
         /\ Reads(down, c, Said(m), Said(m))
         /\ link # "up" => c = Said(m)

\* A message that waits for events will have the whole of its turn; one that is done has.
AnswerInv ==
  clean =>
    /\ TurnIsAwaited /\ NothingOfTurns
    /\ \A m \in Msg : task[m] = "streaming" =>
         EndIsLast(m) /\ OwnText(m) /\ ReadsWhole(m)
    /\ AnswerIsWhole

-----------------------------------------------------------------------------
(* Opens and closes on their way.                                          *)

\* A request more.
LEMMA OpenAdded ==
  ASSUME up \in Seq(Request), NEW r \in Request, up' = Append(up, r)
  PROVE  /\ r.type # "open" => NoOpen' = NoOpen /\ (OneOpen => OneOpen')
         /\ r.type = "open" /\ NoOpen => OneOpen'
<1> DEFINE n == Len(up)
<1>1. /\ n \in Nat /\ DOMAIN up = 1 .. n /\ DOMAIN up' = 1 .. n + 1
      /\ \A i \in DOMAIN up : i \in DOMAIN up' /\ up'[i] = up[i]
      /\ up'[n + 1] = r
  BY RequestAdded
<1> HIDE DEF n
<1>2. r.type # "open" => (NoOpen => NoOpen') /\ (NoOpen' => NoOpen) /\ (OneOpen => OneOpen')
  BY <1>1 DEF NoOpen, OneOpen
<1>3. r.type = "open" /\ NoOpen => OneOpen'
  BY <1>1 DEF NoOpen, OneOpen
<1> QED
  BY <1>2, <1>3 DEF NoOpen

\* The first request dispatched.
LEMMA OpenTaken ==
  ASSUME up \in Seq(Request), up # <<>>, up' = Tail(up)
  PROVE  /\ NoOpen => NoOpen'
         /\ OneOpen => OneOpen'
         /\ OneOpen /\ Head(up).type = "open" => NoOpen'
<1> DEFINE n == Len(up)
<1>1. /\ n \in Nat \ {0} /\ DOMAIN up = 1 .. n /\ DOMAIN up' = 1 .. n - 1
      /\ \A i \in DOMAIN up' : i + 1 \in DOMAIN up /\ up'[i] = up[i + 1]
      /\ Head(up) = up[1]
  BY RequestTaken
<1> HIDE DEF n
<1>2. NoOpen => NoOpen'
  BY <1>1 DEF NoOpen
<1>3. ASSUME OneOpen, NEW i \in DOMAIN up', NEW j \in DOMAIN up',
             up'[i].type = "open", up'[j].type = "open"
      PROVE  i = j
  <2>1. i + 1 = j + 1
    BY <1>1, <1>3 DEF OneOpen
  <2> QED
    BY <1>1, <2>1
<1>4. ASSUME OneOpen, Head(up).type = "open", NEW i \in DOMAIN up', up'[i].type = "open"
      PROVE  FALSE
  <2>1. i + 1 = 1
    BY <1>1, <1>4 DEF OneOpen
  <2> QED
    BY <1>1, <2>1
<1> QED
  BY <1>2, <1>3, <1>4 DEF NoOpen, OneOpen

\* An event more.
LEMMA ClosedAdded ==
  ASSUME down \in Seq(Event), NEW e \in Event, down' = Append(down, e), e.type # "closed"
  PROVE  NoClosed' = NoClosed
<1>1. (NoClosed => NoClosed') /\ (NoClosed' => NoClosed)
  BY EventAdded DEF NoClosed
<1> QED
  BY <1>1 DEF NoClosed

\* Two events more.
LEMMA ClosedAddedTwo ==
  ASSUME down \in Seq(Event), NEW e \in Event, NEW f \in Event,
         down' = Append(Append(down, e), f), e.type # "closed", f.type # "closed"
  PROVE  NoClosed' = NoClosed
<1>1. (NoClosed => NoClosed') /\ (NoClosed' => NoClosed)
  BY EventsAdded DEF NoClosed
<1> QED
  BY <1>1 DEF NoClosed

\* The first event delivered.
LEMMA ClosedTaken ==
  ASSUME down \in Seq(Event), down # <<>>, down' = Tail(down)
  PROVE  (NoClosed => NoClosed') /\ (Head(down).type = "closed" => ~NoClosed)
BY EventTaken DEF NoClosed

\* An event for the turn, if it is there to be told.
LEMMA ClosedTold ==
  ASSUME TypeOK, NEW e \in Event, Tells(e)
  PROVE  /\ NoneTold' => NoneTold
         /\ e.type # "closed" => (NoneTold => NoneTold')
<1>1. CASE queue.on
  BY <1>1, ItemAdded DEF NoneTold
<1>2. CASE ~queue.on
  BY <1>2 DEF NoneTold, Tells
<1> QED
  BY <1>1, <1>2

\* An event that the turn takes.
LEMMA ClosedRead ==
  ASSUME TypeOK, queue.items # <<>>, Rest
  PROVE  NoneTold => NoneTold'
BY ItemTaken DEF NoneTold

-----------------------------------------------------------------------------
(* The wire.                                                               *)

\* Steps keep the order of re-opens, sessions and closes.
LEMMA WireKept ==
  ASSUME TypeOK, WireInv, [Next]_vars
  PROVE  WireInv'
<1> USE DEF TypeOK, WireInv, Dead, Connected, Driving, turnVars, stateVars, wireVars, runnerVars,
        beatVars, showVars, pastVars
<1>1. CASE UNCHANGED vars
  BY <1>1 DEF vars, NoOpen, OneOpen, NoClosed, NoneTold
<1>2. CASE HandleSend
  <2>1. PICK m \in Msg \cup {None} :
          /\ up # <<>> /\ up' = Tail(up) /\ Head(up) = Envelope("send", m) /\ Connected
          /\ UNCHANGED <<turnVars, stateVars, link, present, showVars, pastVars>>
          /\ \/ down' = Append(down, Envelope("error", m)) /\ UNCHANGED stage
             \/ present # "no" /\ UNCHANGED down
             \/ /\ present # "no"
                /\ down' = Append(Append(down, Envelope("error", m)), Envelope("end", m))
    BY <1>2, SendEffect
  <2>2. (NoOpen => NoOpen') /\ (OneOpen => OneOpen')
    BY <2>1, OpenTaken
  <2>3. \A k \in {"error", "end"} : Envelope(k, m) \in Event /\ Envelope(k, m).type = k
    BY Enveloped DEF EventKind, Envelope
  <2>4. NoClosed' = NoClosed
    <3>1. CASE down' = Append(down, Envelope("error", m))
      BY <2>3, <3>1, ClosedAdded
    <3>2. CASE down' = Append(Append(down, Envelope("error", m)), Envelope("end", m))
      BY <2>3, <3>2, ClosedAddedTwo
    <3>3. CASE UNCHANGED down
      BY <3>3 DEF NoClosed
    <3> QED
      BY <2>1, <3>1, <3>2, <3>3
  <2>5. NoneTold' = NoneTold
    BY <2>1 DEF NoneTold
  <2> QED
    BY <2>1, <2>2, <2>4, <2>5
<1>3. CASE HandleOpen
  <2>1. up # <<>> /\ up' = Tail(up) /\ Head(up).type = "open" /\ ~NoOpen
    BY <1>3, RequestTaken DEF HandleOpen, Handles, NoOpen
  <2>2. OneOpen' /\ NoOpen'
    BY <2>1, OpenTaken
  <2>3. present = "no" /\ present' = "starting" /\ link = "up"
        /\ UNCHANGED <<link, down, queue, closed, tracked, stage>>
    BY <1>3, <2>1 DEF HandleOpen
  <2>4. NoClosed' = NoClosed /\ NoneTold' = NoneTold
    BY <2>3 DEF NoClosed, NoneTold
  <2> QED
    BY <2>1, <2>2, <2>3, <2>4
<1>4. CASE StartReturns
  <2>1. /\ present = "starting" /\ present' \in {"open", "no"}
        /\ UNCHANGED <<link, up, queue, closed, tracked, stage>>
        /\ \/ Reports(<<Envelope("opened", None)>>) \/ Reports(<<Envelope("error", None)>>)
    BY <1>4 DEF StartReturns
  <2>2. PICK e \in Event : down' = Append(down, e) /\ e.type # "closed"
    BY <2>1, Reported DEF EventKind, Envelope
  <2>3. NoClosed' = NoClosed
    BY <2>2, ClosedAdded
  <2>4. NoOpen' = NoOpen /\ OneOpen' = OneOpen /\ NoneTold' = NoneTold
    BY <2>1 DEF NoOpen, OneOpen, NoneTold
  <2>5. link = "up"
    BY <2>1
  <2> QED
    BY <2>1, <2>3, <2>4, <2>5
<1>5. CASE HandleClose
  <2>1. /\ up # <<>> /\ up' = Tail(up) /\ UNCHANGED <<link, queue, closed, tracked>>
        /\ \/ present = "no" /\ UNCHANGED <<present, stage, down>>
           \/ present # "no" /\ present' = "no" /\ stage' = "idle"
    BY <1>5, CloseEffect
  <2>2. (NoOpen => NoOpen') /\ (OneOpen => OneOpen')
    BY <2>1, OpenTaken
  <2>3. NoneTold' = NoneTold
    BY <2>1 DEF NoneTold
  <2>4. CASE present = "no" /\ UNCHANGED <<present, stage, down>>
    <3>1. NoClosed' = NoClosed
      BY <2>4 DEF NoClosed
    <3> QED
      BY <2>1, <2>2, <2>3, <2>4, <3>1
  <2>5. CASE present # "no" /\ present' = "no" /\ stage' = "idle"
    <3>1. link = "up" /\ Dead'
      BY <2>1, <2>2, <2>5
    <3> QED
      BY <2>1, <2>2, <2>3, <2>5, <3>1
  <2> QED
    BY <2>1, <2>4, <2>5
<1>6. CASE Reap
  <2>1. /\ present = "open" /\ present' = "no" /\ stage' = "idle"
        /\ UNCHANGED <<link, up, queue, closed, tracked>>
    BY <1>6, ReapEffect
  <2>2. NoOpen' = NoOpen /\ OneOpen' = OneOpen /\ NoneTold' = NoneTold
    BY <2>1 DEF NoOpen, OneOpen, NoneTold
  <2>3. link = "up" /\ Dead'
    BY <2>1, <2>2
  <2> QED
    BY <2>1, <2>2, <2>3
<1>7. CASE Refuse
  <2>1. Connected /\ UNCHANGED <<link, up, queue, closed, tracked, present>> /\ (stage' = stage)
    BY <1>7 DEF Refuse
  <2>2. PICK e \in Event : down' = Append(down, e) /\ e.type # "closed"
    BY <1>7, Reported DEF Refuse, EventKind, Envelope
  <2>3. NoClosed' = NoClosed
    BY <2>2, ClosedAdded
  <2>4. NoOpen' = NoOpen /\ OneOpen' = OneOpen /\ NoneTold' = NoneTold
    BY <2>1 DEF NoOpen, OneOpen, NoneTold
  <2> QED
    BY <2>1, <2>3, <2>4
<1>8. ASSUME NEW k \in {"text", "result"}, Emit(k) PROVE WireInv'
  <2>1. /\ Connected /\ UNCHANGED <<link, up, queue, closed, tracked, present>>
        /\ Driving /\ stage' = stage
    BY <1>8 DEF Emit
  <2>2. PICK e \in Event : down' = Append(down, e) /\ e.type # "closed"
    BY <1>8, Reported DEF Emit, EventKind, Envelope
  <2>3. NoClosed' = NoClosed
    BY <2>2, ClosedAdded
  <2>4. NoOpen' = NoOpen /\ OneOpen' = OneOpen /\ NoneTold' = NoneTold
    BY <2>1 DEF NoOpen, OneOpen, NoneTold
  <2> QED
    BY <2>1, <2>3, <2>4
<1>9. CASE EndTurn
  <2>1. Connected /\ Driving /\ ~Driving' /\ UNCHANGED <<link, up, queue, closed, tracked, present>>
    BY <1>9, EndEffect
  <2>2. \A k \in {"error", "end"} : Envelope(k, drive) \in Event /\ Envelope(k, drive).type = k
    BY Enveloped DEF EventKind, Envelope
  <2>3. NoClosed' = NoClosed
    <3>1. CASE down' = Append(down, Envelope("end", drive))
      BY <2>2, <3>1, ClosedAdded
    <3>2. CASE down' = Append(Append(down, Envelope("error", drive)), Envelope("end", drive))
      BY <2>2, <3>2, ClosedAddedTwo
    <3> QED
      BY <1>9, <3>1, <3>2, EndEffect
  <2>4. NoOpen' = NoOpen /\ OneOpen' = OneOpen /\ NoneTold' = NoneTold
    BY <2>1 DEF NoOpen, OneOpen, NoneTold
  <2> QED
    BY <2>1, <2>3, <2>4
<1>10. CASE TaskDone
  BY <1>10 DEF TaskDone, NoOpen, OneOpen, NoClosed, NoneTold
<1>11. CASE Deliver
  <2>1. /\ down # <<>> /\ down' = Tail(down) /\ link # "down"
        /\ UNCHANGED <<link, up, present, stage>>
    BY <1>11 DEF Deliver
  <2>2. Head(down) \in Event
    BY <2>1, EventTaken
  <2>3. (NoClosed => NoClosed') /\ (Head(down).type = "closed" => ~NoClosed)
    BY <2>1, ClosedTaken
  <2>4. NoOpen' = NoOpen /\ OneOpen' = OneOpen
    BY <2>1 DEF NoOpen, OneOpen
  <2>5. CASE UNCHANGED <<queue, tracked, closed>>
    <3>1. NoneTold' = NoneTold
      BY <2>5 DEF NoneTold
    <3> QED
      BY <2>1, <2>3, <2>4, <2>5, <3>1
  <2>6. CASE tracked /\ Head(down).type = "closed" /\ closed' = TRUE /\ tracked' = FALSE
    BY <2>1, <2>3, <2>4, <2>6
  <2>7. CASE Head(down).type # "closed" /\ Tells(Head(down)) /\ UNCHANGED <<tracked, closed>>
    <3>1. NoneTold => NoneTold'
      BY <2>2, <2>7, ClosedTold
    <3> QED
      BY <2>1, <2>3, <2>4, <2>7, <3>1
  <2>8. \/ UNCHANGED <<queue, tracked, closed>>
        \/ tracked /\ Head(down).type = "closed" /\ closed' = TRUE /\ tracked' = FALSE
        \/ Head(down).type # "closed" /\ Tells(Head(down)) /\ UNCHANGED <<tracked, closed>>
    BY <1>11 DEF Deliver
  <2> QED
    BY <2>5, <2>6, <2>7, <2>8
<1>12. CASE Drop
  <2>1. /\ link' = "down" /\ up' = <<>> /\ down' = <<>> /\ present' = "no" /\ stage' = "idle"
        /\ UNCHANGED <<tracked, closed>>
    BY <1>12 DEF Drop, Cut
  <2>2. NoOpen' /\ OneOpen' /\ NoClosed'
    BY <2>1 DEF NoOpen, OneOpen, NoClosed
  <2>3. NoneTold => NoneTold'
    <3>1. CASE tracked
      <4>1. Envelope("dropped", None) \in Event /\ Envelope("dropped", None).type # "closed"
        BY Enveloped DEF EventKind, Envelope
      <4> QED
        BY <1>12, <3>1, <4>1, ClosedTold DEF Drop
    <3>2. CASE ~tracked
      BY <1>12, <3>2 DEF Drop, NoneTold
    <3> QED
      BY <3>1, <3>2
  <2> QED
    BY <2>1, <2>2, <2>3
<1>13. CASE Dial
  BY <1>13 DEF Dial, NoOpen, OneOpen, NoClosed, NoneTold
<1>14. CASE Reopen
  <2>1. link = "dialled" /\ link' = "up" /\ UNCHANGED <<down, present, stage>>
    BY <1>14 DEF Reopen
  <2>2. NoClosed' /\ NoClosed /\ NoOpen /\ present = "no" /\ ~Driving'
    BY <2>1 DEF NoClosed
  <2>3. CASE ~tracked /\ UNCHANGED <<queue, stateVars, up>>
    BY <2>1, <2>2, <2>3 DEF NoOpen, OneOpen, NoneTold
  <2>4. CASE tracked /\ up' = Append(up, Envelope("open", None)) /\ UNCHANGED <<queue, closed>>
    <3>1. Envelope("open", None) \in Request /\ Envelope("open", None).type = "open"
      BY Enveloped DEF Envelope
    <3>2. OneOpen'
      BY <2>2, <2>4, <3>1, OpenAdded
    <3>3. NoneTold' = NoneTold
      BY <2>4 DEF NoneTold
    <3> QED
      BY <2>1, <2>2, <2>4, <3>2, <3>3
  <2>5. CASE closed' = TRUE /\ tracked' = FALSE /\ UNCHANGED up
    <3>1. NoOpen' /\ OneOpen'
      BY <2>2, <2>5 DEF NoOpen, OneOpen
    <3> QED
      BY <2>1, <2>2, <2>5, <3>1
  <2>6. \/ ~tracked /\ UNCHANGED <<queue, stateVars, up>>
        \/ tracked /\ up' = Append(up, Envelope("open", None)) /\ UNCHANGED <<queue, closed>>
        \/ closed' = TRUE /\ tracked' = FALSE /\ UNCHANGED up
    BY <1>14 DEF Reopen
  <2> QED
    BY <2>3, <2>4, <2>5, <2>6
<1>15. CASE Close
  <2>1. Connected /\ UNCHANGED <<link, down, closed, tracked, present, stage>>
    BY <1>15 DEF Close
  <2>2. PICK r \in Request : r.type # "open" /\ up' = Append(up, r)
    BY <1>15, Enveloped DEF Close, Envelope
  <2>3. NoOpen' = NoOpen /\ (OneOpen => OneOpen')
    BY <2>2, OpenAdded
  <2>4. NoClosed' = NoClosed /\ (NoneTold => NoneTold')
    BY <1>15 DEF Close, NoClosed, NoneTold
  <2> QED
    BY <2>1, <2>3, <2>4
<1>16. CASE CloseTimesOut
  BY <1>16 DEF CloseTimesOut, NoOpen, OneOpen, NoClosed, NoneTold
<1>17. ASSUME NEW m \in Msg, Arrive(m) PROVE WireInv'
  BY <1>17 DEF Arrive, NoOpen, OneOpen, NoClosed, NoneTold
<1>18. ASSUME NEW m \in Msg, Begin(m) PROVE WireInv'
  <2>1. Connected /\ UNCHANGED <<link, down, closed, tracked, present, stage>>
    BY <1>18 DEF Begin
  <2>2. PICK r \in Request : r.type # "open" /\ up' = Append(up, r)
    BY <1>18, Enveloped DEF Begin, Envelope
  <2>3. NoOpen' = NoOpen /\ (OneOpen => OneOpen')
    BY <2>2, OpenAdded
  <2>4. NoClosed' = NoClosed /\ (NoneTold => NoneTold')
    BY <1>18 DEF Begin, NoClosed, NoneTold
  <2> QED
    BY <2>1, <2>3, <2>4
<1>19. ASSUME NEW m \in Msg, BeginFails(m) PROVE WireInv'
  BY <1>19 DEF BeginFails, NoOpen, OneOpen, NoClosed, NoneTold
<1>20. ASSUME NEW m \in Msg, TakeText(m) PROVE WireInv'
  <2>1. UNCHANGED <<link, up, down, closed, tracked, present, stage>>
    BY <1>20 DEF TakeText
  <2>2. NoneTold => NoneTold'
    BY <1>20, ClosedRead DEF TakeText, Takes
  <2>3. NoOpen' = NoOpen /\ OneOpen' = OneOpen /\ NoClosed' = NoClosed
    BY <2>1 DEF NoOpen, OneOpen, NoClosed
  <2> QED
    BY <2>1, <2>2, <2>3
<1>21. ASSUME NEW m \in Msg, TakeResult(m) PROVE WireInv'
  <2>1. UNCHANGED <<link, up, down, closed, tracked, present, stage>>
    BY <1>21 DEF TakeResult
  <2>2. NoneTold => NoneTold'
    BY <1>21, ClosedRead DEF TakeResult, Takes
  <2>3. NoOpen' = NoOpen /\ OneOpen' = OneOpen /\ NoClosed' = NoClosed
    BY <2>1 DEF NoOpen, OneOpen, NoClosed
  <2> QED
    BY <2>1, <2>2, <2>3
<1>22. ASSUME NEW m \in Msg, TakeEnd(m) PROVE WireInv'
  <2>1. UNCHANGED <<link, up, down, closed, tracked, present, stage>> /\ queue' = NoQueue
    BY <1>22 DEF TakeEnd
  <2>2. NoneTold'
    BY <2>1 DEF NoneTold, NoQueue
  <2>3. NoOpen' = NoOpen /\ OneOpen' = OneOpen /\ NoClosed' = NoClosed
    BY <2>1 DEF NoOpen, OneOpen, NoClosed
  <2> QED
    BY <2>1, <2>2, <2>3
<1>23. ASSUME NEW m \in Msg, TakeError(m) PROVE WireInv'
  <2>1. UNCHANGED <<link, up, down, closed, tracked, present, stage>> /\ queue' = NoQueue
    BY <1>23 DEF TakeError
  <2>2. NoneTold'
    BY <2>1 DEF NoneTold, NoQueue
  <2>3. NoOpen' = NoOpen /\ OneOpen' = OneOpen /\ NoClosed' = NoClosed
    BY <2>1 DEF NoOpen, OneOpen, NoClosed
  <2> QED
    BY <2>1, <2>2, <2>3
<1>24. ASSUME NEW m \in Msg, CancelBeat(m) PROVE WireInv'
  BY <1>24 DEF CancelBeat, NoOpen, OneOpen, NoClosed, NoneTold
<1>25. ASSUME NEW m \in Msg, Deleted(m) PROVE WireInv'
  BY <1>25 DEF Deleted, NoOpen, OneOpen, NoClosed, NoneTold
<1>26. ASSUME NEW m \in Msg, DeleteFails(m) PROVE WireInv'
  BY <1>26 DEF Leaves, DeleteFails, NoOpen, OneOpen, NoClosed, NoneTold
<1>27. ASSUME NEW m \in Msg, Posted(m) PROVE WireInv'
  BY <1>27 DEF Leaves, Posted, NoOpen, OneOpen, NoClosed, NoneTold
<1>28. CASE BeatSends
  BY <1>28 DEF BeatSends, NoOpen, OneOpen, NoClosed, NoneTold
<1>29. CASE BeatSent
  BY <1>29 DEF BeatSent, NoOpen, OneOpen, NoClosed, NoneTold
<1>30. QED
  BY <1>1, <1>2, <1>3, <1>4, <1>5, <1>6, <1>7, <1>8, <1>9, <1>10, <1>11, <1>12, <1>13, <1>14, <1>15,
     <1>16, <1>17, <1>18, <1>19, <1>20, <1>21, <1>22, <1>23, <1>24, <1>25, <1>26, <1>27, <1>28,
     <1>29
     DEF Next, Take, Ending

\* Steps keep that a message is sent once, before its turn.
LEMMA SentKept ==
  ASSUME TypeOK, OneAtATime, SentOnce, [Next]_vars
  PROVE  SentOnce'
<1> USE DEF TypeOK, SentOnce, Sent, turnVars, stateVars, wireVars, runnerVars, beatVars, showVars,
        pastVars
<1>1. CASE UNCHANGED vars
  BY <1>1 DEF vars
<1>2. CASE HandleSend
  <2>1. PICK m0 \in Msg \cup {None} :
          /\ up # <<>> /\ up' = Tail(up) /\ Head(up) = Envelope("send", m0) /\ UNCHANGED task
          /\ drive' = drive \/ drive' = m0
    BY <1>2, SendEffect
  <2>2. /\ Len(up) \in Nat \ {0} /\ DOMAIN up = 1 .. Len(up)
        /\ DOMAIN up' = 1 .. Len(up) - 1
        /\ \A i \in DOMAIN up' : i + 1 \in DOMAIN up /\ up'[i] = up[i + 1]
        /\ 1 \in DOMAIN up /\ Head(up) = up[1]
    BY <2>1, RequestTaken
  <2>3. /\ m0 \in Msg /\ task[m0] \notin {"new", "waiting"} /\ drive # m0
        /\ up[1].type = "send" /\ up[1].of = m0
        /\ \A j \in DOMAIN up : up[j].type = "send" /\ up[j].of = m0 => j = 1
    <3>1. up[1].type = "send" /\ up[1].of = m0 /\ 1 \in DOMAIN up
      BY <2>1, <2>2 DEF Envelope
    <3>2. m0 \in Msg
      BY <3>1
    <3> QED
      BY <3>1, <3>2
  <2>4. ASSUME NEW m \in Msg, NEW i \in DOMAIN up', up'[i].type = "send", up'[i].of = m
        PROVE  /\ task[m] \notin {"new", "waiting"} /\ drive' # m
               /\ \A j \in DOMAIN up' : up'[j].type = "send" /\ up'[j].of = m => i = j
    <3>1. i + 1 \in DOMAIN up /\ up[i + 1].type = "send" /\ up[i + 1].of = m /\ i \in Nat \ {0}
      BY <2>2, <2>4
    <3>2. task[m] \notin {"new", "waiting"} /\ drive # m
      BY <3>1
    <3>3. m # m0
      <4>1. i + 1 # 1
        BY <3>1
      <4> QED
        BY <2>3, <3>1, <4>1
    <3>4. ASSUME NEW j \in DOMAIN up', up'[j].type = "send" /\ up'[j].of = m
          PROVE  i = j
      <4>1. j + 1 \in DOMAIN up /\ up[j + 1].type = "send" /\ up[j + 1].of = m
        BY <2>2, <3>4
      <4>2. i + 1 = j + 1
        BY <3>1, <4>1
      <4> QED
        BY <2>2, <4>2
    <3> QED
      BY <2>1, <3>2, <3>3, <3>4
  <2>5. \A i \in DOMAIN up' : up'[i].type = "send" => up'[i].of \in Msg
    BY <2>2
  <2>6. \A m \in Msg : task[m] \in {"new", "waiting"} => drive' # m
    BY <2>1, <2>3
  <2> QED
    BY <2>1, <2>4, <2>5, <2>6
<1>3. CASE HandleOpen
  <2>1. up # <<>> /\ up' = Tail(up) /\ UNCHANGED <<task, drive>>
    BY <1>3, RequestTaken DEF HandleOpen, Handles
  <2>2. /\ Len(up) \in Nat \ {0} /\ DOMAIN up = 1 .. Len(up)
        /\ DOMAIN up' = 1 .. Len(up) - 1
        /\ \A i \in DOMAIN up' : i + 1 \in DOMAIN up /\ up'[i] = up[i + 1]
        /\ 1 \in DOMAIN up /\ Head(up) = up[1]
    BY <2>1, RequestTaken
  <2>3. ASSUME NEW m \in Msg, NEW i \in DOMAIN up', up'[i].type = "send", up'[i].of = m
        PROVE  /\ task[m] \notin {"new", "waiting"} /\ drive # m
               /\ \A j \in DOMAIN up' : up'[j].type = "send" /\ up'[j].of = m => i = j
    <3>1. i + 1 \in DOMAIN up /\ up[i + 1].type = "send" /\ up[i + 1].of = m
      BY <2>2, <2>3
    <3>2. task[m] \notin {"new", "waiting"} /\ drive # m
      BY <3>1
    <3>3. ASSUME NEW j \in DOMAIN up', up'[j].type = "send" /\ up'[j].of = m
          PROVE  i = j
      <4>1. j + 1 \in DOMAIN up /\ up[j + 1].type = "send" /\ up[j + 1].of = m
        BY <2>2, <3>3
      <4>2. i + 1 = j + 1
        BY <3>1, <4>1
      <4> QED
        BY <2>2, <4>2
    <3> QED
      BY <3>2, <3>3
  <2>4. \A i \in DOMAIN up' : up'[i].type = "send" => up'[i].of \in Msg
    BY <2>2
  <2> QED
    BY <2>1, <2>3, <2>4
<1>4. CASE StartReturns
  BY <1>4 DEF StartReturns, Reports
<1>5. CASE HandleClose
  <2>1. up # <<>> /\ up' = Tail(up) /\ UNCHANGED <<task, drive>>
    BY <1>5, CloseEffect
  <2>2. /\ Len(up) \in Nat \ {0} /\ DOMAIN up = 1 .. Len(up)
        /\ DOMAIN up' = 1 .. Len(up) - 1
        /\ \A i \in DOMAIN up' : i + 1 \in DOMAIN up /\ up'[i] = up[i + 1]
        /\ 1 \in DOMAIN up /\ Head(up) = up[1]
    BY <2>1, RequestTaken
  <2>3. ASSUME NEW m \in Msg, NEW i \in DOMAIN up', up'[i].type = "send", up'[i].of = m
        PROVE  /\ task[m] \notin {"new", "waiting"} /\ drive # m
               /\ \A j \in DOMAIN up' : up'[j].type = "send" /\ up'[j].of = m => i = j
    <3>1. i + 1 \in DOMAIN up /\ up[i + 1].type = "send" /\ up[i + 1].of = m
      BY <2>2, <2>3
    <3>2. task[m] \notin {"new", "waiting"} /\ drive # m
      BY <3>1
    <3>3. ASSUME NEW j \in DOMAIN up', up'[j].type = "send" /\ up'[j].of = m
          PROVE  i = j
      <4>1. j + 1 \in DOMAIN up /\ up[j + 1].type = "send" /\ up[j + 1].of = m
        BY <2>2, <3>3
      <4>2. i + 1 = j + 1
        BY <3>1, <4>1
      <4> QED
        BY <2>2, <4>2
    <3> QED
      BY <3>2, <3>3
  <2>4. \A i \in DOMAIN up' : up'[i].type = "send" => up'[i].of \in Msg
    BY <2>2
  <2> QED
    BY <2>1, <2>3, <2>4
<1>6. CASE Reap
  BY <1>6 DEF Reap, Stops, Reports
<1>7. CASE Refuse
  BY <1>7 DEF Refuse, Reports
<1>8. ASSUME NEW k \in {"text", "result"}, Emit(k) PROVE SentOnce'
  BY <1>8 DEF Emit, Reports
<1>9. CASE EndTurn
  BY <1>9 DEF EndTurn, Reports
<1>10. CASE TaskDone
  BY <1>10 DEF TaskDone
<1>11. CASE Deliver
  BY <1>11 DEF Deliver, Tells
<1>12. CASE Drop
  BY <1>12 DEF Drop, Cut, Tells
<1>13. CASE Dial
  BY <1>13 DEF Dial
<1>14. CASE Reopen
  <2>1. Envelope("open", None) \in Request /\ Envelope("open", None).type # "send"
    BY Enveloped DEF Envelope
  <2>2. UNCHANGED <<task, drive>> /\ (up' = up \/ up' = Append(up, Envelope("open", None)))
    BY <1>14 DEF Reopen
  <2>3. \A i \in DOMAIN up' : up'[i].type = "send" => i \in DOMAIN up /\ up'[i] = up[i]
    <3>1. CASE up' = Append(up, Envelope("open", None))
      BY <2>1, <3>1, RequestAdded
    <3> QED
      BY <2>2, <3>1
  <2> QED
    BY <2>2, <2>3
<1>15. CASE Close
  <2>1. Envelope("close", None) \in Request /\ Envelope("close", None).type # "send"
    BY Enveloped DEF Envelope
  <2>2. UNCHANGED <<task, drive>> /\ (up' = up \/ up' = Append(up, Envelope("close", None)))
    BY <1>15 DEF Close
  <2>3. \A i \in DOMAIN up' : up'[i].type = "send" => i \in DOMAIN up /\ up'[i] = up[i]
    <3>1. CASE up' = Append(up, Envelope("close", None))
      BY <2>1, <3>1, RequestAdded
    <3> QED
      BY <2>2, <3>1
  <2> QED
    BY <2>2, <2>3
<1>16. CASE CloseTimesOut
  BY <1>16 DEF CloseTimesOut
<1>17. ASSUME NEW m \in Msg, Arrive(m) PROVE SentOnce'
  BY <1>17 DEF Arrive, Goes
<1>18. ASSUME NEW m \in Msg, Begin(m) PROVE SentOnce'
  <2>1. /\ UNCHANGED drive /\ up' = Append(up, Envelope("send", m)) /\ task[m] = "waiting"
        /\ task' = [task EXCEPT ![m] = "streaming"]
    BY <1>18 DEF Begin, Goes
  <2>2. task'[m] = "streaming" /\ \A n \in Msg : n # m => task'[n] = task[n]
    BY <1>18, <2>1
  <2>3. /\ Envelope("send", m) \in Request
        /\ Envelope("send", m).type = "send" /\ Envelope("send", m).of = m
    BY <1>18, Enveloped DEF Envelope
  <2>4. /\ Len(up) \in Nat /\ DOMAIN up = 1 .. Len(up) /\ DOMAIN up' = 1 .. Len(up) + 1
        /\ \A i \in DOMAIN up : i \in DOMAIN up' /\ up'[i] = up[i]
        /\ up'[Len(up) + 1] = Envelope("send", m)
    BY <2>1, <2>3, RequestAdded
  <2>5. \A i \in DOMAIN up' : \/ i \in DOMAIN up /\ up'[i] = up[i]
                              \/ i = Len(up) + 1 /\ up'[i].type = "send" /\ up'[i].of = m
    BY <2>3, <2>4
  <2>6. drive # m /\ \A i \in DOMAIN up : ~(up[i].type = "send" /\ up[i].of = m)
    BY <1>18, <2>1
  <2>7. \A n \in Msg : task'[n] \in {"new", "waiting"} => n # m /\ task[n] \in {"new", "waiting"}
    BY <2>2
  <2>8. ASSUME NEW n \in Msg, NEW i \in DOMAIN up', up'[i].type = "send", up'[i].of = n
        PROVE  /\ task'[n] \notin {"new", "waiting"} /\ drive # n
               /\ \A j \in DOMAIN up' : up'[j].type = "send" /\ up'[j].of = n => i = j
    <3>1. CASE n = m
      BY <2>2, <2>5, <2>6, <2>8, <3>1
    <3>2. CASE n # m
      <4>1. i \in DOMAIN up /\ up[i].type = "send" /\ up[i].of = n
        BY <2>5, <2>8, <3>2
      <4>2. \A j \in DOMAIN up' : up'[j].type = "send" /\ up'[j].of = n =>
              j \in DOMAIN up /\ up[j].type = "send" /\ up[j].of = n
        BY <2>5, <3>2
      <4> QED
        BY <2>2, <3>2, <4>1, <4>2
    <3> QED
      BY <3>1, <3>2
  <2>9. \A i \in DOMAIN up' : up'[i].type = "send" => up'[i].of \in Msg
    BY <1>18, <2>5
  <2> QED
    BY <2>1, <2>7, <2>8, <2>9
<1>19. ASSUME NEW m \in Msg, BeginFails(m) PROVE SentOnce'
  BY <1>19 DEF BeginFails, Goes, NewRenderer, Holds
<1>20. ASSUME NEW m \in Msg, TakeText(m) PROVE SentOnce'
  BY <1>20 DEF TakeText, Takes, Rest, First
<1>21. ASSUME NEW m \in Msg, TakeResult(m) PROVE SentOnce'
  BY <1>21 DEF TakeResult, Takes, Rest, First
<1>22. ASSUME NEW m \in Msg, TakeEnd(m) PROVE SentOnce'
  BY <1>22 DEF TakeEnd, Takes, Goes, NoQueue, First
<1>23. ASSUME NEW m \in Msg, TakeError(m) PROVE SentOnce'
  BY <1>23 DEF TakeError, Takes, Goes, NoQueue, First
<1>24. ASSUME NEW m \in Msg, CancelBeat(m) PROVE SentOnce'
  BY <1>24 DEF CancelBeat, Goes
<1>25. ASSUME NEW m \in Msg, Deleted(m) PROVE SentOnce'
  BY <1>25 DEF Deleted, Goes
<1>26. ASSUME NEW m \in Msg, DeleteFails(m) PROVE SentOnce'
  BY <1>26 DEF DeleteFails, Leaves, Goes, NewRenderer
<1>27. ASSUME NEW m \in Msg, Posted(m) PROVE SentOnce'
  BY <1>27 DEF Posted, Leaves, Goes, NewRenderer
<1>28. CASE BeatSends
  BY <1>28 DEF BeatSends
<1>29. CASE BeatSent
  BY <1>29 DEF BeatSent
<1>30. QED
  BY <1>1, <1>2, <1>3, <1>4, <1>5, <1>6, <1>7, <1>8, <1>9, <1>10, <1>11, <1>12, <1>13, <1>14, <1>15,
     <1>16, <1>17, <1>18, <1>19, <1>20, <1>21, <1>22, <1>23, <1>24, <1>25, <1>26, <1>27, <1>28,
     <1>29
     DEF Next, Take, Ending

-----------------------------------------------------------------------------
(* Readings.                                                               *)

\* Nothing read changes nothing.
LEMMA ReadsSame ==
  ASSUME NEW q \in Seq(Event), NEW a \in Nat,
         \A i \in DOMAIN q : q[i].type \notin {"text", "result"}
  PROVE  Reads(q, a, a, a)
<1> DEFINE g == [i \in 0 .. Len(q) |-> a]
<1>1. Len(q) \in Nat /\ DOMAIN q = 1 .. Len(q)
  OBVIOUS
<1>2. g \in [0 .. Len(q) -> Nat] /\ \A i \in 0 .. Len(q) : g[i] = a
  OBVIOUS
<1> HIDE DEF g
<1>3. \A i \in DOMAIN q : After(g[i - 1], q[i]) = g[i - 1]
  BY DEF After
<1>4. \A i \in DOMAIN q : i \in 0 .. Len(q) /\ i - 1 \in 0 .. Len(q)
  BY <1>1
<1>5. 0 \in 0 .. Len(q) /\ Len(q) \in 0 .. Len(q)
  BY <1>1
<1> QED
  BY <1>2, <1>3, <1>4, <1>5 DEF Reads

\* One event more is read last ...
LEMMA ReadsAdded ==
  ASSUME NEW q \in Seq(Event), NEW e \in Event, NEW a \in Nat, NEW b \in Nat, NEW s,
         Reads(q, a, b, s),
         e.type \in {"end", "closed"} /\ (\A j \in DOMAIN q : q[j].type # "dropped") =>
           After(b, e) = s
  PROVE  After(b, e) \in Nat /\ Reads(Append(q, e), a, After(b, e), s)
<1> DEFINE l == Len(q)
           x == After(b, e)
           p == Append(q, e)
           Marked(r, n, i) ==
             r[i].type \in {"end", "closed"}
               /\ (\A j \in DOMAIN r : j < i => r[j].type # "dropped") => n[i] = s
<1>1. /\ l \in Nat /\ DOMAIN q = 1 .. l /\ DOMAIN p = 1 .. l + 1 /\ Len(p) = l + 1
      /\ \A i \in DOMAIN q : p[i] = q[i]
      /\ p[l + 1] = e
  OBVIOUS
<1>2. x \in Nat
  BY DEF After
<1>3. PICK n \in [0 .. l -> Nat] :
        /\ n[0] = a /\ n[l] = b
        /\ \A i \in DOMAIN q : n[i] = After(n[i - 1], q[i]) /\ Marked(q, n, i)
  BY DEF Reads
<1> DEFINE g == [i \in 0 .. l + 1 |-> IF i = l + 1 THEN x ELSE n[i]]
<1>4. g \in [0 .. l + 1 -> Nat] /\ g[l + 1] = x /\ \A i \in 0 .. l : g[i] = n[i]
  BY <1>1, <1>2
<1> HIDE DEF g, p, l
<1>5. g[0] = a /\ g[l] = b
  <2>1. 0 \in 0 .. l /\ l \in 0 .. l
    BY <1>1
  <2> QED
    BY <1>3, <1>4, <2>1
<1>6. \A i \in DOMAIN q : i \in 0 .. l /\ i - 1 \in 0 .. l /\ i \in DOMAIN p
  BY <1>1
<1>7. ASSUME NEW i \in DOMAIN p PROVE g[i] = After(g[i - 1], p[i])
  <2>1. CASE i = l + 1
    BY <1>1, <1>4, <1>5, <2>1
  <2>2. CASE i \in DOMAIN q
    <3>1. g[i] = n[i] /\ g[i - 1] = n[i - 1] /\ p[i] = q[i]
      BY <1>1, <1>4, <1>6, <2>2
    <3> QED
      BY <1>3, <2>2, <3>1
  <2> QED
    BY <1>1, <2>1, <2>2
<1>8. ASSUME NEW i \in DOMAIN p PROVE Marked(p, g, i)
  <2>1. CASE i = l + 1
    <3>1. (\A j \in DOMAIN p : j < i => p[j].type # "dropped") =>
            \A j \in DOMAIN q : q[j].type # "dropped"
      BY <1>1, <2>1
    <3> QED
      BY <1>1, <1>4, <2>1, <3>1
  <2>2. CASE i \in DOMAIN q
    <3>1. g[i] = n[i] /\ p[i] = q[i]
      BY <1>1, <1>4, <1>6, <2>2
    <3>2. (\A j \in DOMAIN p : j < i => p[j].type # "dropped") =>
            \A j \in DOMAIN q : j < i => q[j].type # "dropped"
      BY <1>1, <1>6
    <3>3. Marked(q, n, i)
      BY <1>3, <2>2
    <3> QED
      BY <3>1, <3>2, <3>3
  <2> QED
    BY <1>1, <2>1, <2>2
<1>9. Reads(p, a, x, s)
  <2> HIDE DEF x
  <2> QED
    BY <1>1, <1>4, <1>5, <1>7, <1>8 DEF Reads
<1> QED
  BY <1>2, <1>9 DEF p

\* ... a drop is none of them ...
LEMMA ReadsDropped ==
  ASSUME NEW q \in Seq(Event), NEW e \in Event, NEW a \in Nat, NEW b \in Nat, NEW s,
         Reads(q, a, b, s), e.type = "dropped"
  PROVE  Reads(Append(q, e), a, b, s)
<1>1. After(b, e) = b
  BY DEF After
<1>2. Reads(Append(q, e), a, After(b, e), s)
  BY ReadsAdded
<1> QED
  BY <1>1, <1>2

\* ... and one taken was read first; if it ends what is read, all had been read.
LEMMA ReadsTaken ==
  ASSUME NEW q \in Seq(Event), q # <<>>, NEW a \in Nat, NEW b, NEW s, Reads(q, a, b, s)
  PROVE  /\ After(a, Head(q)) \in Nat
         /\ Head(q).type \in {"end", "closed"} => a = s
         /\ Head(q).type # "dropped" => Reads(Tail(q), After(a, Head(q)), b, s)
<1> DEFINE l == Len(q)
           x == After(a, Head(q))
           p == Tail(q)
           Marked(r, n, i) ==
             r[i].type \in {"end", "closed"}
               /\ (\A j \in DOMAIN r : j < i => r[j].type # "dropped") => n[i] = s
<1>1. /\ l \in Nat \ {0} /\ DOMAIN q = 1 .. l /\ DOMAIN p = 1 .. l - 1 /\ Len(p) = l - 1
      /\ \A i \in DOMAIN p : p[i] = q[i + 1]
      /\ Head(q) = q[1] /\ 1 \in DOMAIN q
  OBVIOUS
<1>2. x \in Nat
  BY DEF After
<1>3. PICK n \in [0 .. l -> Nat] :
        /\ n[0] = a /\ n[l] = b
        /\ \A i \in DOMAIN q : n[i] = After(n[i - 1], q[i]) /\ Marked(q, n, i)
  BY DEF Reads
<1>4. n[1] = x
  <2>1. n[1] = After(n[1 - 1], q[1])
    BY <1>1, <1>3
  <2> QED
    BY <1>1, <1>3, <2>1
<1>5. Head(q).type \in {"end", "closed"} => a = s
  <2>1. Marked(q, n, 1)
    BY <1>1, <1>3
  <2>2. \A j \in DOMAIN q : ~(j < 1)
    BY <1>1
  <2>3. Head(q).type \in {"end", "closed"} => x = a
    BY DEF After
  <2> QED
    BY <1>1, <1>4, <2>1, <2>2, <2>3
<1> DEFINE g == [i \in 0 .. l - 1 |-> n[i + 1]]
<1>6. g \in [0 .. l - 1 -> Nat] /\ \A i \in 0 .. l - 1 : g[i] = n[i + 1]
  BY <1>1
<1>7. g[0] = x /\ g[l - 1] = b
  BY <1>1, <1>3, <1>4, <1>6
<1> HIDE DEF g, p, l
<1>8. \A i \in DOMAIN p : /\ i \in 0 .. l - 1 /\ i - 1 \in 0 .. l - 1 /\ i + 1 \in DOMAIN q
                          /\ (i - 1) + 1 = i /\ (i + 1) - 1 = i
  BY <1>1
<1>9. ASSUME NEW i \in DOMAIN p PROVE g[i] = After(g[i - 1], p[i])
  <2>1. g[i] = n[i + 1] /\ g[i - 1] = n[i] /\ p[i] = q[i + 1]
    BY <1>1, <1>6, <1>8
  <2>2. n[i + 1] = After(n[(i + 1) - 1], q[i + 1])
    BY <1>3, <1>8
  <2> QED
    BY <1>8, <2>1, <2>2
<1>10. ASSUME NEW i \in DOMAIN p, q[1].type # "dropped" PROVE Marked(p, g, i)
  <2>1. g[i] = n[i + 1] /\ p[i] = q[i + 1]
    BY <1>1, <1>6, <1>8
  <2>2. Marked(q, n, i + 1)
    BY <1>3, <1>8
  <2>3. ASSUME \A j \in DOMAIN p : j < i => p[j].type # "dropped",
               NEW j \in DOMAIN q, j < i + 1
        PROVE  q[j].type # "dropped"
    <3>1. CASE j = 1
      BY <1>10, <3>1
    <3>2. CASE j # 1
      <4>1. i \in Nat /\ j \in Nat /\ j > 1 /\ j <= l /\ i <= l - 1
        BY <1>1, <2>3, <3>2
      <4>2. j - 1 < i /\ (j - 1) + 1 = j /\ j - 1 \in 1 .. l - 1
        BY <1>1, <2>3, <4>1
      <4>3. p[j - 1] = q[(j - 1) + 1] /\ j - 1 \in DOMAIN p
        BY <1>1, <4>2
      <4> QED
        BY <2>3, <4>2, <4>3
    <3> QED
      BY <3>1, <3>2
  <2> QED
    BY <2>1, <2>2, <2>3
<1>11. Head(q).type # "dropped" => Reads(p, x, b, s)
  <2> SUFFICES ASSUME Head(q).type # "dropped" PROVE Reads(p, x, b, s)
    OBVIOUS
  <2>1. \A i \in DOMAIN p : Marked(p, g, i)
    BY <1>1, <1>10
  <2>2. g \in [0 .. Len(p) -> Nat] /\ g[0] = x /\ g[Len(p)] = b
    BY <1>1, <1>6, <1>7
  <2> HIDE DEF x
  <2> QED
    BY <1>9, <2>1, <2>2 DEF Reads
<1> QED
  BY <1>2, <1>5, <1>11 DEF p

\* Where nothing ends what is read, any number will do for it.
LEMMA ReadsTo ==
  ASSUME NEW q \in Seq(Event), NEW a, NEW b, NEW s, NEW t, Reads(q, a, b, s),
         \A i \in DOMAIN q : q[i].type \notin {"end", "closed"}
  PROVE  Reads(q, a, b, t)
BY DEF Reads

-----------------------------------------------------------------------------
(* What the runner reports.                                                *)

\* An event more.
LEMMA DownAdded ==
  ASSUME DownInv, down \in Seq(Event), NEW e \in Event, down' = Append(down, e),
         e.type # "dropped", link' = link, link # "up" => e.type = "error"
  PROVE  DownInv'
<1>1. \A i \in DOMAIN down' : down'[i] = e \/ (i \in DOMAIN down /\ down'[i] = down[i])
  BY EventAdded
<1> QED
  BY <1>1 DEF DownInv

\* Two events more.
LEMMA DownAddedTwo ==
  ASSUME DownInv, down \in Seq(Event), NEW e \in Event, NEW f \in Event,
         down' = Append(Append(down, e), f),
         e.type # "dropped", f.type # "dropped", link' = link, link = "up"
  PROVE  DownInv'
<1>1. \A i \in DOMAIN down' :
        down'[i] = e \/ down'[i] = f \/ (i \in DOMAIN down /\ down'[i] = down[i])
  <2>1. /\ Len(down) \in Nat /\ DOMAIN down = 1 .. Len(down)
        /\ DOMAIN down' = 1 .. Len(down) + 2
        /\ \A i \in DOMAIN down : i \in DOMAIN down' /\ down'[i] = down[i]
        /\ down'[Len(down) + 1] = e /\ down'[Len(down) + 2] = f
    BY EventsAdded
  <2>2. \A i \in 1 .. Len(down) + 2 : i \in 1 .. Len(down) \/ i = Len(down) + 1 \/ i = Len(down) + 2
    BY <2>1
  <2> QED
    BY <2>1, <2>2
<1> QED
  BY <1>1 DEF DownInv

\* Steps keep it so.
LEMMA DownKept ==
  ASSUME TypeOK, WireInv, DownInv, [Next]_vars
  PROVE  DownInv'
<1> USE DEF TypeOK, DownInv, Connected, turnVars, stateVars, wireVars, runnerVars, beatVars,
        showVars, pastVars
<1>1. CASE UNCHANGED vars
  BY <1>1 DEF vars
<1>2. CASE HandleSend
  <2>1. PICK m \in Msg \cup {None} :
          /\ link' = link
          /\ \/ down' = Append(down, Envelope("error", m))
             \/ UNCHANGED down
             \/ /\ present # "no"
                /\ down' = Append(Append(down, Envelope("error", m)), Envelope("end", m))
    BY <1>2, SendEffect
  <2>2. \A k \in {"error", "end"} : Envelope(k, m) \in Event /\ Envelope(k, m).type = k
    BY Enveloped DEF EventKind, Envelope
  <2>3. CASE down' = Append(down, Envelope("error", m))
    BY <2>1, <2>2, <2>3, DownAdded
  <2>4. CASE UNCHANGED down
    BY <2>1, <2>4
  <2>5. CASE /\ present # "no"
             /\ down' = Append(Append(down, Envelope("error", m)), Envelope("end", m))
    <3>1. link = "up"
      BY <2>5 DEF WireInv, Dead
    <3> QED
      BY <2>1, <2>2, <2>5, <3>1, DownAddedTwo
  <2> QED
    BY <2>1, <2>3, <2>4, <2>5
<1>3. CASE HandleOpen
  <2>1. CASE UNCHANGED <<down, link>>
    BY <2>1
  <2>2. CASE link' = link /\ Reports(<<Envelope("error", None)>>)
    <3>1. /\ Envelope("error", None) \in Event /\ Envelope("error", None).type = "error"
          /\ down' = Append(down, Envelope("error", None))
      BY <2>2, Reported DEF EventKind, Envelope
    <3> QED
      BY <2>2, <3>1, DownAdded
  <2> QED
    BY <1>3, <2>1, <2>2 DEF HandleOpen
<1>4. CASE StartReturns
  <2>1. link = "up" /\ link' = link
    BY <1>4 DEF StartReturns, WireInv, Dead, Driving
  <2>2. PICK e \in Event : down' = Append(down, e) /\ e.type # "dropped"
    BY <1>4, Reported DEF StartReturns, EventKind, Envelope
  <2> QED
    BY <2>1, <2>2, DownAdded
<1>5. CASE HandleClose
  <2>1. \A k \in {"closed"}, n \in {None} : Envelope(k, n) \in Event /\ Envelope(k, n).type = k
    BY Enveloped DEF EventKind, Envelope
  <2>2. Envelope("end", drive) \in Event /\ Envelope("end", drive).type = "end"
    BY Enveloped DEF EventKind, Envelope
  <2>3. link' = link
    BY <1>5, CloseEffect
  <2>4. CASE UNCHANGED down
    BY <2>3, <2>4
  <2>5. CASE present # "no" /\ down' = Append(down, Envelope("closed", None))
    <3>1. link = "up"
      BY <2>5 DEF WireInv, Dead
    <3> QED
      BY <2>1, <2>3, <2>5, <3>1, DownAdded
  <2>6. CASE /\ present # "no"
             /\ down' = Append(Append(down, Envelope("end", drive)), Envelope("closed", None))
    <3>1. link = "up"
      BY <2>6 DEF WireInv, Dead
    <3> QED
      BY <2>1, <2>2, <2>3, <2>6, <3>1, DownAddedTwo
  <2> QED
    BY <1>5, <2>4, <2>5, <2>6, CloseEffect
<1>6. CASE Reap
  <2>1. link = "up" /\ link' = link
    BY <1>6, ReapEffect DEF WireInv, Dead
  <2>2. Envelope("closed", None) \in Event /\ Envelope("closed", None).type = "closed"
    BY Enveloped DEF EventKind, Envelope
  <2>3. Envelope("end", drive) \in Event /\ Envelope("end", drive).type = "end"
    BY Enveloped DEF EventKind, Envelope
  <2>4. CASE down' = Append(down, Envelope("closed", None))
    BY <2>1, <2>2, <2>4, DownAdded
  <2>5. CASE down' = Append(Append(down, Envelope("end", drive)), Envelope("closed", None))
    BY <2>1, <2>2, <2>3, <2>5, DownAddedTwo
  <2> QED
    BY <1>6, <2>4, <2>5, ReapEffect
<1>7. CASE Refuse
  <2>1. PICK e \in Event : down' = Append(down, e) /\ e.type # "dropped" /\ (e.type = "error")
    BY <1>7, Reported DEF Refuse, EventKind, Envelope
  <2>2. link' = link /\ (link # "up" => e.type = "error")
    BY <1>7, <2>1 DEF Refuse
  <2> QED
    BY <2>1, <2>2, DownAdded
<1>8. ASSUME NEW k \in {"text", "result"}, Emit(k) PROVE DownInv'
  <2>1. link = "up" /\ link' = link
    BY <1>8 DEF Emit, WireInv, Dead, Driving
  <2>2. PICK e \in Event : down' = Append(down, e) /\ e.type # "dropped"
    BY <1>8, Reported DEF Emit, EventKind, Envelope
  <2> QED
    BY <2>1, <2>2, DownAdded
<1>9. CASE EndTurn
  <2>1. link = "up" /\ link' = link
    BY <1>9 DEF EndTurn, WireInv, Dead, Driving
  <2>2. \A k \in {"error", "end"} : Envelope(k, drive) \in Event /\ Envelope(k, drive).type = k
    BY Enveloped DEF EventKind, Envelope
  <2>3. CASE down' = Append(down, Envelope("end", drive))
    BY <2>1, <2>2, <2>3, DownAdded
  <2>4. CASE down' = Append(Append(down, Envelope("error", drive)), Envelope("end", drive))
    BY <2>1, <2>2, <2>4, DownAddedTwo
  <2> QED
    BY <1>9, <2>3, <2>4, EndEffect
<1>10. CASE TaskDone
  BY <1>10 DEF TaskDone
<1>11. CASE Deliver
  <2>1. down # <<>> /\ down' = Tail(down) /\ link' = link
    BY <1>11 DEF Deliver
  <2>2. \A i \in DOMAIN down' : i + 1 \in DOMAIN down /\ down'[i] = down[i + 1]
    BY <2>1, EventTaken
  <2> QED
    BY <2>1, <2>2
<1>12. CASE Drop
  BY <1>12 DEF Drop, Cut, Tells
<1>13. CASE Dial
  BY <1>13 DEF Dial
<1>14. CASE Reopen
  BY <1>14 DEF Reopen, Tells
<1>15. CASE Close
  BY <1>15 DEF Close
<1>16. CASE CloseTimesOut
  BY <1>16 DEF CloseTimesOut
<1>17. ASSUME NEW m \in Msg, Arrive(m) PROVE DownInv'
  BY <1>17 DEF Arrive, Goes
<1>18. ASSUME NEW m \in Msg, Begin(m) PROVE DownInv'
  BY <1>18 DEF Begin, NewRenderer, Holds
<1>19. ASSUME NEW m \in Msg, BeginFails(m) PROVE DownInv'
  BY <1>19 DEF BeginFails, NewRenderer, Holds
<1>20. ASSUME NEW m \in Msg, TakeText(m) PROVE DownInv'
  BY <1>20 DEF TakeText, Takes, Rest, First
<1>21. ASSUME NEW m \in Msg, TakeResult(m) PROVE DownInv'
  BY <1>21 DEF TakeResult, Takes, Rest, First
<1>22. ASSUME NEW m \in Msg, TakeEnd(m) PROVE DownInv'
  BY <1>22 DEF TakeEnd, Takes, NoQueue, First
<1>23. ASSUME NEW m \in Msg, TakeError(m) PROVE DownInv'
  BY <1>23 DEF TakeError, Takes, NoQueue, First
<1>24. ASSUME NEW m \in Msg, CancelBeat(m) PROVE DownInv'
  BY <1>24 DEF CancelBeat, Goes
<1>25. ASSUME NEW m \in Msg, Deleted(m) PROVE DownInv'
  BY <1>25 DEF Deleted, Goes
<1>26. ASSUME NEW m \in Msg, DeleteFails(m) PROVE DownInv'
  BY <1>26 DEF DeleteFails, Leaves, NewRenderer
<1>27. ASSUME NEW m \in Msg, Posted(m) PROVE DownInv'
  BY <1>27 DEF Posted, Leaves, NewRenderer
<1>28. CASE BeatSends
  BY <1>28 DEF BeatSends
<1>29. CASE BeatSent
  BY <1>29 DEF BeatSent
<1>30. QED
  BY <1>1, <1>2, <1>3, <1>4, <1>5, <1>6, <1>7, <1>8, <1>9, <1>10, <1>11, <1>12, <1>13, <1>14, <1>15,
     <1>16, <1>17, <1>18, <1>19, <1>20, <1>21, <1>22, <1>23, <1>24, <1>25, <1>26, <1>27, <1>28,
     <1>29
     DEF Next, Take, Ending

-----------------------------------------------------------------------------
(* Ends of turns on their way.                                             *)

NoEnd == \A i \in DOMAIN down : down[i].type # "end"

\* Where nothing is sent, told or reported, nothing changes.
LEMMA EndsSame ==
  /\ UNCHANGED up => \A m : NotSent(m)' = NotSent(m)
  /\ UNCHANGED queue => Over' = Over /\ Ended' = Ended
  /\ UNCHANGED down => NoneSpoken' = NoneSpoken /\ NoEnd' = NoEnd
  /\ UNCHANGED <<down, drive>> /\ (Driving' => Driving) =>
       \A m : LastEnd(m) => LastEnd(m)'
<1>1. UNCHANGED up => \A m : NotSent(m)' = NotSent(m)
  BY DEF NotSent, Sent
<1>2. UNCHANGED queue => Over' = Over /\ Ended' = Ended
  BY DEF Over, Ended
<1>3. UNCHANGED down => NoneSpoken' = NoneSpoken /\ NoEnd' = NoEnd
  BY DEF NoneSpoken, NoEnd, Spoken
<1>4. UNCHANGED <<down, drive>> /\ (Driving' => Driving) =>
        \A m : LastEnd(m) => LastEnd(m)'
  BY DEF LastEnd, Spoken
<1> QED
  BY <1>1, <1>2, <1>3, <1>4

\* A request more.
LEMMA SentAdded ==
  ASSUME up \in Seq(Request), NEW r \in Request, up' = Append(up, r), NEW m,
         r.type # "send" \/ r.of # m, NotSent(m)
  PROVE  NotSent(m)'
BY RequestAdded DEF NotSent, Sent

\* The first request dispatched.
LEMMA SentTaken ==
  ASSUME up \in Seq(Request), up # <<>>, up' = Tail(up), NEW m, NotSent(m)
  PROVE  NotSent(m)'
BY RequestTaken DEF NotSent, Sent

\* The message that the runner sees was to be sent, and is no longer.
LEMMA SentSeen ==
  ASSUME up \in Seq(Request), SentOnce, up # <<>>, up' = Tail(up), NEW m,
         Head(up) = Envelope("send", m)
  PROVE  /\ m \in Msg /\ ~NotSent(m) /\ NotSent(m)'
         /\ task[m] \notin {"new", "waiting"} /\ drive # m
<1>1. /\ Len(up) \in Nat \ {0} /\ DOMAIN up = 1 .. Len(up)
      /\ DOMAIN up' = 1 .. Len(up) - 1
      /\ \A i \in DOMAIN up' : i + 1 \in DOMAIN up /\ up'[i] = up[i + 1]
      /\ 1 \in DOMAIN up /\ Head(up) = up[1]
  BY RequestTaken
<1>2. up[1].type = "send" /\ up[1].of = m
  BY <1>1 DEF Envelope
<1>3. m \in Msg
  BY <1>1, <1>2 DEF SentOnce
<1>4. Sent(1, m)
  BY <1>1, <1>2 DEF Sent
<1>5. /\ task[m] \notin {"new", "waiting"} /\ drive # m
      /\ \A j \in DOMAIN up : Sent(j, m) => j = 1
  BY <1>1, <1>3, <1>4 DEF SentOnce
<1>6. ASSUME NEW i \in DOMAIN up', up'[i].type = "send", up'[i].of = m
      PROVE  FALSE
  <2>1. Sent(i + 1, m)
    BY <1>1, <1>6 DEF Sent
  <2>2. i + 1 = 1
    BY <1>1, <1>5, <2>1
  <2> QED
    BY <1>1, <2>2
<1>7. NotSent(m)'
  BY <1>6 DEF NotSent, Sent
<1>8. ~NotSent(m)
  BY <1>1, <1>4 DEF NotSent
<1> QED
  BY <1>3, <1>5, <1>7, <1>8

\* An event more.
LEMMA SpokenAdded ==
  ASSUME down \in Seq(Event), NEW e \in Event, down' = Append(down, e), NEW m
  PROVE  /\ ~Spoken(e) /\ NoneSpoken => NoneSpoken'
         /\ ~Spoken(e) /\ LastEnd(m) /\ drive' = drive /\ (Driving' => Driving) => LastEnd(m)'
         /\ NoEnd /\ e.type # "end" => LastEnd(m)'
         /\ NoEnd /\ drive' = m /\ ~Driving' => LastEnd(m)'
<1> DEFINE n == Len(down)
<1>1. /\ n \in Nat /\ DOMAIN down = 1 .. n /\ DOMAIN down' = 1 .. n + 1
      /\ \A i \in DOMAIN down : i \in DOMAIN down' /\ down'[i] = down[i]
      /\ down'[n + 1] = e
  BY EventAdded
<1> HIDE DEF n
<1>2. \A i \in DOMAIN down' : \/ i \in DOMAIN down /\ down'[i] = down[i]
                              \/ i = n + 1 /\ down'[i] = e
  BY <1>1
<1>3. ~Spoken(e) /\ NoneSpoken => NoneSpoken'
  BY <1>2 DEF NoneSpoken
<1>4. ~Spoken(e) /\ LastEnd(m) /\ drive' = drive /\ (Driving' => Driving) => LastEnd(m)'
  BY <1>2 DEF LastEnd, Spoken
<1>5. NoEnd /\ e.type # "end" => LastEnd(m)'
  BY <1>2 DEF LastEnd, NoEnd
<1>6. NoEnd => \A i \in DOMAIN down' : down'[i].type = "end" => i = n + 1
  BY <1>2 DEF NoEnd
<1>7. \A j \in DOMAIN down' : ~(j > n + 1)
  BY <1>1
<1>8. NoEnd /\ drive' = m /\ ~Driving' => LastEnd(m)'
  BY <1>6, <1>7 DEF LastEnd
<1> QED
  BY <1>3, <1>4, <1>5, <1>8

\* Two events more.
LEMMA SpokenAddedTwo ==
  ASSUME down \in Seq(Event), NEW e \in Event, NEW f \in Event,
         down' = Append(Append(down, e), f), NEW m, NoEnd, drive' = m, ~Driving',
         e.type # "end" \/ ~Spoken(f)
  PROVE  LastEnd(m)'
<1> DEFINE n == Len(down)
<1>1. /\ n \in Nat /\ DOMAIN down = 1 .. n /\ DOMAIN down' = 1 .. n + 2
      /\ \A i \in DOMAIN down : i \in DOMAIN down' /\ down'[i] = down[i]
      /\ down'[n + 1] = e /\ down'[n + 2] = f
  BY EventsAdded
<1> HIDE DEF n
<1>2. \A i \in DOMAIN down' : \/ i \in DOMAIN down /\ down'[i] = down[i]
                              \/ i = n + 1 /\ down'[i] = e
                              \/ i = n + 2 /\ down'[i] = f
  BY <1>1
<1>3. \A i \in DOMAIN down' : down'[i].type = "end" => i = n + 1 \/ i = n + 2
  BY <1>2 DEF NoEnd
<1>4. \A j \in DOMAIN down' : ~(j > n + 2) /\ (j > n + 1 => j = n + 2)
  BY <1>1
<1>5. down'[n + 1].type = "end" => ~Spoken(f)
  BY <1>1
<1> QED
  BY <1>1, <1>3, <1>4, <1>5 DEF LastEnd

\* The first event delivered.
LEMMA SpokenTaken ==
  ASSUME down \in Seq(Event), down # <<>>, down' = Tail(down), NEW m
  PROVE  /\ NoneSpoken => NoneSpoken' /\ ~Spoken(Head(down))
         /\ LastEnd(m) /\ UNCHANGED <<drive, stage>> => LastEnd(m)'
         /\ LastEnd(m) /\ Head(down).type = "end" => drive = m /\ ~Driving /\ NoneSpoken'
<1> DEFINE n == Len(down)
<1>1. /\ n \in Nat \ {0} /\ DOMAIN down = 1 .. n
      /\ DOMAIN down' = 1 .. n - 1
      /\ \A i \in DOMAIN down' : i + 1 \in DOMAIN down /\ down'[i] = down[i + 1]
      /\ 1 \in DOMAIN down /\ Head(down) = down[1]
  BY EventTaken
<1> HIDE DEF n
<1>2. NoneSpoken => NoneSpoken' /\ ~Spoken(Head(down))
  BY <1>1 DEF NoneSpoken
<1>3. \A i, j \in DOMAIN down' : j > i => j + 1 > i + 1
  BY <1>1
<1>4. LastEnd(m) /\ UNCHANGED <<drive, stage>> => LastEnd(m)'
  BY <1>1, <1>3 DEF LastEnd, Driving
<1>5. \A i \in DOMAIN down' : i + 1 > 1
  BY <1>1
<1>6. LastEnd(m) /\ Head(down).type = "end" => drive = m /\ ~Driving /\ NoneSpoken'
  BY <1>1, <1>5 DEF LastEnd, NoneSpoken
<1> QED
  BY <1>2, <1>4, <1>6

\* An event for the turn, if it is there to be told.
LEMMA OverTold ==
  ASSUME TypeOK, NEW e \in Event, Tells(e)
  PROVE  /\ Over' => Over \/ e.type \in {"end", "dropped"}
         /\ Ended' => Ended \/ e.type = "end"
<1>1. CASE queue.on
  <2>1. /\ Len(queue.items) \in Nat /\ DOMAIN queue.items = 1 .. Len(queue.items)
        /\ DOMAIN queue'.items = 1 .. Len(queue.items) + 1
        /\ \A i \in DOMAIN queue.items :
             i \in DOMAIN queue'.items /\ queue'.items[i] = queue.items[i]
        /\ queue'.items[Len(queue.items) + 1] = e
    BY <1>1, ItemAdded
  <2>2. \A i \in DOMAIN queue'.items :
          queue'.items[i] = e \/ (i \in DOMAIN queue.items /\ queue'.items[i] = queue.items[i])
    BY <2>1
  <2> QED
    BY <2>2 DEF Over, Ended
<1>2. CASE ~queue.on
  BY <1>2 DEF Over, Ended, Tells
<1> QED
  BY <1>1, <1>2

\* An event that the turn takes.
LEMMA OverRead ==
  ASSUME TypeOK, queue.items # <<>>, Rest
  PROVE  (Over' => Over) /\ (Ended' => Ended)
BY ItemTaken DEF Over, Ended

\* The event that the turn takes, when it ends the turn.
LEMMA EndRead ==
  ASSUME TypeOK, queue.items # <<>>
  PROVE  /\ First.type \in {"end", "dropped"} => Over
         /\ First.type = "end" => Ended
         /\ First.type = "closed" => ~NoneTold
<1>1. 1 \in DOMAIN queue.items /\ First = queue.items[1]
  <2>1. queue.items \in Seq(Event)
    BY DEF TypeOK
  <2> QED
    BY <2>1 DEF First
<1> QED
  BY <1>1 DEF Over, Ended, NoneTold

\* The message that waits for events is the only one whose handler is past the lock.
LEMMA Alone ==
  ASSUME OneAtATime, NEW m \in Msg, task[m] = "streaming", NEW n \in Msg, Busy(n) \/ Holds(n)
  PROVE  n = m
BY DEF OneAtATime, Busy, Holds

\* While a turn runs it is that of the message that waits, and there is no end of it.
LEMMA Running ==
  ASSUME OneAtATime, TurnIsAwaited, NEW m \in Msg, task[m] = "streaming", EndIsLast(m), Driving
  PROVE  drive = m /\ ~Over /\ ~Ended /\ (tracked => NoEnd)
<1>1. drive = m
  BY Alone DEF TurnIsAwaited, Busy
<1>2. tracked => NoEnd
  BY DEF EndIsLast, LastEnd, NoEnd
<1>3. ~Over /\ (Ended => Over)
  BY DEF EndIsLast, Over, Ended
<1> QED
  BY <1>1, <1>2, <1>3

-----------------------------------------------------------------------------
(* Who waits, and what ends what it waits for.                             *)

\* A turn begins for a message that waits for it, and is over before that wait is.
LEMMA AwaitedKept ==
  ASSUME TypeOK, OneAtATime, WireInv, SentOnce, TurnIsAwaited,
         \A m \in Msg : task[m] = "streaming" => EndIsLast(m),
         [Next]_vars, clean'
  PROVE  TurnIsAwaited'
<1> USE DEF TypeOK, TurnIsAwaited, Driving, turnVars, stateVars, wireVars, runnerVars, beatVars,
        showVars, pastVars
<1>0. /\ UNCHANGED up => \A m : NotSent(m)' = NotSent(m)
      /\ closed => Dead
  BY EndsSame DEF WireInv
<1>1. CASE UNCHANGED vars
  BY <1>0, <1>1 DEF vars
<1>2. CASE HandleSend
  <2>1. PICK m0 \in Msg \cup {None} :
          /\ up # <<>> /\ up' = Tail(up) /\ Head(up) = Envelope("send", m0)
          /\ UNCHANGED <<task, closed>>
          /\ \/ UNCHANGED <<drive, stage>>
             \/ present # "no" /\ drive' = m0
             \/ stage' = "idle"
    BY <1>2, SendEffect
  <2>2. m0 \in Msg /\ ~NotSent(m0)
    BY <2>1, SentSeen
  <2>3. \A m \in Msg : NotSent(m) => NotSent(m)'
    BY <2>1, SentTaken
  <2>4. present # "no" => task[m0] = "streaming"
    BY <1>0, <2>2 DEF Dead
  <2> QED
    BY <2>1, <2>2, <2>3, <2>4
<1>3. CASE HandleOpen
  <2>1. /\ up # <<>> /\ up' = Tail(up) /\ UNCHANGED <<task, closed, drive>>
        /\ (Driving' => Driving)
    BY <1>3, RequestTaken DEF HandleOpen, Handles
  <2>2. \A m \in Msg : NotSent(m) => NotSent(m)'
    BY <2>1, SentTaken
  <2> QED
    BY <2>1, <2>2
<1>4. CASE StartReturns
  BY <1>0, <1>4 DEF StartReturns, Reports
<1>5. CASE HandleClose
  <2>1. /\ up # <<>> /\ up' = Tail(up) /\ UNCHANGED <<task, closed, drive>>
        /\ (Driving' => Driving)
    BY <1>5, CloseEffect
  <2>2. \A m \in Msg : NotSent(m) => NotSent(m)'
    BY <2>1, SentTaken
  <2> QED
    BY <2>1, <2>2
<1>6. CASE Reap
  BY <1>0, <1>6 DEF Reap, Stops, Reports
<1>7. CASE Refuse
  BY <1>0, <1>7 DEF Refuse, Reports
<1>8. ASSUME NEW k \in {"text", "result"}, Emit(k) PROVE TurnIsAwaited'
  BY <1>0, <1>8 DEF Emit, Reports
<1>9. CASE EndTurn
  BY <1>0, <1>9 DEF EndTurn, Reports
<1>10. CASE TaskDone
  BY <1>0, <1>10 DEF TaskDone
<1>11. CASE Deliver
  BY <1>0, <1>11 DEF Deliver, Tells
<1>12. CASE Drop
  <2>1. up' = <<>> /\ stage' = "idle"
    BY <1>12 DEF Drop, Cut
  <2>2. \A m \in Msg : NotSent(m)'
    BY <2>1 DEF NotSent
  <2> QED
    BY <2>1, <2>2
<1>13. CASE Dial
  BY <1>0, <1>13 DEF Dial
<1>14. CASE Reopen
  <2>1. UNCHANGED <<task, drive, stage>> /\ (closed => closed')
    BY <1>14 DEF Reopen
  <2>2. up' = up \/ up' = Append(up, Envelope("open", None))
    BY <1>14 DEF Reopen
  <2>3. Envelope("open", None) \in Request /\ Envelope("open", None).type # "send"
    BY Enveloped DEF Envelope
  <2>4. \A m \in Msg : NotSent(m) => NotSent(m)'
    BY <1>0, <2>2, <2>3, SentAdded
  <2> QED
    BY <2>1, <2>4
<1>15. CASE Close
  <2>1. UNCHANGED <<task, drive, stage, closed>> /\ up' = Append(up, Envelope("close", None))
    BY <1>15 DEF Close
  <2>2. Envelope("close", None) \in Request /\ Envelope("close", None).type # "send"
    BY Enveloped DEF Envelope
  <2>3. \A m \in Msg : NotSent(m) => NotSent(m)'
    BY <2>1, <2>2, SentAdded
  <2> QED
    BY <2>1, <2>3
<1>16. CASE CloseTimesOut
  BY <1>0, <1>16 DEF CloseTimesOut
<1>17. ASSUME NEW m \in Msg, Arrive(m) PROVE TurnIsAwaited'
  BY <1>0, <1>17 DEF Arrive, Goes
<1>18. ASSUME NEW m \in Msg, Begin(m) PROVE TurnIsAwaited'
  <2>1. /\ UNCHANGED <<drive, stage, closed>> /\ up' = Append(up, Envelope("send", m))
        /\ task' = [task EXCEPT ![m] = "streaming"]
    BY <1>18 DEF Begin, Goes
  <2>2. task'[m] = "streaming" /\ \A n \in Msg : n # m => task'[n] = task[n]
    BY <1>18, <2>1
  <2>3. Envelope("send", m) \in Request /\ Envelope("send", m).of = m
    BY <1>18, Enveloped DEF Envelope
  <2>4. \A n \in Msg : n # m /\ NotSent(n) => NotSent(n)'
    BY <2>1, <2>3, SentAdded
  <2> QED
    BY <2>1, <2>2, <2>4
<1>19. ASSUME NEW m \in Msg, BeginFails(m) PROVE TurnIsAwaited'
  BY <1>0, <1>19 DEF BeginFails, Goes, NewRenderer, Holds
<1>20. ASSUME NEW m \in Msg, TakeText(m) PROVE TurnIsAwaited'
  BY <1>0, <1>20 DEF TakeText, Takes, Rest, First
<1>21. ASSUME NEW m \in Msg, TakeResult(m) PROVE TurnIsAwaited'
  BY <1>0, <1>21 DEF TakeResult, Takes, Rest, First
<1>22. ASSUME NEW m \in Msg, TakeEnd(m) PROVE TurnIsAwaited'
  <2>1. /\ UNCHANGED <<drive, stage, closed>> /\ task[m] = "streaming" /\ queue.items # <<>>
        /\ First.type \in {"end", "closed"}
        /\ \A n \in Msg : n # m => task'[n] = task[n]
    BY <1>22 DEF TakeEnd, Takes, Goes
  <2>2. ~Driving /\ (NotSent(m) \/ closed)
    <3>1. CASE First.type = "end"
      BY <1>22, <2>1, <3>1, EndRead DEF EndIsLast, Driving
    <3>2. CASE First.type = "closed"
      <4>1. closed
        BY <2>1, <3>2, EndRead DEF WireInv
      <4> QED
        BY <1>0, <4>1 DEF Dead
    <3> QED
      BY <2>1, <3>1, <3>2
  <2>3. \A n \in Msg : NotSent(n)' = NotSent(n)
    BY <1>0, <1>22 DEF TakeEnd
  <2> QED
    BY <2>1, <2>2, <2>3
<1>23. ASSUME NEW m \in Msg, TakeError(m) PROVE TurnIsAwaited'
  <2>1. /\ UNCHANGED <<drive, stage, closed>> /\ task[m] = "streaming" /\ queue.items # <<>>
        /\ \A n \in Msg : n # m => task'[n] = task[n]
    BY <1>23 DEF TakeError, Takes, Goes
  <2>2. First.type = "dropped"
    BY <1>23 DEF TakeError
  <2>3. ~Driving /\ NotSent(m)
    BY <1>23, <2>1, <2>2, EndRead DEF EndIsLast, Driving
  <2>4. \A n \in Msg : NotSent(n)' = NotSent(n)
    BY <1>0, <1>23 DEF TakeError
  <2> QED
    BY <2>1, <2>3, <2>4
<1>24. ASSUME NEW m \in Msg, CancelBeat(m) PROVE TurnIsAwaited'
  BY <1>0, <1>24 DEF CancelBeat, Goes
<1>25. ASSUME NEW m \in Msg, Deleted(m) PROVE TurnIsAwaited'
  BY <1>0, <1>25 DEF Deleted, Goes
<1>26. ASSUME NEW m \in Msg, DeleteFails(m) PROVE TurnIsAwaited'
  BY <1>0, <1>26 DEF DeleteFails, Leaves, Goes, NewRenderer
<1>27. ASSUME NEW m \in Msg, Posted(m) PROVE TurnIsAwaited'
  BY <1>0, <1>27 DEF Posted, Leaves, Goes, NewRenderer
<1>28. CASE BeatSends
  BY <1>0, <1>28 DEF BeatSends
<1>29. CASE BeatSent
  BY <1>0, <1>29 DEF BeatSent
<1>30. QED
  BY <1>1, <1>2, <1>3, <1>4, <1>5, <1>6, <1>7, <1>8, <1>9, <1>10, <1>11, <1>12, <1>13, <1>14, <1>15,
     <1>16, <1>17, <1>18, <1>19, <1>20, <1>21, <1>22, <1>23, <1>24, <1>25, <1>26, <1>27, <1>28,
     <1>29
     DEF Next, Take, Ending

\* When a wait ends, nothing of a turn is left on the wire, nor comes while nobody waits.
LEMMA NothingKept ==
  ASSUME TypeOK, OneAtATime, WireInv, SentOnce, TurnIsAwaited, NothingOfTurns,
         \A m \in Msg : task[m] = "streaming" => EndIsLast(m),
         [Next]_vars, clean'
  PROVE  NothingOfTurns'
<1> USE DEF TypeOK, NothingOfTurns, turnVars, stateVars, wireVars, runnerVars, beatVars, showVars,
        pastVars
<1>0. /\ UNCHANGED down => NoneSpoken' = NoneSpoken
      /\ closed => Dead
  BY EndsSame DEF WireInv
<1>1. CASE UNCHANGED vars
  BY <1>0, <1>1 DEF vars
<1>2. CASE HandleSend
  <2>1. PICK m0 \in Msg \cup {None} :
          /\ up # <<>> /\ up' = Tail(up) /\ Head(up) = Envelope("send", m0)
          /\ UNCHANGED <<task, tracked>>
          /\ \/ down' = Append(down, Envelope("error", m0))
             \/ present # "no"
    BY <1>2, SendEffect
  <2>2. m0 \in Msg /\ ~NotSent(m0)
    BY <2>1, SentSeen
  <2>3. CASE down' = Append(down, Envelope("error", m0))
    <3>1. Envelope("error", m0) \in Event /\ ~Spoken(Envelope("error", m0))
      BY <2>1, Enveloped DEF EventKind, Envelope, Spoken
    <3>2. NoneSpoken => NoneSpoken'
      BY <2>3, <3>1, SpokenAdded
    <3> QED
      BY <2>1, <3>2
  <2>4. CASE present # "no"
    <3>1. task[m0] = "streaming"
      BY <1>0, <2>2, <2>4 DEF Dead, TurnIsAwaited
    <3> QED
      BY <2>1, <2>2, <3>1
  <2> QED
    BY <2>1, <2>3, <2>4
<1>3. CASE HandleOpen
  <2>1. UNCHANGED <<task, tracked>>
    BY <1>3 DEF HandleOpen
  <2>2. down' = down \/ down' = Append(down, Envelope("error", None))
    BY <1>3, Reported DEF HandleOpen, EventKind
  <2>3. Envelope("error", None) \in Event /\ ~Spoken(Envelope("error", None))
    BY Enveloped DEF EventKind, Envelope, Spoken
  <2>4. NoneSpoken => NoneSpoken'
    BY <1>0, <2>2, <2>3, SpokenAdded
  <2> QED
    BY <2>1, <2>4
<1>4. CASE StartReturns
  <2>1. UNCHANGED <<task, tracked>>
    BY <1>4 DEF StartReturns
  <2>2. PICK e \in Event : ~Spoken(e) /\ (down' = down \/ down' = Append(down, e))
    BY <1>4, Reported DEF StartReturns, EventKind, Envelope, Spoken
  <2>3. NoneSpoken => NoneSpoken'
    BY <1>0, <2>2, SpokenAdded
  <2> QED
    BY <2>1, <2>3
<1>5. CASE HandleClose
  <2>1. /\ UNCHANGED <<task, tracked>>
        /\ down' = down \/ down' = Append(down, Envelope("closed", None)) \/ Driving
    BY <1>5, CloseEffect
  <2>2. CASE Driving
    BY <2>1, <2>2 DEF TurnIsAwaited
  <2>3. CASE ~Driving
    <3>1. Envelope("closed", None) \in Event /\ ~Spoken(Envelope("closed", None))
      BY Enveloped DEF EventKind, Envelope, Spoken
    <3>2. NoneSpoken => NoneSpoken'
      BY <1>0, <2>1, <2>3, <3>1, SpokenAdded
    <3> QED
      BY <2>1, <3>2
  <2> QED
    BY <2>2, <2>3
<1>6. CASE Reap
  <2>1. /\ UNCHANGED <<task, tracked>>
        /\ down' = Append(down, Envelope("closed", None)) \/ Driving
    BY <1>6, ReapEffect
  <2>2. CASE Driving
    BY <2>1, <2>2 DEF TurnIsAwaited
  <2>3. CASE ~Driving
    <3>1. Envelope("closed", None) \in Event /\ ~Spoken(Envelope("closed", None))
      BY Enveloped DEF EventKind, Envelope, Spoken
    <3>2. NoneSpoken => NoneSpoken'
      BY <1>0, <2>1, <2>3, <3>1, SpokenAdded
    <3> QED
      BY <2>1, <3>2
  <2> QED
    BY <2>2, <2>3
<1>7. CASE Refuse
  <2>1. UNCHANGED <<task, tracked>>
    BY <1>7 DEF Refuse
  <2>2. PICK e \in Event : ~Spoken(e) /\ (down' = down \/ down' = Append(down, e))
    BY <1>7, Reported DEF Refuse, EventKind, Envelope, Spoken
  <2>3. NoneSpoken => NoneSpoken'
    BY <1>0, <2>2, SpokenAdded
  <2> QED
    BY <2>1, <2>3
<1>8. ASSUME NEW k \in {"text", "result"}, Emit(k) PROVE NothingOfTurns'
  BY <1>8 DEF Emit, TurnIsAwaited
<1>9. CASE EndTurn
  BY <1>9 DEF EndTurn, TurnIsAwaited
<1>10. CASE TaskDone
  BY <1>0, <1>10 DEF TaskDone
<1>11. CASE Deliver
  <2>1. UNCHANGED task /\ (tracked' => tracked) /\ down # <<>> /\ down' = Tail(down)
    BY <1>11 DEF Deliver
  <2>2. NoneSpoken => NoneSpoken'
    BY <2>1, SpokenTaken
  <2> QED
    BY <2>1, <2>2
<1>12. CASE Drop
  <2>1. down' = <<>>
    BY <1>12 DEF Drop, Cut
  <2> QED
    BY <2>1 DEF NoneSpoken
<1>13. CASE Dial
  BY <1>0, <1>13 DEF Dial
<1>14. CASE Reopen
  <2>1. UNCHANGED <<task, down>> /\ (tracked' => tracked)
    BY <1>14 DEF Reopen
  <2> QED
    BY <1>0, <2>1
<1>15. CASE Close
  BY <1>0, <1>15 DEF Close
<1>16. CASE CloseTimesOut
  BY <1>0, <1>16 DEF CloseTimesOut
<1>17. ASSUME NEW m \in Msg, Arrive(m) PROVE NothingOfTurns'
  BY <1>0, <1>17 DEF Arrive, Goes
<1>18. ASSUME NEW m \in Msg, Begin(m) PROVE NothingOfTurns'
  <2>1. task'[m] = "streaming"
    BY <1>18 DEF Begin, Goes
  <2> QED
    BY <1>18, <2>1
<1>19. ASSUME NEW m \in Msg, BeginFails(m) PROVE NothingOfTurns'
  BY <1>0, <1>19 DEF BeginFails, Goes, NewRenderer, Holds
<1>20. ASSUME NEW m \in Msg, TakeText(m) PROVE NothingOfTurns'
  BY <1>0, <1>20 DEF TakeText, Takes, Rest, First
<1>21. ASSUME NEW m \in Msg, TakeResult(m) PROVE NothingOfTurns'
  BY <1>0, <1>21 DEF TakeResult, Takes, Rest, First
<1>22. ASSUME NEW m \in Msg, TakeEnd(m) PROVE NothingOfTurns'
  <2>1. /\ UNCHANGED tracked /\ task[m] = "streaming" /\ queue.items # <<>>
        /\ First.type \in {"end", "closed"}
    BY <1>22 DEF TakeEnd, Takes
  <2>2. tracked => NoneSpoken
    <3>1. CASE First.type = "end"
      BY <1>22, <2>1, <3>1, EndRead DEF EndIsLast
    <3>2. CASE First.type = "closed"
      BY <2>1, <3>2, EndRead DEF WireInv
    <3> QED
      BY <2>1, <3>1, <3>2
  <2>3. NoneSpoken' = NoneSpoken
    BY <1>0, <1>22 DEF TakeEnd
  <2> QED
    BY <2>1, <2>2, <2>3
<1>23. ASSUME NEW m \in Msg, TakeError(m) PROVE NothingOfTurns'
  <2>1. /\ UNCHANGED tracked /\ task[m] = "streaming" /\ queue.items # <<>>
        /\ First.type = "dropped"
    BY <1>23 DEF TakeError, Takes
  <2>2. tracked => NoneSpoken
    BY <1>23, <2>1, EndRead DEF EndIsLast
  <2>3. NoneSpoken' = NoneSpoken
    BY <1>0, <1>23 DEF TakeError
  <2> QED
    BY <2>1, <2>2, <2>3
<1>24. ASSUME NEW m \in Msg, CancelBeat(m) PROVE NothingOfTurns'
  BY <1>0, <1>24 DEF CancelBeat, Goes
<1>25. ASSUME NEW m \in Msg, Deleted(m) PROVE NothingOfTurns'
  BY <1>0, <1>25 DEF Deleted, Goes
<1>26. ASSUME NEW m \in Msg, DeleteFails(m) PROVE NothingOfTurns'
  BY <1>0, <1>26 DEF DeleteFails, Leaves, Goes, NewRenderer
<1>27. ASSUME NEW m \in Msg, Posted(m) PROVE NothingOfTurns'
  BY <1>0, <1>27 DEF Posted, Leaves, Goes, NewRenderer
<1>28. CASE BeatSends
  BY <1>0, <1>28 DEF BeatSends
<1>29. CASE BeatSent
  BY <1>0, <1>29 DEF BeatSent
<1>30. QED
  BY <1>1, <1>2, <1>3, <1>4, <1>5, <1>6, <1>7, <1>8, <1>9, <1>10, <1>11, <1>12, <1>13, <1>14, <1>15,
     <1>16, <1>17, <1>18, <1>19, <1>20, <1>21, <1>22, <1>23, <1>24, <1>25, <1>26, <1>27, <1>28,
     <1>29
     DEF Next, Take, Ending

\* An end comes last, while the message waits.
LEMMA EndsKept ==
  ASSUME TypeOK, OneAtATime, WireInv, DownInv, SentOnce, TurnIsAwaited, [Next]_vars,
         NEW w \in Msg, task[w] = "streaming", task'[w] = "streaming", EndIsLast(w)
  PROVE  EndIsLast(w)'
<1> USE DEF TypeOK, EndIsLast, turnVars, stateVars, wireVars, runnerVars, beatVars, showVars,
        pastVars
<1>0. /\ UNCHANGED up => NotSent(w)' = NotSent(w)
      /\ UNCHANGED queue => Over' = Over /\ Ended' = Ended
      /\ UNCHANGED down => NoneSpoken' = NoneSpoken /\ NoEnd' = NoEnd
      /\ UNCHANGED <<down, drive>> /\ (Driving' => Driving) => (LastEnd(w) => LastEnd(w)')
      /\ stage = stage' => Driving' = Driving
      /\ closed => Dead
      /\ \A n \in Msg : Busy(n) \/ Holds(n) => n = w
  BY EndsSame, Alone DEF WireInv, Driving
<1>1. CASE UNCHANGED vars
  BY <1>0, <1>1 DEF vars
<1>2. CASE HandleSend
  <2>1. PICK m0 \in Msg \cup {None} :
          /\ up # <<>> /\ up' = Tail(up) /\ Head(up) = Envelope("send", m0)
          /\ UNCHANGED <<queue, closed, tracked>>
          /\ \/ UNCHANGED <<drive, stage>> /\ down' = Append(down, Envelope("error", m0))
             \/ present # "no" /\ drive' = m0 /\ UNCHANGED down
             \/ /\ present # "no" /\ drive' = m0 /\ stage' = "idle"
                /\ down' = Append(Append(down, Envelope("error", m0)), Envelope("end", m0))
    BY <1>2, SendEffect
  <2>2. m0 \in Msg /\ ~NotSent(m0) /\ NotSent(m0)' /\ drive # m0
    BY <2>1, SentSeen
  <2>3. NotSent(w) => NotSent(w)'
    BY <2>1, SentTaken
  <2>4. Envelope("error", m0) \in Event /\ Envelope("error", m0).type = "error"
    BY <2>2, Enveloped DEF EventKind, Envelope
  <2>5. Envelope("end", m0) \in Event /\ Envelope("end", m0).type = "end"
    BY <2>2, Enveloped DEF EventKind, Envelope
  <2>6. CASE UNCHANGED <<drive, stage>> /\ down' = Append(down, Envelope("error", m0))
    <3>1. (NoneSpoken => NoneSpoken') /\ (LastEnd(w) => LastEnd(w)')
      BY <2>4, <2>6, SpokenAdded DEF Spoken, Driving
    <3> QED
      BY <1>0, <2>1, <2>3, <2>6, <3>1 DEF Driving
  <2>7. CASE present # "no" /\ drive' = m0
    <3>1. m0 = w
      BY <1>0, <2>2, <2>7 DEF Dead, TurnIsAwaited, Busy
    <3>2. ~Over /\ ~Ended /\ ~Over' /\ ~Ended'
      BY <1>0, <2>1, <2>2, <3>1
    <3>3. tracked => NoEnd
      BY <2>2, <3>1 DEF LastEnd, NoEnd
    <3>4. CASE UNCHANGED down
      <4>1. tracked => LastEnd(w)'
        BY <1>0, <3>3, <3>4 DEF LastEnd, NoEnd
      <4> QED
        BY <2>1, <3>2, <4>1
    <3>5. CASE /\ stage' = "idle"
               /\ down' = Append(Append(down, Envelope("error", m0)), Envelope("end", m0))
      <4>1. tracked => LastEnd(w)'
        BY <2>4, <2>5, <2>7, <3>1, <3>3, <3>5, SpokenAddedTwo DEF Driving
      <4> QED
        BY <2>1, <3>2, <4>1
    <3>6. (UNCHANGED down) \/ (/\ stage' = "idle"
               /\ down' = Append(Append(down, Envelope("error", m0)), Envelope("end", m0)))
      <4>1. drive' # drive
        BY <2>2, <2>7
      <4> QED
        BY <2>1, <4>1
    <3> QED
      BY <3>4, <3>5, <3>6
  <2> QED
    BY <2>1, <2>6, <2>7
<1>3. CASE HandleOpen
  <2>1. /\ up # <<>> /\ up' = Tail(up)
        /\ UNCHANGED <<queue, tracked, drive, stage>>
    BY <1>3, RequestTaken DEF HandleOpen, Handles
  <2>2. down' = down \/ down' = Append(down, Envelope("error", None))
    BY <1>3, Reported DEF HandleOpen, EventKind
  <2>3. Envelope("error", None) \in Event /\ ~Spoken(Envelope("error", None))
    BY Enveloped DEF EventKind, Envelope, Spoken
  <2>4. NotSent(w) => NotSent(w)'
    BY <2>1, SentTaken
  <2>5. (NoneSpoken => NoneSpoken') /\ (LastEnd(w) => LastEnd(w)')
    <3>1. CASE down' = down
      BY <1>0, <2>1, <3>1
    <3>2. CASE down' = Append(down, Envelope("error", None))
      BY <1>0, <2>1, <2>3, <3>2, SpokenAdded
    <3> QED
      BY <2>2, <3>1, <3>2
  <2> QED
    BY <1>0, <2>1, <2>4, <2>5 DEF Driving
<1>4. CASE StartReturns
  <2>1. UNCHANGED <<queue, tracked, up, drive, stage>>
    BY <1>4 DEF StartReturns
  <2>2. PICK e \in Event : ~Spoken(e) /\ down' = Append(down, e)
    BY <1>4, Reported DEF StartReturns, EventKind, Envelope, Spoken
  <2>3. (NoneSpoken => NoneSpoken') /\ (LastEnd(w) => LastEnd(w)')
    BY <2>1, <2>2, SpokenAdded DEF Driving
  <2> QED
    BY <1>0, <2>1, <2>3 DEF Driving
<1>5. CASE HandleClose
  <2>1. up # <<>> /\ up' = Tail(up) /\ UNCHANGED <<queue, tracked, drive>>
    BY <1>5, CloseEffect
  <2>2. NotSent(w) => NotSent(w)'
    BY <2>1, SentTaken
  <2>3. Envelope("closed", None) \in Event /\ ~Spoken(Envelope("closed", None))
    BY Enveloped DEF EventKind, Envelope, Spoken
  <2>4. CASE /\ ~Driving /\ ~Driving'
             /\ down' = down \/ down' = Append(down, Envelope("closed", None))
    <3>1. (NoneSpoken => NoneSpoken') /\ (LastEnd(w) => LastEnd(w)')
      <4>1. CASE down' = down
        BY <2>1, <2>4, <4>1 DEF NoneSpoken, LastEnd
      <4>2. CASE down' = Append(down, Envelope("closed", None))
        BY <2>1, <2>3, <2>4, <4>2, SpokenAdded
      <4> QED
        BY <2>4, <4>1, <4>2
    <3> QED
      BY <1>0, <2>1, <2>2, <2>4, <3>1
  <2>5. CASE /\ Driving /\ ~Driving'
             /\ down' = Append(Append(down, Envelope("end", drive)), Envelope("closed", None))
    <3>1. drive = w /\ ~Over /\ ~Ended /\ (tracked => NoEnd)
      BY <2>5, Running
    <3>2. Envelope("end", drive) \in Event
      BY Enveloped DEF EventKind
    <3>3. tracked => LastEnd(w)'
      BY <2>1, <2>3, <2>5, <3>1, <3>2, SpokenAddedTwo
    <3> QED
      BY <1>0, <2>1, <3>1, <3>3
  <2>6. CASE Driving /\ UNCHANGED <<down, stage>>
    BY <1>0, <2>1, <2>2, <2>6 DEF Driving
  <2> QED
    BY <1>5, <2>4, <2>5, <2>6, CloseEffect DEF Driving
<1>6. CASE Reap
  <2>1. UNCHANGED <<queue, tracked, up, drive>> /\ ~Driving'
    BY <1>6, ReapEffect DEF Driving
  <2>2. Envelope("closed", None) \in Event /\ ~Spoken(Envelope("closed", None))
    BY Enveloped DEF EventKind, Envelope, Spoken
  <2>3. CASE ~Driving /\ down' = Append(down, Envelope("closed", None))
    <3>1. (NoneSpoken => NoneSpoken') /\ (LastEnd(w) => LastEnd(w)')
      BY <2>1, <2>2, <2>3, SpokenAdded
    <3> QED
      BY <1>0, <2>1, <2>3, <3>1
  <2>4. CASE /\ Driving
             /\ down' = Append(Append(down, Envelope("end", drive)), Envelope("closed", None))
    <3>1. drive = w /\ ~Over /\ ~Ended /\ (tracked => NoEnd)
      BY <2>4, Running
    <3>2. Envelope("end", drive) \in Event
      BY Enveloped DEF EventKind
    <3>3. tracked => LastEnd(w)'
      BY <2>1, <2>2, <2>4, <3>1, <3>2, SpokenAddedTwo
    <3> QED
      BY <1>0, <2>1, <3>1, <3>3
  <2> QED
    BY <1>6, <2>3, <2>4, ReapEffect
<1>7. CASE Refuse
  <2>1. UNCHANGED <<queue, tracked, up, drive, stage>>
    BY <1>7 DEF Refuse
  <2>2. PICK e \in Event : ~Spoken(e) /\ down' = Append(down, e)
    BY <1>7, Reported DEF Refuse, EventKind, Envelope, Spoken
  <2>3. (NoneSpoken => NoneSpoken') /\ (LastEnd(w) => LastEnd(w)')
    BY <2>1, <2>2, SpokenAdded DEF Driving
  <2> QED
    BY <1>0, <2>1, <2>3 DEF Driving
<1>8. ASSUME NEW k \in {"text", "result"}, Emit(k) PROVE EndIsLast(w)'
  <2>1. Driving /\ UNCHANGED <<queue, tracked, up, drive, stage>>
    BY <1>8 DEF Emit
  <2>2. PICK e \in Event : e.type # "end" /\ down' = Append(down, e)
    BY <1>8, Reported DEF Emit, EventKind, Envelope
  <2>3. drive = w /\ ~Over /\ ~Ended /\ (tracked => NoEnd)
    BY <2>1, Running
  <2>4. tracked => LastEnd(w)'
    BY <2>2, <2>3, SpokenAdded
  <2> QED
    BY <1>0, <2>1, <2>3, <2>4
<1>9. CASE EndTurn
  <2>1. Driving /\ ~Driving' /\ UNCHANGED <<queue, tracked, up, drive>>
    BY <1>9, EndEffect DEF Driving
  <2>2. drive = w /\ ~Over /\ ~Ended /\ (tracked => NoEnd)
    BY <2>1, Running
  <2>3. \A k \in {"error", "end"} : Envelope(k, drive) \in Event /\ Envelope(k, drive).type = k
    BY Enveloped DEF EventKind, Envelope
  <2>4. tracked => LastEnd(w)'
    <3>1. CASE down' = Append(down, Envelope("end", drive))
      BY <2>1, <2>2, <2>3, <3>1, SpokenAdded
    <3>2. CASE down' = Append(Append(down, Envelope("error", drive)), Envelope("end", drive))
      BY <2>1, <2>2, <2>3, <3>2, SpokenAddedTwo
    <3> QED
      BY <1>9, <3>1, <3>2, EndEffect
  <2> QED
    BY <1>0, <2>1, <2>2, <2>4
<1>10. CASE TaskDone
  BY <1>0, <1>10 DEF TaskDone, Driving
<1>11. CASE Deliver
  <2>1. /\ UNCHANGED <<up, drive, stage>> /\ (tracked' => tracked)
        /\ down # <<>> /\ down' = Tail(down)
    BY <1>11 DEF Deliver
  <2>2. /\ NoneSpoken => NoneSpoken'
        /\ LastEnd(w) => LastEnd(w)'
        /\ LastEnd(w) /\ Head(down).type = "end" => drive = w /\ ~Driving /\ NoneSpoken'
    BY <2>1, SpokenTaken
  <2>3. CASE UNCHANGED queue
    BY <1>0, <2>1, <2>2, <2>3 DEF Driving
  <2>4. CASE tracked /\ Tells(Head(down))
    <3>1. Head(down) \in Event /\ Head(down).type # "dropped"
      BY <2>1, EventTaken DEF DownInv
    <3>2. /\ Over' => Over \/ Head(down).type = "end"
          /\ Ended' => Ended \/ Head(down).type = "end"
      BY <2>4, <3>1, OverTold
    <3>3. drive = w => NotSent(w)
      BY DEF SentOnce, NotSent
    <3> QED
      BY <1>0, <2>1, <2>2, <2>4, <3>2, <3>3 DEF Driving
  <2> QED
    BY <1>11, <2>3, <2>4 DEF Deliver
<1>12. CASE Drop
  <2>1. up' = <<>> /\ down' = <<>> /\ stage' = "idle" /\ UNCHANGED drive
    BY <1>12 DEF Drop, Cut
  <2>2. ~Driving' /\ NotSent(w)' /\ NoneSpoken' /\ LastEnd(w)'
    BY <2>1 DEF Driving, NotSent, NoneSpoken, LastEnd
  <2>3. Ended' => Ended
    <3>1. Envelope("dropped", None) \in Event /\ Envelope("dropped", None).type # "end"
      BY Enveloped DEF EventKind, Envelope
    <3>2. Tells(Envelope("dropped", None)) => (Ended' => Ended)
      BY <3>1, OverTold
    <3> QED
      BY <1>0, <1>12, <3>2 DEF Drop
  <2> QED
    BY <2>1, <2>2, <2>3
<1>13. CASE Dial
  BY <1>0, <1>13 DEF Dial
<1>14. CASE Reopen
  <2>1. UNCHANGED <<drive, stage, down>> /\ (tracked' => tracked)
    BY <1>14 DEF Reopen
  <2>2. up' = up \/ up' = Append(up, Envelope("open", None))
    BY <1>14 DEF Reopen
  <2>3. Envelope("open", None) \in Request /\ Envelope("open", None).type # "send"
    BY Enveloped DEF Envelope
  <2>4. NotSent(w) => NotSent(w)'
    BY <1>0, <2>2, <2>3, SentAdded
  <2>5. (Over' => Over) /\ (Ended' => Ended)
    <3>1. Envelope("closed", None) \in Event /\ Envelope("closed", None).type = "closed"
      BY Enveloped DEF EventKind, Envelope
    <3>2. Tells(Envelope("closed", None)) => (Over' => Over) /\ (Ended' => Ended)
      BY <3>1, OverTold
    <3> QED
      BY <1>0, <1>14, <3>2 DEF Reopen
  <2> QED
    BY <1>0, <2>1, <2>4, <2>5 DEF Driving
<1>15. CASE Close
  <2>1. /\ UNCHANGED <<drive, stage, down, queue, tracked>>
        /\ up' = Append(up, Envelope("close", None))
    BY <1>15 DEF Close
  <2>2. Envelope("close", None) \in Request /\ Envelope("close", None).type # "send"
    BY Enveloped DEF Envelope
  <2>3. NotSent(w) => NotSent(w)'
    BY <2>1, <2>2, SentAdded
  <2> QED
    BY <1>0, <2>1, <2>3 DEF Driving
<1>16. CASE CloseTimesOut
  BY <1>0, <1>16 DEF CloseTimesOut
<1>17. ASSUME NEW m \in Msg, Arrive(m) PROVE EndIsLast(w)'
  BY <1>0, <1>17 DEF Arrive, Goes
<1>18. ASSUME NEW m \in Msg, Begin(m) PROVE EndIsLast(w)'
  <2>1. task[m] = "waiting" /\ Holds(m)
    BY <1>18 DEF Begin, Goes
  <2> QED
    BY <1>0, <1>18, <2>1
<1>19. ASSUME NEW m \in Msg, BeginFails(m) PROVE EndIsLast(w)'
  BY <1>0, <1>19 DEF BeginFails, Goes, NewRenderer, Holds
<1>20. ASSUME NEW m \in Msg, TakeText(m) PROVE EndIsLast(w)'
  <2>1. queue.items # <<>> /\ Rest /\ UNCHANGED <<drive, stage, down, up, tracked>>
    BY <1>20 DEF TakeText, Takes
  <2>2. (Over' => Over) /\ (Ended' => Ended)
    BY <2>1, OverRead
  <2> QED
    BY <1>0, <2>1, <2>2 DEF Driving
<1>21. ASSUME NEW m \in Msg, TakeResult(m) PROVE EndIsLast(w)'
  <2>1. queue.items # <<>> /\ Rest /\ UNCHANGED <<drive, stage, down, up, tracked>>
    BY <1>21 DEF TakeResult, Takes
  <2>2. (Over' => Over) /\ (Ended' => Ended)
    BY <2>1, OverRead
  <2> QED
    BY <1>0, <2>1, <2>2 DEF Driving
<1>22. ASSUME NEW m \in Msg, TakeEnd(m) PROVE EndIsLast(w)'
  <2>1. Busy(m) /\ task'[m] = "ending"
    BY <1>22 DEF TakeEnd, Takes, Goes, Busy
  <2> QED
    BY <1>0, <1>22, <2>1
<1>23. ASSUME NEW m \in Msg, TakeError(m) PROVE EndIsLast(w)'
  <2>1. Busy(m) /\ task'[m] = "ending"
    BY <1>23 DEF TakeError, Takes, Goes, Busy
  <2> QED
    BY <1>0, <1>23, <2>1
<1>24. ASSUME NEW m \in Msg, CancelBeat(m) PROVE EndIsLast(w)'
  BY <1>0, <1>24 DEF CancelBeat, Goes
<1>25. ASSUME NEW m \in Msg, Deleted(m) PROVE EndIsLast(w)'
  BY <1>0, <1>25 DEF Deleted, Goes
<1>26. ASSUME NEW m \in Msg, DeleteFails(m) PROVE EndIsLast(w)'
  BY <1>0, <1>26 DEF DeleteFails, Leaves, Goes, NewRenderer
<1>27. ASSUME NEW m \in Msg, Posted(m) PROVE EndIsLast(w)'
  BY <1>0, <1>27 DEF Posted, Leaves, Goes, NewRenderer
<1>28. CASE BeatSends
  BY <1>0, <1>28 DEF BeatSends
<1>29. CASE BeatSent
  BY <1>0, <1>29 DEF BeatSent
<1>30. QED
  BY <1>1, <1>2, <1>3, <1>4, <1>5, <1>6, <1>7, <1>8, <1>9, <1>10, <1>11, <1>12, <1>13, <1>14, <1>15,
     <1>16, <1>17, <1>18, <1>19, <1>20, <1>21, <1>22, <1>23, <1>24, <1>25, <1>26, <1>27, <1>28,
     <1>29
     DEF Next, Take, Ending

-----------------------------------------------------------------------------
(* Texts on their way.                                                     *)

\* Where nothing is told, reported or shown, nothing changes.
LEMMA TextsSame ==
  /\ UNCHANGED buffer => \A m : OfBuffer(m)' = OfBuffer(m)
  /\ UNCHANGED queue => Undropped' = Undropped /\ \A m : OfItems(m)' = OfItems(m)
  /\ UNCHANGED down => \A m : OfDown(m)' = OfDown(m)
<1>1. UNCHANGED buffer => \A m : OfBuffer(m)' = OfBuffer(m)
  BY DEF OfBuffer
<1>2. UNCHANGED queue => Undropped' = Undropped /\ \A m : OfItems(m)' = OfItems(m)
  BY DEF OfItems, Undropped
<1>3. UNCHANGED down => \A m : OfDown(m)' = OfDown(m)
  BY DEF OfDown
<1> QED
  BY <1>1, <1>2, <1>3

\* An event more.
LEMMA TextAdded ==
  ASSUME down \in Seq(Event), NEW e \in Event, down' = Append(down, e), NEW m,
         e.type = "text" => e.of = m, OfDown(m)
  PROVE  OfDown(m)'
<1>1. \A i \in DOMAIN down' : down'[i] = e \/ (i \in DOMAIN down /\ down'[i] = down[i])
  BY EventAdded
<1> QED
  BY <1>1 DEF OfDown

\* Two events more, neither a text.
LEMMA TextAddedTwo ==
  ASSUME down \in Seq(Event), NEW e \in Event, NEW f \in Event,
         down' = Append(Append(down, e), f), e.type # "text", f.type # "text", NEW m, OfDown(m)
  PROVE  OfDown(m)'
<1> DEFINE s == Append(down, e)
<1>1. s \in Seq(Event) /\ \A i \in DOMAIN s : s[i] = e \/ (i \in DOMAIN down /\ s[i] = down[i])
  OBVIOUS
<1>2. \A i \in DOMAIN down' : down'[i] = f \/ (i \in DOMAIN s /\ down'[i] = s[i])
  OBVIOUS
<1> HIDE DEF s
<1> QED
  BY <1>1, <1>2 DEF OfDown

\* The first event delivered.
LEMMA TextTaken ==
  ASSUME down \in Seq(Event), down # <<>>, down' = Tail(down), NEW m, OfDown(m)
  PROVE  OfDown(m)' /\ (Head(down).type = "text" => Head(down).of = m)
BY EventTaken DEF OfDown

\* An event for the turn, if it is there to be told.
LEMMA TextTold ==
  ASSUME TypeOK, NEW e \in Event, Tells(e), queue.on
  PROVE  /\ Undropped' => Undropped /\ e.type # "dropped"
         /\ \A m : OfItems(m) /\ (e.type = "text" => e.of = m) => OfItems(m)'
<1>1. /\ Len(queue.items) \in Nat /\ DOMAIN queue.items = 1 .. Len(queue.items)
      /\ DOMAIN queue'.items = 1 .. Len(queue.items) + 1
      /\ \A i \in DOMAIN queue.items :
           i \in DOMAIN queue'.items /\ queue'.items[i] = queue.items[i]
      /\ queue'.items[Len(queue.items) + 1] = e
  BY ItemAdded
<1>2. \A i \in DOMAIN queue'.items :
        queue'.items[i] = e \/ (i \in DOMAIN queue.items /\ queue'.items[i] = queue.items[i])
  BY <1>1
<1>3. Undropped' => Undropped /\ e.type # "dropped"
  BY <1>1 DEF Undropped
<1>4. \A m : OfItems(m) /\ (e.type = "text" => e.of = m) => OfItems(m)'
  BY <1>2 DEF OfItems
<1> QED
  BY <1>3, <1>4

\* An event that the turn takes.
LEMMA TextRead ==
  ASSUME TypeOK, queue.items # <<>>, Rest
  PROVE  /\ First.type # "dropped" => (Undropped' => Undropped)
         /\ \A m : OfItems(m) => OfItems(m)' /\ (First.type = "text" => First.of = m)
<1>1. /\ Len(queue.items) \in Nat \ {0} /\ DOMAIN queue.items = 1 .. Len(queue.items)
      /\ DOMAIN queue'.items = 1 .. Len(queue.items) - 1
      /\ \A i \in DOMAIN queue'.items :
           i + 1 \in DOMAIN queue.items /\ queue'.items[i] = queue.items[i + 1]
      /\ 1 \in DOMAIN queue.items /\ First = queue.items[1]
  BY ItemTaken
<1>2. \A i \in DOMAIN queue.items :
        i = 1 \/ (i - 1 \in DOMAIN queue'.items /\ queue'.items[i - 1] = queue.items[i])
  BY <1>1
<1>3. First.type # "dropped" => (Undropped' => Undropped)
  BY <1>1, <1>2 DEF Undropped
<1>4. \A m : OfItems(m) => OfItems(m)' /\ (First.type = "text" => First.of = m)
  BY <1>1 DEF OfItems
<1> QED
  BY <1>3, <1>4

\* Read after the rest, what is neither text nor result changes nothing.
LEMMA ReadsOn ==
  ASSUME NEW q \in Seq(Event), NEW e \in Event, e.type \notin {"text", "result"},
         NEW a \in Nat, NEW s \in Nat, Reads(q, a, s, s)
  PROVE  Reads(Append(q, e), a, s, s)
<1>1. After(s, e) = s
  BY DEF After
<1>2. Reads(Append(q, e), a, After(s, e), s)
  BY <1>1, ReadsAdded
<1> QED
  BY <1>1, <1>2

-----------------------------------------------------------------------------
(* The text that waits for its message.                                    *)

\* And no text of another turn comes, while the message waits.
LEMMA OwnKept ==
  ASSUME TypeOK, OneAtATime, WireInv, DownInv, SentOnce, TurnIsAwaited, [Next]_vars,
         NEW w \in Msg, task[w] = "streaming", task'[w] = "streaming", queue.on, EndIsLast(w),
         OwnText(w)
  PROVE  OwnText(w)'
<1> USE DEF TypeOK, OwnText, turnVars, stateVars, wireVars, runnerVars, beatVars, showVars, pastVars
<1>0. /\ UNCHANGED buffer => OfBuffer(w)' = OfBuffer(w)
      /\ UNCHANGED queue => OfItems(w)' = OfItems(w)
      /\ UNCHANGED down => OfDown(w)' = OfDown(w)
      /\ \A n \in Msg : Busy(n) \/ Holds(n) => n = w
  BY TextsSame, Alone
<1>1. CASE UNCHANGED vars
  BY <1>0, <1>1 DEF vars
<1>2. CASE HandleSend
  <2>1. PICK m0 \in Msg \cup {None} :
          /\ UNCHANGED <<queue, buffer, tracked>>
          /\ \/ down' = Append(down, Envelope("error", m0))
             \/ UNCHANGED down
             \/ down' = Append(Append(down, Envelope("error", m0)), Envelope("end", m0))
    BY <1>2, SendEffect
  <2>2. \A k \in {"error", "end"} : Envelope(k, m0) \in Event /\ Envelope(k, m0).type = k
    BY Enveloped DEF EventKind, Envelope
  <2>3. OfDown(w) => OfDown(w)'
    <3>1. CASE down' = Append(down, Envelope("error", m0))
      BY <2>2, <3>1, TextAdded
    <3>2. CASE down' = Append(Append(down, Envelope("error", m0)), Envelope("end", m0))
      BY <2>2, <3>2, TextAddedTwo
    <3> QED
      BY <1>0, <2>1, <3>1, <3>2
  <2> QED
    BY <1>0, <2>1, <2>3
<1>3. CASE HandleOpen
  <2>1. UNCHANGED <<queue, buffer, tracked>>
    BY <1>3 DEF HandleOpen
  <2>2. down' = down \/ down' = Append(down, Envelope("error", None))
    BY <1>3, Reported DEF HandleOpen, EventKind
  <2>3. Envelope("error", None) \in Event /\ Envelope("error", None).type # "text"
    BY Enveloped DEF EventKind, Envelope
  <2>4. OfDown(w) => OfDown(w)'
    BY <1>0, <2>2, <2>3, TextAdded
  <2> QED
    BY <1>0, <2>1, <2>4
<1>4. CASE StartReturns
  <2>1. UNCHANGED <<queue, buffer, tracked>>
    BY <1>4 DEF StartReturns
  <2>2. PICK e \in Event : e.type # "text" /\ down' = Append(down, e)
    BY <1>4, Reported DEF StartReturns, EventKind, Envelope
  <2>3. OfDown(w) => OfDown(w)'
    BY <2>2, TextAdded
  <2> QED
    BY <1>0, <2>1, <2>3
<1>5. CASE HandleClose
  <2>1. UNCHANGED <<queue, buffer, tracked>>
    BY <1>5, CloseEffect
  <2>2. Envelope("closed", None) \in Event /\ Envelope("closed", None).type # "text"
    BY Enveloped DEF EventKind, Envelope
  <2>3. Envelope("end", drive) \in Event /\ Envelope("end", drive).type # "text"
    BY Enveloped DEF EventKind, Envelope
  <2>4. OfDown(w) => OfDown(w)'
    <3>1. CASE down' = Append(down, Envelope("closed", None))
      BY <2>2, <3>1, TextAdded
    <3>2. CASE down' = Append(Append(down, Envelope("end", drive)), Envelope("closed", None))
      BY <2>2, <2>3, <3>2, TextAddedTwo
    <3> QED
      BY <1>0, <1>5, <3>1, <3>2, CloseEffect
  <2> QED
    BY <1>0, <2>1, <2>4
<1>6. CASE Reap
  <2>1. UNCHANGED <<queue, buffer, tracked>>
    BY <1>6, ReapEffect
  <2>2. Envelope("closed", None) \in Event /\ Envelope("closed", None).type # "text"
    BY Enveloped DEF EventKind, Envelope
  <2>3. Envelope("end", drive) \in Event /\ Envelope("end", drive).type # "text"
    BY Enveloped DEF EventKind, Envelope
  <2>4. OfDown(w) => OfDown(w)'
    <3>1. CASE down' = Append(down, Envelope("closed", None))
      BY <2>2, <3>1, TextAdded
    <3>2. CASE down' = Append(Append(down, Envelope("end", drive)), Envelope("closed", None))
      BY <2>2, <2>3, <3>2, TextAddedTwo
    <3> QED
      BY <1>6, <3>1, <3>2, ReapEffect
  <2> QED
    BY <1>0, <2>1, <2>4
<1>7. CASE Refuse
  <2>1. UNCHANGED <<queue, buffer, tracked>>
    BY <1>7 DEF Refuse
  <2>2. PICK e \in Event : e.type # "text" /\ down' = Append(down, e)
    BY <1>7, Reported DEF Refuse, EventKind, Envelope
  <2>3. OfDown(w) => OfDown(w)'
    BY <2>2, TextAdded
  <2> QED
    BY <1>0, <2>1, <2>3
<1>8. ASSUME NEW k \in {"text", "result"}, Emit(k) PROVE OwnText(w)'
  <2>1. Driving /\ UNCHANGED <<queue, buffer, tracked>>
    BY <1>8 DEF Emit
  <2>2. Envelope(k, drive) \in Event /\ down' = Append(down, Envelope(k, drive))
    BY <1>8, Reported DEF Emit, EventKind
  <2>3. Envelope(k, drive).of = w
    BY <2>1, Running DEF Envelope
  <2>4. OfDown(w) => OfDown(w)'
    BY <2>2, <2>3, TextAdded
  <2> QED
    BY <1>0, <2>1, <2>4
<1>9. CASE EndTurn
  <2>1. UNCHANGED <<queue, buffer, tracked>>
    BY <1>9, EndEffect
  <2>2. \A k \in {"error", "end"} : Envelope(k, drive) \in Event /\ Envelope(k, drive).type = k
    BY Enveloped DEF EventKind, Envelope
  <2>3. OfDown(w) => OfDown(w)'
    <3>1. CASE down' = Append(down, Envelope("end", drive))
      BY <2>2, <3>1, TextAdded
    <3>2. CASE down' = Append(Append(down, Envelope("error", drive)), Envelope("end", drive))
      BY <2>2, <3>2, TextAddedTwo
    <3> QED
      BY <1>9, <3>1, <3>2, EndEffect
  <2> QED
    BY <1>0, <2>1, <2>3
<1>10. CASE TaskDone
  BY <1>0, <1>10 DEF TaskDone
<1>11. CASE Deliver
  <2>1. UNCHANGED buffer /\ (tracked' => tracked) /\ down # <<>> /\ down' = Tail(down)
    BY <1>11 DEF Deliver
  <2>2. OfDown(w) => OfDown(w)' /\ (Head(down).type = "text" => Head(down).of = w)
    BY <2>1, TextTaken
  <2>3. CASE UNCHANGED queue
    BY <1>0, <2>1, <2>2, <2>3
  <2>4. CASE tracked /\ Tells(Head(down))
    <3>1. Head(down) \in Event
      BY <2>1, EventTaken
    <3>2. OfItems(w) /\ (Head(down).type = "text" => Head(down).of = w) => OfItems(w)'
      BY <2>4, <3>1, TextTold
    <3> QED
      BY <1>0, <2>1, <2>2, <2>4, <3>2
  <2> QED
    BY <1>11, <2>3, <2>4 DEF Deliver
<1>12. CASE Drop
  <2>1. down' = <<>> /\ UNCHANGED buffer
    BY <1>12 DEF Drop, Cut
  <2>2. OfDown(w)'
    BY <2>1 DEF OfDown
  <2>3. OfItems(w) => OfItems(w)'
    <3>1. Envelope("dropped", None) \in Event /\ Envelope("dropped", None).type # "text"
      BY Enveloped DEF EventKind, Envelope
    <3>2. Tells(Envelope("dropped", None)) => (OfItems(w) => OfItems(w)')
      BY <3>1, TextTold
    <3> QED
      BY <1>0, <1>12, <3>2 DEF Drop
  <2> QED
    BY <1>0, <2>1, <2>2, <2>3
<1>13. CASE Dial
  BY <1>0, <1>13 DEF Dial
<1>14. CASE Reopen
  <2>1. UNCHANGED <<down, buffer>> /\ (tracked' => tracked)
    BY <1>14 DEF Reopen
  <2>2. OfItems(w) => OfItems(w)'
    <3>1. Envelope("closed", None) \in Event /\ Envelope("closed", None).type # "text"
      BY Enveloped DEF EventKind, Envelope
    <3>2. Tells(Envelope("closed", None)) => (OfItems(w) => OfItems(w)')
      BY <3>1, TextTold
    <3> QED
      BY <1>0, <1>14, <3>2 DEF Reopen
  <2> QED
    BY <1>0, <2>1, <2>2
<1>15. CASE Close
  BY <1>0, <1>15 DEF Close
<1>16. CASE CloseTimesOut
  BY <1>0, <1>16 DEF CloseTimesOut
<1>17. ASSUME NEW m \in Msg, Arrive(m) PROVE OwnText(w)'
  BY <1>0, <1>17 DEF Arrive, Goes
<1>18. ASSUME NEW m \in Msg, Begin(m) PROVE OwnText(w)'
  <2>1. task[m] = "waiting" /\ Holds(m)
    BY <1>18 DEF Begin, Goes
  <2> QED
    BY <1>0, <1>18, <2>1
<1>19. ASSUME NEW m \in Msg, BeginFails(m) PROVE OwnText(w)'
  <2>1. task[m] = "waiting" /\ Holds(m)
    BY <1>19 DEF BeginFails, Goes
  <2> QED
    BY <1>0, <1>19, <2>1
<1>20. ASSUME NEW m \in Msg, TakeText(m) PROVE OwnText(w)'
  <2>1. /\ queue.items # <<>> /\ Rest /\ First.type = "text" /\ UNCHANGED <<down, tracked>>
        /\ buffer' = Append(buffer, First.of)
    BY <1>20 DEF TakeText, Takes
  <2>2. OfItems(w) => OfItems(w)' /\ First.of = w
    BY <2>1, TextRead
  <2>3. OfBuffer(w) /\ First.of = w => OfBuffer(w)'
    <3>1. buffer \in Seq(Msg \cup {None})
      OBVIOUS
    <3>2. First.of = w => \A i \in DOMAIN buffer' :
            buffer'[i] = w \/ (i \in DOMAIN buffer /\ buffer'[i] = buffer[i])
      BY <2>1, <3>1
    <3> QED
      BY <3>2 DEF OfBuffer
  <2> QED
    BY <1>0, <2>1, <2>2, <2>3
<1>21. ASSUME NEW m \in Msg, TakeResult(m) PROVE OwnText(w)'
  <2>1. /\ queue.items # <<>> /\ Rest /\ UNCHANGED <<down, tracked>> /\ buffer' = <<>>
    BY <1>21 DEF TakeResult, Takes
  <2>2. OfItems(w) => OfItems(w)'
    BY <2>1, TextRead
  <2>3. OfBuffer(w)'
    BY <2>1 DEF OfBuffer
  <2> QED
    BY <1>0, <2>1, <2>2, <2>3
<1>22. ASSUME NEW m \in Msg, TakeEnd(m) PROVE OwnText(w)'
  <2>1. Busy(m) /\ task[m] = "streaming" /\ task'[m] # "streaming"
    BY <1>22 DEF TakeEnd, Takes, Goes, Leaves, Busy
  <2> QED
    BY <1>0, <1>22, <2>1
<1>23. ASSUME NEW m \in Msg, TakeError(m) PROVE OwnText(w)'
  <2>1. Busy(m) /\ task[m] = "streaming" /\ task'[m] # "streaming"
    BY <1>23 DEF TakeError, Takes, Goes, Leaves, Busy
  <2> QED
    BY <1>0, <1>23, <2>1
<1>24. ASSUME NEW m \in Msg, CancelBeat(m) PROVE OwnText(w)'
  <2>1. Busy(m) /\ task[m] = "ending" /\ task'[m] # "streaming"
    BY <1>24 DEF CancelBeat, Takes, Goes, Leaves, Busy
  <2> QED
    BY <1>0, <1>24, <2>1
<1>25. ASSUME NEW m \in Msg, Deleted(m) PROVE OwnText(w)'
  <2>1. Busy(m) /\ task[m] = "deleting" /\ task'[m] # "streaming"
    BY <1>25 DEF Deleted, Takes, Goes, Leaves, Busy
  <2> QED
    BY <1>0, <1>25, <2>1
<1>26. ASSUME NEW m \in Msg, DeleteFails(m) PROVE OwnText(w)'
  <2>1. Busy(m) /\ task[m] = "deleting" /\ task'[m] # "streaming"
    BY <1>26 DEF DeleteFails, Takes, Goes, Leaves, Busy
  <2> QED
    BY <1>0, <1>26, <2>1
<1>27. ASSUME NEW m \in Msg, Posted(m) PROVE OwnText(w)'
  <2>1. Busy(m) /\ task[m] = "posting" /\ task'[m] # "streaming"
    BY <1>27 DEF Posted, Takes, Goes, Leaves, Busy
  <2> QED
    BY <1>0, <1>27, <2>1
<1>28. CASE BeatSends
  BY <1>0, <1>28 DEF BeatSends
<1>29. CASE BeatSent
  BY <1>0, <1>29 DEF BeatSent
<1>30. QED
  BY <1>1, <1>2, <1>3, <1>4, <1>5, <1>6, <1>7, <1>8, <1>9, <1>10, <1>11, <1>12, <1>13, <1>14, <1>15,
     <1>16, <1>17, <1>18, <1>19, <1>20, <1>21, <1>22, <1>23, <1>24, <1>25, <1>26, <1>27, <1>28,
     <1>29
     DEF Next, Take, Ending

\* Whatever happens while the message waits, what there is of its turn reads to the whole.
LEMMA WholeKept ==
  ASSUME TypeOK, OneAtATime, WireInv, DownInv, SentOnce, TurnIsAwaited, [Next]_vars,
         NEW w \in Msg, task[w] = "streaming", task'[w] = "streaming", queue.on, EndIsLast(w),
         ReadsWhole(w)
  PROVE  ReadsWhole(w)'
<1> USE DEF TypeOK, turnVars, stateVars, wireVars, runnerVars, beatVars, showVars, pastVars
<1>0. /\ UNCHANGED queue => Undropped' = Undropped
      /\ \A n \in Msg : Busy(n) \/ Holds(n) => n = w
      /\ closed => Dead
      /\ Said(w) \in Nat /\ Len(buffer) \in Nat /\ queue.items \in Seq(Event) /\ queue.on
  BY TextsSame, Alone DEF WireInv, Said
<1>p. PICK c \in Nat :
        /\ Reads(queue.items, Len(buffer), c, Said(w))
        /\ tracked /\ Undropped =>
             /\ Reads(down, c, Said(w), Said(w))
             /\ link # "up" => c = Said(w)
  BY DEF ReadsWhole
<1>1. CASE UNCHANGED vars
  BY <1>0, <1>p, <1>1 DEF vars, ReadsWhole, Said
<1>2. CASE HandleSend
  <2>1. PICK m0 \in Msg \cup {None} :
          /\ up # <<>> /\ up' = Tail(up) /\ Head(up) = Envelope("send", m0)
          /\ UNCHANGED <<queue, buffer, tracked, link>>
          /\ \/ UNCHANGED <<drive, said>> /\ down' = Append(down, Envelope("error", m0))
             \/ present # "no" /\ drive' = m0 /\ said' = 0 /\ UNCHANGED down
             \/ /\ present # "no" /\ drive' = m0 /\ said' = 0
                /\ down' = Append(Append(down, Envelope("error", m0)), Envelope("end", m0))
    BY <1>2, SendEffect
  <2>2. m0 \in Msg /\ ~NotSent(m0) /\ drive # m0
    BY <2>1, SentSeen
  <2>3. \A k \in {"error", "end"} :
          Envelope(k, m0) \in Event /\ Envelope(k, m0).type = k /\ k \notin {"text", "result"}
    BY Enveloped DEF EventKind, Envelope
  <2>4. present # "no" => m0 = w
    BY <1>0, <2>2 DEF Dead, TurnIsAwaited, Busy
  <2>5. Said(w)' = Said(w)
    BY <2>1, <2>2, <2>4 DEF Said
  <2>6. tracked /\ Undropped => Reads(down', c, Said(w), Said(w))
    <3>1. \A s \in Seq(Event), e \in Event :
            e.type \notin {"text", "result"} /\ Reads(s, c, Said(w), Said(w)) =>
              Reads(Append(s, e), c, Said(w), Said(w))
      BY <1>0, <1>p, ReadsOn
    <3>2. Append(down, Envelope("error", m0)) \in Seq(Event)
      BY <2>3
    <3>3. CASE UNCHANGED down
      BY <1>p, <3>3
    <3>4. CASE down' = Append(down, Envelope("error", m0))
      BY <1>p, <2>3, <3>1, <3>4
    <3>5. CASE down' = Append(Append(down, Envelope("error", m0)), Envelope("end", m0))
      BY <1>p, <2>3, <3>1, <3>2, <3>5
    <3> QED
      BY <2>1, <3>3, <3>4, <3>5
  <2> QED
    BY <1>0, <1>p, <2>1, <2>5, <2>6 DEF ReadsWhole
<1>3. CASE HandleOpen
  <2>1. UNCHANGED <<queue, buffer, tracked, link, drive, said>>
    BY <1>3 DEF HandleOpen
  <2>2. PICK e \in Event :
          e.type \notin {"text", "result"} /\ (down' = down \/ down' = Append(down, e))
    BY <1>3, Reported DEF HandleOpen, EventKind, Envelope
  <2>3. tracked /\ Undropped => Reads(down', c, Said(w), Said(w))
    <3>1. CASE down' = down
      BY <1>p, <3>1
    <3>2. CASE down' = Append(down, e)
      BY <1>0, <1>p, <2>2, <3>2, ReadsOn
    <3> QED
      BY <2>2, <3>1, <3>2
  <2>4. Said(w)' = Said(w)
    BY <2>1 DEF Said
  <2> QED
    BY <1>0, <1>p, <2>1, <2>3, <2>4 DEF ReadsWhole
<1>4. CASE StartReturns
  <2>1. UNCHANGED <<queue, buffer, tracked, link, drive, said>>
    BY <1>4 DEF StartReturns
  <2>2. PICK e \in Event : e.type \notin {"text", "result"} /\ down' = Append(down, e)
    BY <1>4, Reported DEF StartReturns, EventKind, Envelope
  <2>3. tracked /\ Undropped => Reads(down', c, Said(w), Said(w))
    BY <1>0, <1>p, <2>2, ReadsOn
  <2>4. Said(w)' = Said(w)
    BY <2>1 DEF Said
  <2> QED
    BY <1>0, <1>p, <2>1, <2>3, <2>4 DEF ReadsWhole
<1>5. CASE HandleClose
  <2>1. UNCHANGED <<queue, buffer, tracked, link, drive, said>>
    BY <1>5, CloseEffect
  <2>2. /\ Envelope("closed", None) \in Event
        /\ Envelope("closed", None).type \notin {"text", "result"}
    BY Enveloped DEF EventKind, Envelope
  <2>3. Envelope("end", drive) \in Event /\ Envelope("end", drive).type \notin {"text", "result"}
    BY Enveloped DEF EventKind, Envelope
  <2>4. Said(w)' = Said(w)
    BY <2>1 DEF Said
  <2>5. tracked /\ Undropped => Reads(down', c, Said(w), Said(w))
    <3>1. \A s \in Seq(Event), e \in Event :
            e.type \notin {"text", "result"} /\ Reads(s, c, Said(w), Said(w)) =>
              Reads(Append(s, e), c, Said(w), Said(w))
      BY <1>0, <1>p, ReadsOn
    <3>2. Append(down, Envelope("end", drive)) \in Seq(Event)
      BY <2>3
    <3>3. CASE UNCHANGED down
      BY <1>p, <3>3
    <3>4. CASE down' = Append(down, Envelope("closed", None))
      BY <1>p, <2>2, <3>1, <3>4
    <3>5. CASE down' = Append(Append(down, Envelope("end", drive)), Envelope("closed", None))
      BY <1>p, <2>2, <2>3, <3>1, <3>2, <3>5
    <3> QED
      BY <1>5, <3>3, <3>4, <3>5, CloseEffect
  <2> QED
    BY <1>0, <1>p, <2>1, <2>4, <2>5 DEF ReadsWhole
<1>6. CASE Reap
  <2>1. UNCHANGED <<queue, buffer, tracked, link, drive, said>>
    BY <1>6, ReapEffect
  <2>2. /\ Envelope("closed", None) \in Event
        /\ Envelope("closed", None).type \notin {"text", "result"}
    BY Enveloped DEF EventKind, Envelope
  <2>3. Envelope("end", drive) \in Event /\ Envelope("end", drive).type \notin {"text", "result"}
    BY Enveloped DEF EventKind, Envelope
  <2>4. Said(w)' = Said(w)
    BY <2>1 DEF Said
  <2>5. tracked /\ Undropped => Reads(down', c, Said(w), Said(w))
    <3>1. \A s \in Seq(Event), e \in Event :
            e.type \notin {"text", "result"} /\ Reads(s, c, Said(w), Said(w)) =>
              Reads(Append(s, e), c, Said(w), Said(w))
      BY <1>0, <1>p, ReadsOn
    <3>2. Append(down, Envelope("end", drive)) \in Seq(Event)
      BY <2>3
    <3>3. CASE down' = Append(down, Envelope("closed", None))
      BY <1>p, <2>2, <3>1, <3>3
    <3>4. CASE down' = Append(Append(down, Envelope("end", drive)), Envelope("closed", None))
      BY <1>p, <2>2, <2>3, <3>1, <3>2, <3>4
    <3> QED
      BY <1>6, <3>3, <3>4, ReapEffect
  <2> QED
    BY <1>0, <1>p, <2>1, <2>4, <2>5 DEF ReadsWhole
<1>7. CASE Refuse
  <2>1. UNCHANGED <<queue, buffer, tracked, link, drive, said>>
    BY <1>7 DEF Refuse
  <2>2. PICK e \in Event : e.type \notin {"text", "result"} /\ down' = Append(down, e)
    BY <1>7, Reported DEF Refuse, EventKind, Envelope
  <2>3. tracked /\ Undropped => Reads(down', c, Said(w), Said(w))
    BY <1>0, <1>p, <2>2, ReadsOn
  <2>4. Said(w)' = Said(w)
    BY <2>1 DEF Said
  <2> QED
    BY <1>0, <1>p, <2>1, <2>3, <2>4 DEF ReadsWhole
<1>8. ASSUME NEW k \in {"text", "result"}, Emit(k) PROVE ReadsWhole(w)'
  <2>1. Driving /\ UNCHANGED <<queue, buffer, tracked, link, drive>>
    BY <1>8 DEF Emit
  <2>2. /\ Envelope(k, drive) \in Event /\ Envelope(k, drive).type = k
        /\ down' = Append(down, Envelope(k, drive))
    BY <1>8, Reported DEF Emit, EventKind, Envelope
  <2>3. drive = w /\ ~Ended /\ (tracked => NoEnd) /\ NoClosed /\ NoneTold /\ link = "up"
    BY <1>0, <2>1, Running DEF Dead, WireInv
  <2> DEFINE e == Envelope(k, drive)
             s == Said(w)'
  <2>4. s = After(Said(w), e) /\ s \in Nat
    BY <1>8, <2>1, <2>2, <2>3 DEF Emit, After, Said
  <2> HIDE DEF e, s
  <2>5. Reads(queue.items, Len(buffer), c, s)
    <3>1. \A i \in DOMAIN queue.items : queue.items[i].type \notin {"end", "closed"}
      BY <2>3 DEF Ended, NoneTold
    <3> QED
      BY <1>0, <1>p, <3>1, ReadsTo
  <2>6. ASSUME tracked, Undropped PROVE Reads(down', c, s, s)
    <3>1. \A i \in DOMAIN down : down[i].type \notin {"end", "closed"}
      BY <2>3, <2>6 DEF NoEnd, NoClosed
    <3>2. Reads(down, c, Said(w), s)
      BY <1>0, <1>p, <2>6, <3>1, ReadsTo
    <3>3. e \in Event /\ e.type \notin {"end", "closed"} /\ down' = Append(down, e)
      BY <1>8, <2>2 DEF e
    <3>4. Reads(Append(down, e), c, After(Said(w), e), s)
      BY <1>0, <1>p, <3>2, <3>3, ReadsAdded
    <3> QED
      BY <2>4, <3>3, <3>4
  <2> QED
    BY <1>0, <1>p, <2>1, <2>3, <2>5, <2>6 DEF ReadsWhole, s
<1>9. CASE EndTurn
  <2>1. UNCHANGED <<queue, buffer, tracked, link, drive, said>>
    BY <1>9, EndEffect
  <2>2. \A k \in {"error", "end"} : /\ Envelope(k, drive) \in Event
                                   /\ Envelope(k, drive).type \notin {"text", "result"}
    BY Enveloped DEF EventKind, Envelope
  <2>3. Said(w)' = Said(w)
    BY <2>1 DEF Said
  <2>4. tracked /\ Undropped => Reads(down', c, Said(w), Said(w))
    <3>1. \A s \in Seq(Event), e \in Event :
            e.type \notin {"text", "result"} /\ Reads(s, c, Said(w), Said(w)) =>
              Reads(Append(s, e), c, Said(w), Said(w))
      BY <1>0, <1>p, ReadsOn
    <3>2. Append(down, Envelope("error", drive)) \in Seq(Event)
      BY <2>2
    <3>3. CASE down' = Append(down, Envelope("end", drive))
      BY <1>p, <2>2, <3>1, <3>3
    <3>4. CASE down' = Append(Append(down, Envelope("error", drive)), Envelope("end", drive))
      BY <1>p, <2>2, <3>1, <3>2, <3>4
    <3> QED
      BY <1>9, <3>3, <3>4, EndEffect
  <2> QED
    BY <1>0, <1>p, <2>1, <2>3, <2>4 DEF ReadsWhole
<1>10. CASE TaskDone
  BY <1>0, <1>p, <1>10 DEF TaskDone, ReadsWhole, Said
<1>11. CASE Deliver
  <2> DEFINE e == Head(down)
             x == After(c, e)
  <2>1. /\ UNCHANGED <<buffer, drive, said, link>> /\ (tracked' => tracked)
        /\ down # <<>> /\ down' = Tail(down)
    BY <1>11 DEF Deliver
  <2>2. Said(w)' = Said(w)
    BY <2>1 DEF Said
  <2>3. e \in Event /\ e.type # "dropped" /\ (link # "up" => e.type = "error")
    BY <2>1, EventTaken DEF DownInv
  <2>4. x \in Nat /\ (e.type \notin {"text", "result"} => x = c)
    BY <1>p DEF After
  <2>5. ASSUME tracked, Undropped
        PROVE  /\ Reads(down', x, Said(w), Said(w))
               /\ e.type \in {"end", "closed"} => c = Said(w)
    BY <1>0, <1>p, <2>1, <2>3, <2>5, ReadsTaken
  <2> HIDE DEF e, x
  <2>6. CASE ~tracked /\ UNCHANGED queue
    BY <1>0, <1>p, <2>1, <2>2, <2>6 DEF ReadsWhole
  <2>7. CASE tracked /\ UNCHANGED queue /\ e.type \in {"opened", "error"}
    BY <1>0, <1>p, <2>1, <2>2, <2>4, <2>5, <2>7 DEF ReadsWhole
  <2>8. CASE tracked /\ Tells(e)
    <3>1. (Undropped' => Undropped) /\ queue'.items = Append(queue.items, e)
      BY <2>3, <2>8, TextTold, ItemAdded
    <3>2. Undropped => \/ e.type \notin {"end", "closed"}
                       \/ x = Said(w)
      BY <2>4, <2>5, <2>8
    <3>3. Reads(queue'.items, Len(buffer), x, Said(w))
      <4>1. ASSUME e.type \in {"end", "closed"},
                   \A j \in DOMAIN queue.items : queue.items[j].type # "dropped"
            PROVE  After(c, e) = Said(w)
        BY <3>2, <4>1 DEF x, Undropped
      <4> QED
        BY <1>0, <1>p, <2>3, <3>1, <4>1, ReadsAdded DEF x
    <3>4. Undropped /\ link # "up" => x = Said(w)
      BY <1>p, <2>3, <2>4, <2>8
    <3> QED
      BY <2>1, <2>2, <2>4, <2>5, <2>8, <3>1, <3>3, <3>4 DEF ReadsWhole
  <2>9. \/ ~tracked /\ UNCHANGED queue
        \/ tracked /\ UNCHANGED queue /\ e.type \in {"opened", "error"}
        \/ tracked /\ Tells(e)
    BY <1>11 DEF Deliver, e
  <2> QED
    BY <2>6, <2>7, <2>8, <2>9
<1>12. CASE Drop
  <2>1. UNCHANGED <<buffer, drive, said, tracked>> /\ Said(w)' = Said(w)
    BY <1>12 DEF Drop, Cut, Said
  <2>2. CASE ~tracked /\ UNCHANGED queue
    BY <1>0, <1>p, <2>1, <2>2 DEF ReadsWhole
  <2>3. CASE Tells(Envelope("dropped", None))
    <3>1. PICK e \in Event : e.type = "dropped" /\ Tells(e)
      BY <2>3, Enveloped DEF EventKind, Envelope
    <3>2. queue'.items = Append(queue.items, e)
      BY <1>0, <3>1, ItemAdded
    <3>3. Reads(Append(queue.items, e), Len(buffer), c, Said(w))
      BY <1>0, <1>p, <3>1, ReadsDropped
    <3>4. ~Undropped'
      BY <3>1, <1>0, TextTold
    <3> QED
      BY <1>p, <2>1, <3>2, <3>3, <3>4 DEF ReadsWhole
  <2> QED
    BY <1>12, <2>2, <2>3 DEF Drop
<1>13. CASE Dial
  BY <1>0, <1>p, <1>13 DEF Dial, ReadsWhole, Said
<1>14. CASE Reopen
  <2>1. /\ UNCHANGED <<buffer, drive, said, down>> /\ Said(w)' = Said(w) /\ (tracked' => tracked)
        /\ link # "up" /\ link' = "up"
    BY <1>14 DEF Reopen, Said
  <2>2. CASE UNCHANGED queue
    BY <1>0, <1>p, <2>1, <2>2 DEF ReadsWhole
  <2>3. CASE tracked /\ ~tracked' /\ Tells(Envelope("closed", None))
    <3>1. Envelope("closed", None) \in Event /\ Envelope("closed", None).type = "closed"
      BY Enveloped DEF EventKind, Envelope
    <3>2. queue'.items = Append(queue.items, Envelope("closed", None))
      BY <1>0, <2>3, <3>1, ItemAdded
    <3>3. After(c, Envelope("closed", None)) = c
      BY <3>1 DEF After
    <3>4. Reads(queue'.items, Len(buffer), c, Said(w))
      BY <1>0, <1>p, <2>1, <2>3, <3>1, <3>2, <3>3, ReadsAdded DEF Undropped
    <3> QED
      BY <1>p, <2>1, <2>3, <3>4 DEF ReadsWhole
  <2> QED
    BY <1>14, <2>2, <2>3 DEF Reopen
<1>15. CASE Close
  BY <1>0, <1>p, <1>15 DEF Close, ReadsWhole, Said
<1>16. CASE CloseTimesOut
  BY <1>0, <1>p, <1>16 DEF CloseTimesOut, ReadsWhole, Said
<1>17. ASSUME NEW m \in Msg, Arrive(m) PROVE ReadsWhole(w)'
  BY <1>0, <1>p, <1>17 DEF Arrive, Goes, ReadsWhole, Said
<1>18. ASSUME NEW m \in Msg, Begin(m) PROVE ReadsWhole(w)'
  <2>1. task[m] = "waiting" /\ Holds(m)
    BY <1>18 DEF Begin, Goes
  <2> QED
    BY <1>0, <1>18, <2>1
<1>19. ASSUME NEW m \in Msg, BeginFails(m) PROVE ReadsWhole(w)'
  <2>1. task[m] = "waiting" /\ Holds(m)
    BY <1>19 DEF BeginFails, Goes
  <2> QED
    BY <1>0, <1>19, <2>1
<1>20. ASSUME NEW m \in Msg, TakeText(m) PROVE ReadsWhole(w)'
  <2>1. /\ queue.items # <<>> /\ Rest /\ First.type = "text"
        /\ UNCHANGED <<down, tracked, drive, said, link>> /\ buffer' = Append(buffer, First.of)
    BY <1>20 DEF TakeText, Takes
  <2>2. (Undropped' => Undropped) /\ queue'.items = Tail(queue.items)
    BY <2>1, TextRead, ItemTaken
  <2>3. Len(buffer') = After(Len(buffer), First)
    <3>1. buffer \in Seq(Msg \cup {None})
      OBVIOUS
    <3> QED
      BY <2>1, <3>1 DEF After
  <2>4. Reads(queue'.items, Len(buffer'), c, Said(w))
    <3>1. First = Head(queue.items)
      BY DEF First
    <3> QED
      BY <1>0, <1>p, <2>1, <2>2, <2>3, <3>1, ReadsTaken
  <2>5. Said(w)' = Said(w)
    BY <2>1 DEF Said
  <2> QED
    BY <1>0, <1>p, <2>1, <2>2, <2>4, <2>5 DEF ReadsWhole
<1>21. ASSUME NEW m \in Msg, TakeResult(m) PROVE ReadsWhole(w)'
  <2>1. /\ queue.items # <<>> /\ Rest /\ First.type = "result"
        /\ UNCHANGED <<down, tracked, drive, said, link>> /\ buffer' = <<>>
    BY <1>21 DEF TakeResult, Takes
  <2>2. (Undropped' => Undropped) /\ queue'.items = Tail(queue.items)
    BY <2>1, TextRead, ItemTaken
  <2>3. Len(buffer') = After(Len(buffer), First)
    <3>1. buffer \in Seq(Msg \cup {None})
      OBVIOUS
    <3> QED
      BY <2>1, <3>1 DEF After
  <2>4. Reads(queue'.items, Len(buffer'), c, Said(w))
    <3>1. First = Head(queue.items)
      BY DEF First
    <3> QED
      BY <1>0, <1>p, <2>1, <2>2, <2>3, <3>1, ReadsTaken
  <2>5. Said(w)' = Said(w)
    BY <2>1 DEF Said
  <2> QED
    BY <1>0, <1>p, <2>1, <2>2, <2>4, <2>5 DEF ReadsWhole
<1>22. ASSUME NEW m \in Msg, TakeEnd(m) PROVE ReadsWhole(w)'
  <2>1. Busy(m) /\ task[m] = "streaming" /\ task'[m] # "streaming"
    BY <1>22 DEF TakeEnd, Takes, Goes, Leaves, Busy
  <2> QED
    BY <1>0, <1>22, <2>1
<1>23. ASSUME NEW m \in Msg, TakeError(m) PROVE ReadsWhole(w)'
  <2>1. Busy(m) /\ task[m] = "streaming" /\ task'[m] # "streaming"
    BY <1>23 DEF TakeError, Takes, Goes, Leaves, Busy
  <2> QED
    BY <1>0, <1>23, <2>1
<1>24. ASSUME NEW m \in Msg, CancelBeat(m) PROVE ReadsWhole(w)'
  <2>1. Busy(m) /\ task[m] = "ending" /\ task'[m] # "streaming"
    BY <1>24 DEF CancelBeat, Takes, Goes, Leaves, Busy
  <2> QED
    BY <1>0, <1>24, <2>1
<1>25. ASSUME NEW m \in Msg, Deleted(m) PROVE ReadsWhole(w)'
  <2>1. Busy(m) /\ task[m] = "deleting" /\ task'[m] # "streaming"
    BY <1>25 DEF Deleted, Takes, Goes, Leaves, Busy
  <2> QED
    BY <1>0, <1>25, <2>1
<1>26. ASSUME NEW m \in Msg, DeleteFails(m) PROVE ReadsWhole(w)'
  <2>1. Busy(m) /\ task[m] = "deleting" /\ task'[m] # "streaming"
    BY <1>26 DEF DeleteFails, Takes, Goes, Leaves, Busy
  <2> QED
    BY <1>0, <1>26, <2>1
<1>27. ASSUME NEW m \in Msg, Posted(m) PROVE ReadsWhole(w)'
  <2>1. Busy(m) /\ task[m] = "posting" /\ task'[m] # "streaming"
    BY <1>27 DEF Posted, Takes, Goes, Leaves, Busy
  <2> QED
    BY <1>0, <1>27, <2>1
<1>28. CASE BeatSends
  BY <1>0, <1>p, <1>28 DEF BeatSends, ReadsWhole, Said
<1>29. CASE BeatSent
  BY <1>0, <1>p, <1>29 DEF BeatSent, ReadsWhole, Said
<1>30. QED
  BY <1>1, <1>2, <1>3, <1>4, <1>5, <1>6, <1>7, <1>8, <1>9, <1>10, <1>11, <1>12, <1>13, <1>14, <1>15,
     <1>16, <1>17, <1>18, <1>19, <1>20, <1>21, <1>22, <1>23, <1>24, <1>25, <1>26, <1>27, <1>28,
     <1>29
     DEF Next, Take, Ending

-----------------------------------------------------------------------------
(* The answer.                                                             *)

\* A message whose answer is due, and that answer.
Finishing(m) == task[m] \in {"ending", "deleting", "posting"} /\ ~errored
Whole(m)     == buffer = [i \in 1 .. Said(m) |-> m]

\* The property, in these words; in this state and in the next.
LEMMA AnswerWhole ==
  /\ AnswerIsWhole <=> (clean => \A m \in Msg : Finishing(m) => Whole(m))
  /\ AnswerIsWhole' <=> (clean' => \A m \in Msg : Finishing(m)' => Whole(m)')
BY DEF AnswerIsWhole, Finishing, Whole, Said

\* The turn's end leaves the answer whole.
LEMMA EndWhole ==
  ASSUME TypeOK, NEW m \in Msg, OwnText(m), ReadsWhole(m), queue.items # <<>>,
         First.type \in {"end", "closed"}
  PROVE  Whole(m)
<1>1. queue.items \in Seq(Event) /\ Len(buffer) \in Nat /\ First = Head(queue.items)
  BY DEF TypeOK, First
<1>2. Len(buffer) = Said(m)
  BY <1>1, ReadsTaken DEF ReadsWhole
<1>3. buffer \in Seq(Msg \cup {None}) /\ \A i \in DOMAIN buffer : buffer[i] = m
  BY DEF TypeOK, OwnText, OfBuffer
<1>4. buffer = [i \in 1 .. Len(buffer) |-> m]
  BY <1>3
<1> QED
  BY <1>2, <1>4 DEF Whole

\* What begins finds the wire without anything of a turn.
LEMMA BeginMakes ==
  ASSUME TypeOK, OneAtATime, SentOnce, NothingOfTurns, NEW m \in Msg, Begin(m)
  PROVE  EndIsLast(m)' /\ OwnText(m)' /\ ReadsWhole(m)'
<1>1. /\ queue' = [on |-> TRUE, items |-> <<>>] /\ buffer' = <<>>
      /\ UNCHANGED <<down, drive, stage, said, tracked, link>>
      /\ Holds(m) /\ task[m] = "waiting"
  BY DEF Begin, NewRenderer, Goes, runnerVars, stateVars
<1>2. \A n \in Msg : task[n] # "streaming"
  BY <1>1 DEF OneAtATime, Busy, Holds
<1>3. tracked => NoneSpoken
  BY <1>2 DEF NothingOfTurns
<1>4. drive # m /\ Said(m) = 0 /\ Said(m)' = 0
  BY <1>1 DEF SentOnce, Said
<1>5. ~Over' /\ ~Ended' /\ Undropped' /\ OfItems(m)' /\ OfBuffer(m)'
  BY <1>1 DEF Over, Ended, Undropped, OfItems, OfBuffer
<1>6. tracked' => LastEnd(m)' /\ OfDown(m)'
  BY <1>1, <1>3 DEF NoneSpoken, Spoken, LastEnd, OfDown
<1>7. EndIsLast(m)' /\ OwnText(m)'
  BY <1>5, <1>6 DEF EndIsLast, OwnText
<1>8. Reads(queue'.items, Len(buffer'), 0, 0)
  <2>1. /\ queue'.items \in Seq(Event) /\ DOMAIN queue'.items = {} /\ 0 \in Nat
        /\ Len(buffer') = 0
    BY <1>1
  <2> QED
    BY <2>1, ReadsSame
<1>9. tracked => Reads(down', 0, 0, 0)
  <2>1. tracked => \A i \in DOMAIN down : down[i].type \notin {"text", "result"}
    BY <1>3 DEF NoneSpoken, Spoken
  <2> QED
    BY <1>1, <2>1, ReadsSame DEF TypeOK
<1>10. ReadsWhole(m)'
  BY <1>1, <1>4, <1>8, <1>9 DEF ReadsWhole
<1> QED
  BY <1>7, <1>10

\* Steps keep what is posted whole.
LEMMA AnswerKept ==
  ASSUME TypeOK, OneAtATime, WireInv, SentOnce, TurnIsAwaited, clean, AnswerIsWhole, [Next]_vars,
         \A m \in Msg : task[m] = "streaming" => OwnText(m) /\ ReadsWhole(m)
  PROVE  AnswerIsWhole'
<1> USE DEF TypeOK, turnVars, stateVars, wireVars, runnerVars, beatVars, showVars, pastVars
<1> SUFFICES ASSUME NEW w \in Msg, Finishing(w)' PROVE Whole(w)'
  BY AnswerWhole
<1>0. /\ Finishing(w) => Whole(w)
      /\ closed => Dead
      /\ \A n, m \in Msg : Busy(n) /\ (Busy(m) \/ Holds(m)) => n = m
  BY AnswerWhole DEF WireInv, OneAtATime, Holds
<1>1. CASE UNCHANGED vars
  BY <1>0, <1>1 DEF vars, Finishing, Whole, Said
<1>2. CASE HandleSend
  <2>1. PICK m0 \in Msg \cup {None} :
          /\ up # <<>> /\ up' = Tail(up) /\ Head(up) = Envelope("send", m0)
          /\ UNCHANGED <<task, buffer, errored>>
          /\ UNCHANGED <<drive, said>> \/ present # "no"
    BY <1>2, SendEffect
  <2>2. Busy(w) /\ task[w] # "streaming" /\ Finishing(w)
    BY <2>1 DEF Busy, Finishing
  <2>3. present = "no"
    <3>1. present # "no" => m0 \in Msg /\ task[m0] = "streaming"
      BY <1>0, <2>1, SentSeen DEF Dead, TurnIsAwaited
    <3> QED
      BY <1>0, <2>2, <3>1 DEF Busy
  <2> QED
    BY <1>0, <2>1, <2>2, <2>3 DEF Whole, Said
<1>3. CASE HandleOpen
  BY <1>0, <1>3 DEF HandleOpen, Handles, Reports, Finishing, Whole, Said, Busy
<1>4. CASE StartReturns
  BY <1>0, <1>4 DEF StartReturns, Reports, Finishing, Whole, Said, Busy
<1>5. CASE HandleClose
  BY <1>0, <1>5 DEF HandleClose, Handles, Stops, Reports, Finishing, Whole, Said, Busy
<1>6. CASE Reap
  BY <1>0, <1>6 DEF Reap, Stops, Reports, Finishing, Whole, Said, Busy
<1>7. CASE Refuse
  BY <1>0, <1>7 DEF Refuse, Reports, Finishing, Whole, Said, Busy
<1>8. ASSUME NEW k \in {"text", "result"}, Emit(k) PROVE Whole(w)'
  <2>1. Driving /\ UNCHANGED task
    BY <1>8 DEF Emit
  <2>2. drive \in Msg /\ task[drive] = "streaming"
    BY <2>1 DEF TurnIsAwaited
  <2>3. Busy(w) /\ Busy(drive) /\ task[w] # "streaming"
    BY <2>1, <2>2 DEF Busy, Finishing
  <2> QED
    BY <1>0, <2>2, <2>3
<1>9. CASE EndTurn
  BY <1>0, <1>9 DEF EndTurn, Reports, Finishing, Whole, Said, Busy
<1>10. CASE TaskDone
  BY <1>0, <1>10 DEF TaskDone, Finishing, Whole, Said, Busy
<1>11. CASE Deliver
  BY <1>0, <1>11 DEF Deliver, Tells, Finishing, Whole, Said, Busy
<1>12. CASE Drop
  BY <1>0, <1>12 DEF Drop, Cut, Tells, Finishing, Whole, Said, Busy
<1>13. CASE Dial
  BY <1>0, <1>13 DEF Dial, Finishing, Whole, Said, Busy
<1>14. CASE Reopen
  BY <1>0, <1>14 DEF Reopen, Tells, Finishing, Whole, Said, Busy
<1>15. CASE Close
  BY <1>0, <1>15 DEF Close, Finishing, Whole, Said, Busy
<1>16. CASE CloseTimesOut
  BY <1>0, <1>16 DEF CloseTimesOut, Finishing, Whole, Said, Busy
<1>17. ASSUME NEW m \in Msg, Arrive(m) PROVE Whole(w)'
  BY <1>0, <1>17 DEF Arrive, Goes, Finishing, Whole, Said, Busy
<1>18. ASSUME NEW m \in Msg, Begin(m) PROVE Whole(w)'
  BY <1>0, <1>18 DEF Begin, Goes, NewRenderer, Holds, Finishing, Whole, Said, Busy
<1>19. ASSUME NEW m \in Msg, BeginFails(m) PROVE Whole(w)'
  BY <1>0, <1>19 DEF BeginFails, Goes, NewRenderer, Holds, Finishing, Whole, Said, Busy
<1>20. ASSUME NEW m \in Msg, TakeText(m) PROVE Whole(w)'
  BY <1>0, <1>20 DEF TakeText, Takes, Rest, First, Finishing, Whole, Said, Busy
<1>21. ASSUME NEW m \in Msg, TakeResult(m) PROVE Whole(w)'
  BY <1>0, <1>21 DEF TakeResult, Takes, Rest, First, Finishing, Whole, Said, Busy
<1>22. ASSUME NEW m \in Msg, TakeEnd(m) PROVE Whole(w)'
  <2>1. /\ task[m] = "streaming" /\ queue.items # <<>> /\ First.type \in {"end", "closed"}
        /\ UNCHANGED <<drive, said, buffer, errored>>
        /\ task' = [task EXCEPT ![m] = "ending"]
    BY <1>22 DEF TakeEnd, Takes, Goes
  <2>2. Whole(m)
    BY <1>22, <2>1, EndWhole
  <2>3. w = m
    <3>1. w # m => task'[w] = task[w]
      BY <1>22, <2>1
    <3>2. w # m => Busy(w) /\ Busy(m)
      BY <2>1, <3>1 DEF Finishing, Busy
    <3> QED
      BY <1>0, <1>22, <3>2
  <2> QED
    BY <2>1, <2>2, <2>3 DEF Whole, Said
<1>23. ASSUME NEW m \in Msg, TakeError(m) PROVE Whole(w)'
  BY <1>0, <1>23 DEF TakeError, Takes, Goes, NoQueue, First, Finishing, Whole, Said, Busy
<1>24. ASSUME NEW m \in Msg, CancelBeat(m) PROVE Whole(w)'
  BY <1>0, <1>24 DEF CancelBeat, Goes, Finishing, Whole, Said, Busy
<1>25. ASSUME NEW m \in Msg, Deleted(m) PROVE Whole(w)'
  BY <1>0, <1>25 DEF Deleted, Goes, Finishing, Whole, Said, Busy
<1>26. ASSUME NEW m \in Msg, DeleteFails(m) PROVE Whole(w)'
  BY <1>0, <1>26 DEF DeleteFails, Leaves, Goes, NewRenderer, Finishing, Whole, Said, Busy
<1>27. ASSUME NEW m \in Msg, Posted(m) PROVE Whole(w)'
  BY <1>0, <1>27 DEF Posted, Leaves, Goes, NewRenderer, Finishing, Whole, Said, Busy
<1>28. CASE BeatSends
  BY <1>0, <1>28 DEF BeatSends, Finishing, Whole, Said, Busy
<1>29. CASE BeatSent
  BY <1>0, <1>29 DEF BeatSent, Finishing, Whole, Said, Busy
<1>30. QED
  BY <1>1, <1>2, <1>3, <1>4, <1>5, <1>6, <1>7, <1>8, <1>9, <1>10, <1>11, <1>12, <1>13, <1>14, <1>15,
     <1>16, <1>17, <1>18, <1>19, <1>20, <1>21, <1>22, <1>23, <1>24, <1>25, <1>26, <1>27, <1>28,
     <1>29
     DEF Next, Take, Ending

\* A turn ended by an error of the runner is not forgotten.
LEMMA CleanWas ==
  ASSUME TypeOK, [Next]_vars, clean'
  PROVE  clean
<1> USE DEF TypeOK, turnVars, stateVars, wireVars, runnerVars, beatVars, showVars, pastVars
<1>1. CASE UNCHANGED vars
  BY <1>1 DEF vars
<1>2. CASE HandleSend
  BY <1>2 DEF HandleSend, Handles, StartTurn, FailAtOnce, Reports
<1>3. CASE HandleOpen
  BY <1>3 DEF HandleOpen, Handles, Reports
<1>4. CASE StartReturns
  BY <1>4 DEF StartReturns, Reports
<1>5. CASE HandleClose
  BY <1>5 DEF HandleClose, Handles, Stops, Reports
<1>6. CASE Reap
  BY <1>6 DEF Reap, Stops, Reports
<1>7. CASE Refuse
  BY <1>7 DEF Refuse, Reports
<1>8. ASSUME NEW k \in {"text", "result"}, Emit(k) PROVE clean
  BY <1>8 DEF Emit, Reports
<1>9. CASE EndTurn
  BY <1>9 DEF EndTurn, Reports
<1>10. CASE TaskDone
  BY <1>10 DEF TaskDone
<1>11. CASE Deliver
  BY <1>11 DEF Deliver, Tells
<1>12. CASE Drop
  BY <1>12 DEF Drop, Cut, Tells
<1>13. CASE Dial
  BY <1>13 DEF Dial
<1>14. CASE Reopen
  BY <1>14 DEF Reopen, Tells
<1>15. CASE Close
  BY <1>15 DEF Close
<1>16. CASE CloseTimesOut
  BY <1>16 DEF CloseTimesOut
<1>17. ASSUME NEW m \in Msg, Arrive(m) PROVE clean
  BY <1>17 DEF Arrive, Goes
<1>18. ASSUME NEW m \in Msg, Begin(m) PROVE clean
  BY <1>18 DEF Begin, Goes, NewRenderer, Holds
<1>19. ASSUME NEW m \in Msg, BeginFails(m) PROVE clean
  BY <1>19 DEF BeginFails, Goes, NewRenderer, Holds
<1>20. ASSUME NEW m \in Msg, TakeText(m) PROVE clean
  BY <1>20 DEF TakeText, Takes, Rest, First
<1>21. ASSUME NEW m \in Msg, TakeResult(m) PROVE clean
  BY <1>21 DEF TakeResult, Takes, Rest, First
<1>22. ASSUME NEW m \in Msg, TakeEnd(m) PROVE clean
  BY <1>22 DEF TakeEnd, Takes, Goes, NoQueue, First
<1>23. ASSUME NEW m \in Msg, TakeError(m) PROVE clean
  BY <1>23 DEF TakeError, Takes, Goes, NoQueue, First
<1>24. ASSUME NEW m \in Msg, CancelBeat(m) PROVE clean
  BY <1>24 DEF CancelBeat, Goes
<1>25. ASSUME NEW m \in Msg, Deleted(m) PROVE clean
  BY <1>25 DEF Deleted, Goes
<1>26. ASSUME NEW m \in Msg, DeleteFails(m) PROVE clean
  BY <1>26 DEF DeleteFails, Leaves, Goes, NewRenderer
<1>27. ASSUME NEW m \in Msg, Posted(m) PROVE clean
  BY <1>27 DEF Posted, Leaves, Goes, NewRenderer
<1>28. CASE BeatSends
  BY <1>28 DEF BeatSends
<1>29. CASE BeatSent
  BY <1>29 DEF BeatSent
<1>30. QED
  BY <1>1, <1>2, <1>3, <1>4, <1>5, <1>6, <1>7, <1>8, <1>9, <1>10, <1>11, <1>12, <1>13, <1>14, <1>15,
     <1>16, <1>17, <1>18, <1>19, <1>20, <1>21, <1>22, <1>23, <1>24, <1>25, <1>26, <1>27, <1>28,
     <1>29
     DEF Next, Take, Ending

\* A message that waits for events was waiting for them, or begins to.
LEMMA WaitedOrBegins ==
  ASSUME TypeOK, [Next]_vars, NEW w \in Msg, task'[w] = "streaming"
  PROVE  task[w] = "streaming" \/ Begin(w)
<1> USE DEF TypeOK, turnVars, stateVars, wireVars, runnerVars, beatVars, showVars, pastVars
<1>1. CASE UNCHANGED vars
  BY <1>1 DEF vars
<1>2. CASE HandleSend
  BY <1>2 DEF HandleSend, Handles, StartTurn, FailAtOnce, Reports
<1>3. CASE HandleOpen
  BY <1>3 DEF HandleOpen, Handles, Reports
<1>4. CASE StartReturns
  BY <1>4 DEF StartReturns, Reports
<1>5. CASE HandleClose
  BY <1>5 DEF HandleClose, Handles, Stops, Reports
<1>6. CASE Reap
  BY <1>6 DEF Reap, Stops, Reports
<1>7. CASE Refuse
  BY <1>7 DEF Refuse, Reports
<1>8. ASSUME NEW k \in {"text", "result"}, Emit(k) PROVE task[w] = "streaming" \/ Begin(w)
  BY <1>8 DEF Emit, Reports
<1>9. CASE EndTurn
  BY <1>9 DEF EndTurn, Reports
<1>10. CASE TaskDone
  BY <1>10 DEF TaskDone
<1>11. CASE Deliver
  BY <1>11 DEF Deliver, Tells
<1>12. CASE Drop
  BY <1>12 DEF Drop, Cut, Tells
<1>13. CASE Dial
  BY <1>13 DEF Dial
<1>14. CASE Reopen
  BY <1>14 DEF Reopen, Tells
<1>15. CASE Close
  BY <1>15 DEF Close
<1>16. CASE CloseTimesOut
  BY <1>16 DEF CloseTimesOut
<1>17. ASSUME NEW m \in Msg, Arrive(m) PROVE task[w] = "streaming" \/ Begin(w)
  BY <1>17 DEF Arrive, Goes
<1>18. ASSUME NEW m \in Msg, Begin(m) PROVE task[w] = "streaming" \/ Begin(w)
  BY <1>18 DEF Begin, Goes, NewRenderer, Holds
<1>19. ASSUME NEW m \in Msg, BeginFails(m) PROVE task[w] = "streaming" \/ Begin(w)
  BY <1>19 DEF BeginFails, Goes, NewRenderer, Holds
<1>20. ASSUME NEW m \in Msg, TakeText(m) PROVE task[w] = "streaming" \/ Begin(w)
  BY <1>20 DEF TakeText, Takes, Rest, First
<1>21. ASSUME NEW m \in Msg, TakeResult(m) PROVE task[w] = "streaming" \/ Begin(w)
  BY <1>21 DEF TakeResult, Takes, Rest, First
<1>22. ASSUME NEW m \in Msg, TakeEnd(m) PROVE task[w] = "streaming" \/ Begin(w)
  BY <1>22 DEF TakeEnd, Takes, Goes, NoQueue, First
<1>23. ASSUME NEW m \in Msg, TakeError(m) PROVE task[w] = "streaming" \/ Begin(w)
  BY <1>23 DEF TakeError, Takes, Goes, NoQueue, First
<1>24. ASSUME NEW m \in Msg, CancelBeat(m) PROVE task[w] = "streaming" \/ Begin(w)
  BY <1>24 DEF CancelBeat, Goes
<1>25. ASSUME NEW m \in Msg, Deleted(m) PROVE task[w] = "streaming" \/ Begin(w)
  BY <1>25 DEF Deleted, Goes
<1>26. ASSUME NEW m \in Msg, DeleteFails(m) PROVE task[w] = "streaming" \/ Begin(w)
  BY <1>26 DEF DeleteFails, Leaves, Goes, NewRenderer
<1>27. ASSUME NEW m \in Msg, Posted(m) PROVE task[w] = "streaming" \/ Begin(w)
  BY <1>27 DEF Posted, Leaves, Goes, NewRenderer
<1>28. CASE BeatSends
  BY <1>28 DEF BeatSends
<1>29. CASE BeatSent
  BY <1>29 DEF BeatSent
<1>30. QED
  BY <1>1, <1>2, <1>3, <1>4, <1>5, <1>6, <1>7, <1>8, <1>9, <1>10, <1>11, <1>12, <1>13, <1>14, <1>15,
     <1>16, <1>17, <1>18, <1>19, <1>20, <1>21, <1>22, <1>23, <1>24, <1>25, <1>26, <1>27, <1>28,
     <1>29
     DEF Next, Take, Ending

-----------------------------------------------------------------------------
(* The theorem.                                                            *)

WholeInv == TurnsInv /\ WireInv /\ DownInv /\ SentOnce /\ AnswerInv

\* Nothing is sent, reported or shown at first.
LEMMA WholeInvInit == Init => WholeInv
<1> SUFFICES ASSUME Init PROVE WireInv /\ DownInv /\ SentOnce /\ AnswerInv
  BY TurnsInvInit DEF WholeInv
<1>1. WireInv /\ DownInv
  BY DEF Init, WireInv, DownInv, Dead, Driving, NoOpen, OneOpen, NoClosed, NoneTold, NoQueue
<1>2. SentOnce
  BY NoneIsNoMessage DEF Init, SentOnce, Sent
<1>3. TurnIsAwaited /\ NothingOfTurns
  BY DEF Init, TurnIsAwaited, Driving, NotSent, Sent, NothingOfTurns, NoneSpoken
<1>4. \A m \in Msg : task[m] = "new"
  BY DEF Init
<1>5. AnswerIsWhole
  BY <1>4 DEF AnswerIsWhole
<1> QED
  BY <1>1, <1>2, <1>3, <1>4, <1>5 DEF AnswerInv

\* Steps keep what waits for a message, and what it is shown.
LEMMA AnswerStep ==
  ASSUME WholeInv, TurnsInv', [Next]_vars
  PROVE  AnswerInv'
<1> SUFFICES ASSUME clean' PROVE /\ TurnIsAwaited' /\ NothingOfTurns' /\ AnswerIsWhole'
                                /\ \A w \in Msg : task'[w] = "streaming" =>
                                     EndIsLast(w)' /\ OwnText(w)' /\ ReadsWhole(w)'
  BY DEF AnswerInv
<1>1. TypeOK /\ OneAtATime /\ WireInv /\ DownInv /\ SentOnce
  BY DEF WholeInv, TurnsInv
<1>2. clean
  BY <1>1, CleanWas
<1>3. /\ TurnIsAwaited /\ NothingOfTurns /\ AnswerIsWhole
      /\ \A m \in Msg : task[m] = "streaming" => EndIsLast(m) /\ OwnText(m) /\ ReadsWhole(m)
  BY <1>2 DEF WholeInv, AnswerInv
<1>4. \A m \in Msg : task[m] = "streaming" => queue.on
  BY DEF WholeInv, TurnsInv, WaitsForFinal
<1>5. TurnIsAwaited' /\ NothingOfTurns'
  BY <1>1, <1>3, AwaitedKept, NothingKept
<1>6. AnswerIsWhole'
  BY <1>1, <1>2, <1>3, AnswerKept
<1>7. ASSUME NEW w \in Msg, task'[w] = "streaming"
      PROVE  EndIsLast(w)' /\ OwnText(w)' /\ ReadsWhole(w)'
  <2>1. CASE task[w] = "streaming"
    <3>1. queue.on /\ EndIsLast(w) /\ OwnText(w) /\ ReadsWhole(w)
      BY <1>3, <1>4, <2>1
    <3>2. EndIsLast(w)'
      BY <1>1, <1>3, <1>7, <2>1, <3>1, EndsKept
    <3>3. OwnText(w)'
      BY <1>1, <1>3, <1>7, <2>1, <3>1, OwnKept
    <3>4. ReadsWhole(w)'
      BY <1>1, <1>3, <1>7, <2>1, <3>1, WholeKept
    <3> QED
      BY <3>2, <3>3, <3>4
  <2>2. CASE Begin(w)
    BY <1>1, <1>3, <2>2, BeginMakes
  <2> QED
    BY <1>1, <1>7, <2>1, <2>2, WaitedOrBegins
<1> QED
  BY <1>5, <1>6, <1>7

\* What the link, the runner and the bridge have of a turn, between them, is the whole of
\* it and of it alone, through drops, re-opens, closes and reaping, for all messages and
\* bounds.
THEOREM AnswerSafety == Spec => []WholeInv
<1>1. WholeInv /\ TurnsInv' /\ [Next]_vars => WholeInv'
  <2> SUFFICES ASSUME WholeInv, TurnsInv', [Next]_vars PROVE WholeInv'
    OBVIOUS
  <2>1. TypeOK /\ OneAtATime
    BY DEF WholeInv, TurnsInv
  <2>2. WireInv' /\ DownInv' /\ SentOnce'
    BY <2>1, WireKept, DownKept, SentKept DEF WholeInv
  <2>3. AnswerInv'
    BY AnswerStep
  <2> QED
    BY <2>2, <2>3 DEF WholeInv
<1> QED
  BY <1>1, WholeInvInit, TurnSafety, PTL DEF Spec

\* The answer that a message is shown is all of what its own turn said after its last
\* tool result, and nothing else, as long as no error of the runner cut a turn short.
THEOREM AnswerIsWholeAlways == Spec => []AnswerIsWhole
<1>1. WholeInv => AnswerIsWhole
  BY DEF WholeInv, AnswerInv, AnswerIsWhole
<1> QED
  BY <1>1, AnswerSafety, PTL

=============================================================================
