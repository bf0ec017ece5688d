-------------------------- MODULE Questions_proofs --------------------------
(***************************************************************************)
(* Proofs about Questions for every number of questions, every choice of   *)
(* multiSelect ones and every finite number of handlers.                   *)
(***************************************************************************)
EXTENDS Questions, FiniteSetTheorems, TLAPS

\* Handlers that have recorded an answer and not yet advanced.
Recorded == {t \in Tap : at[t] = "recorded"}

\* Every advance is paid for by an answer of its own.
AnswersAreCounted == Len(answers) >= current + Cardinality(Recorded)

AnswersAreOrdered ==
  /\ \A i, j \in DOMAIN answers : i < j => answers[i] <= answers[j]
  /\ \A i \in DOMAIN answers : answers[i] <= current

\* Where an answer is not at its question's place, a question was answered twice
\* before it.
AnswersHavePlaces ==
  \A i \in DOMAIN answers :
    /\ answers[i] <= i - 1
    /\ answers[i] # i - 1 => \E q \in Question : AnsweredTwice(i, q)

\* A handler that finalizes has passed the last question.
ClosersAreDone ==
  /\ \A t \in Tap : at[t] = "closing" => current >= Count
  /\ \A i \in DOMAIN sent : sent[i] = "answers" => Len(answers) >= Count

\* Before the card is out nobody can tap.
NoTapsBeforeCard ==
  card = NoCard => shown = {} /\ \A t \in Tap : at[t] = "idle"

\* The right to resolve the request is with one party at a time.
OneHolder ==
  /\ render \in {"asked", "texting"} => ~pending /\ sent = <<>> /\ card = NoCard
  /\ pending => sent = <<>> /\ \A t \in Tap : at[t] # "closing"
  /\ \A t \in Tap : at[t] = "closing" => sent = <<>>
  /\ \A t, u \in Tap : at[t] = "closing" /\ at[u] = "closing" => t = u
  /\ render = "sending" /\ card = NoCard => sent = <<>>
  /\ OneVerdict

QuestionInv ==
  /\ TypeOK
  /\ AnswersAreCounted /\ AnswersAreOrdered /\ AnswersHavePlaces /\ ClosersAreDone
  /\ NoTapsBeforeCard /\ OneHolder

-----------------------------------------------------------------------------

\* A resolution adds one verdict, unless the link is down.
LEMMA ResolveAppends ==
  ASSUME sent \in Seq(Verdict)
  PROVE  /\ ResolveRaises => session = "gone" /\ sent' = sent
         /\ \A v \in Verdict : Resolve(v) =>
              /\ sent' \in Seq(Verdict)
              /\ Len(sent') = Len(sent) + 1 /\ sent' # <<>>
              /\ \A i \in DOMAIN sent' :
                   sent'[i] = v \/ (i \in DOMAIN sent /\ sent'[i] = sent[i])
<1>1. ASSUME NEW v \in Verdict, sent' = Append(sent, v)
      PROVE  /\ sent' \in Seq(Verdict) /\ Len(sent') = Len(sent) + 1
             /\ DOMAIN sent' = 1 .. Len(sent) + 1 /\ DOMAIN sent = 1 .. Len(sent)
             /\ \A i \in 1 .. Len(sent) : sent'[i] = sent[i]
             /\ sent'[Len(sent) + 1] = v
  BY <1>1
<1>2. Len(sent) \in Nat
  OBVIOUS
<1>3. ASSUME NEW v \in Verdict, sent' = Append(sent, v)
      PROVE  /\ sent' # <<>>
             /\ \A i \in DOMAIN sent' :
                  sent'[i] = v \/ (i \in DOMAIN sent /\ sent'[i] = sent[i])
  <2>0. Len(sent') = Len(sent) + 1
    BY <1>1, <1>3
  <2>1. Len(sent') # 0
    BY <1>2, <2>0
  <2>2. \A i \in 1 .. Len(sent) + 1 : i = Len(sent) + 1 \/ i \in 1 .. Len(sent)
    BY <1>2
  <2>3. \A i \in DOMAIN sent' :
          sent'[i] = v \/ (i \in DOMAIN sent /\ sent'[i] = sent[i])
    BY <1>1, <1>3, <2>2
  <2>4. sent' # <<>>
    BY <2>1
  <2>5. QED
    BY <2>3, <2>4
<1>4. QED
  BY <1>1, <1>3 DEF Resolve, ResolveRaises

\* A flow begins in its types.
LEMMA QuestionsTypesInit == Init => TypeOK
<1> SUFFICES ASSUME Init PROVE TypeOK
  OBVIOUS
<1>1. selected \in [Question -> SUBSET Option]
  BY DEF Init
<1>2. edit \in [Tap -> 0 .. Count + 1] /\ at \in [Tap -> {"idle"}]
  BY CountIsPositive DEF Init, NoCard
<1>3. card \in 0 .. Count + 1 /\ current \in Nat
  BY CountIsPositive DEF Init, NoCard
<1>4. answers \in Seq(Question) /\ sent \in Seq(Verdict)
  BY DEF Init
<1>5. QED
  BY <1>1, <1>2, <1>3, <1>4 DEF Init, TypeOK

\* Every variable stays in its type: an answer is to a question, an edit shows a
\* question, the summary or nothing.
LEMMA TypeKept == TypeOK /\ [Next]_vars => TypeOK'
<1> SUFFICES ASSUME TypeOK, [Next]_vars PROVE TypeOK'
  OBVIOUS
<1> USE CountIsPositive, MultiAreQuestions
<1> USE DEF TypeOK, Question, NoCard, flowVars, tapVars, cardVars
<1>1. CASE UNCHANGED vars
  BY <1>1 DEF vars
<1>2. CASE SessionEnds
  BY <1>2 DEF SessionEnds
<1>3. CASE NoQuestions
  <2>1. "malformed" \in Verdict
    BY DEF Verdict
  <2>2. QED
    BY <1>3, <2>1, ResolveAppends DEF NoQuestions
<1>4. CASE FreeText
  BY <1>4 DEF FreeText
<1>5. CASE TextPosted
  <2>1. "reply" \in Verdict
    BY DEF Verdict
  <2>2. QED
    BY <1>5, <2>1, ResolveAppends DEF TextPosted
<1>6. CASE Register
  BY <1>6 DEF Register
<1>7. CASE CardPosted
  BY <1>7 DEF CardPosted
<1>8. CASE CardSent
  BY <1>8 DEF CardSent
<1>9. CASE CardRefused
  <2>1. "unsendable" \in Verdict
    BY DEF Verdict
  <2>2. QED
    BY <1>9, <2>1, ResolveAppends DEF CardRefused
<1>10. CASE CardFails
  BY <1>10 DEF CardFails
<1>11. ASSUME NEW t \in Tap, Choose(t) PROVE TypeOK'
  BY <1>11 DEF Choose, CanTap, Record
<1>12. ASSUME NEW t \in Tap, Submit(t) PROVE TypeOK'
  BY <1>12 DEF Submit, CanTap, Record
<1>13. ASSUME NEW t \in Tap, AnswerFails(t) PROVE TypeOK'
  BY <1>13 DEF AnswerFails
<1>14. ASSUME NEW t \in Tap, AdvanceToNext(t) PROVE TypeOK'
  BY <1>14 DEF AdvanceToNext, Shows
<1>15. ASSUME NEW t \in Tap, Finalize(t) PROVE TypeOK'
  <2>1. current' \in Nat /\ edit' \in [Tap -> 0 .. Count + 1]
    BY <1>15 DEF Finalize, Shows, Summary
  <2>2. at' \in [Tap -> {"idle", "recorded", "toggled", "editing", "closing"}]
    BY <1>15 DEF Finalize
  <2>3. QED
    BY <1>15, <2>1, <2>2 DEF Finalize
<1>16. ASSUME NEW t \in Tap, Redraw(t) PROVE TypeOK'
  BY <1>16 DEF Redraw, Shows
<1>17. ASSUME NEW t \in Tap, Edited(t) PROVE TypeOK'
  BY <1>17 DEF Edited, Apply
<1>18. ASSUME NEW t \in Tap, Finalized(t) PROVE TypeOK'
  <2>1. "answers" \in Verdict
    BY DEF Verdict
  <2>2. sent' \in Seq(Verdict)
    BY <1>18, <2>1, ResolveAppends DEF Finalized
  <2>3. card' \in 0 .. Count + 1 /\ shown' \subseteq Question
    BY <1>18 DEF Finalized, Apply
  <2>4. QED
    BY <1>18, <2>2, <2>3 DEF Finalized
<1>19. ASSUME NEW t \in Tap, FinalizeFails(t) PROVE TypeOK'
  BY <1>19 DEF FinalizeFails, Apply
<1>20. ASSUME NEW t \in Tap, NEW o \in Option, Toggle(t, o) PROVE TypeOK'
  BY <1>20 DEF Toggle, CanTap
<1>21. QED
  BY <1>1, <1>2, <1>3, <1>4, <1>5, <1>6, <1>7, <1>8, <1>9, <1>10, <1>11,
    <1>12, <1>13, <1>14, <1>15, <1>16, <1>17, <1>18, <1>19, <1>20 DEF Next,
    Reader, Handler

\* Every variable of a flow stays in its type, whatever the order of taps, edits
\* and failures.
THEOREM QuestionsTypes == Spec => []TypeOK
<1>1. QED
  BY QuestionsTypesInit, TypeKept, PTL DEF Spec

-----------------------------------------------------------------------------

\* What a step does to the answers: one more handler has recorded one; a handler
\* that had advances or dies; or nothing.
Moves ==
  \/ /\ \E t \in Tap \ Recorded : Recorded' = Recorded \cup {t}
     /\ current \in Question
     /\ answers' = Append(answers, current) /\ current' = current
  \/ /\ \E t \in Recorded : Recorded' = Recorded \ {t}
     /\ answers' = answers /\ current' \in {current, current + 1}
  \/ Recorded' = Recorded /\ answers' = answers /\ current' = current

\* Every step of the flow is such a move.
LEMMA EveryStepMoves == TypeOK /\ [Next]_vars => Moves
<1> SUFFICES ASSUME TypeOK, [Next]_vars PROVE Moves
  OBVIOUS
<1> USE DEF TypeOK, Recorded, Moves, flowVars, tapVars, cardVars
<1>1. CASE UNCHANGED vars
  BY <1>1 DEF vars
<1>2. CASE SessionEnds
  BY <1>2 DEF SessionEnds
<1>3. CASE NoQuestions
  BY <1>3 DEF NoQuestions, Resolve, ResolveRaises
<1>4. CASE FreeText
  BY <1>4 DEF FreeText
<1>5. CASE TextPosted
  BY <1>5 DEF TextPosted, Resolve, ResolveRaises
<1>6. CASE Register
  BY <1>6 DEF Register
<1>7. CASE CardPosted
  BY <1>7 DEF CardPosted
<1>8. CASE CardSent
  BY <1>8 DEF CardSent
<1>9. CASE CardRefused
  BY <1>9 DEF CardRefused, Resolve, ResolveRaises
<1>10. CASE CardFails
  BY <1>10 DEF CardFails
<1>11. ASSUME NEW t \in Tap, Choose(t) PROVE Moves
  BY <1>11 DEF Choose, CanTap, Record
<1>12. ASSUME NEW t \in Tap, Submit(t) PROVE Moves
  BY <1>12 DEF Submit, CanTap, Record
<1>13. ASSUME NEW t \in Tap, AnswerFails(t) PROVE Moves
  BY <1>13 DEF AnswerFails
<1>14. ASSUME NEW t \in Tap, AdvanceToNext(t) PROVE Moves
  BY <1>14 DEF AdvanceToNext, Shows
<1>15. ASSUME NEW t \in Tap, Finalize(t) PROVE Moves
  BY <1>15 DEF Finalize, Shows, Summary
<1>16. ASSUME NEW t \in Tap, Redraw(t) PROVE Moves
  BY <1>16 DEF Redraw, Shows
<1>17. ASSUME NEW t \in Tap, Edited(t) PROVE Moves
  BY <1>17 DEF Edited, Apply
<1>18. ASSUME NEW t \in Tap, Finalized(t) PROVE Moves
  BY <1>18 DEF Finalized, Apply, Resolve, ResolveRaises
<1>19. ASSUME NEW t \in Tap, FinalizeFails(t) PROVE Moves
  BY <1>19 DEF FinalizeFails, Apply
<1>20. ASSUME NEW t \in Tap, NEW o \in Option, Toggle(t, o) PROVE Moves
  BY <1>20 DEF Toggle, CanTap
<1>21. QED
  BY <1>1, <1>2, <1>3, <1>4, <1>5, <1>6, <1>7, <1>8, <1>9, <1>10, <1>11,
    <1>12, <1>13, <1>14, <1>15, <1>16, <1>17, <1>18, <1>19, <1>20 DEF Next,
    Reader, Handler

\* Moves keep the count: each advance has its answer.
LEMMA CountKept ==
  TypeOK /\ TypeOK' /\ AnswersAreCounted /\ Moves => AnswersAreCounted'
<1> SUFFICES ASSUME TypeOK, TypeOK', AnswersAreCounted, Moves
             PROVE  AnswersAreCounted'
  OBVIOUS
<1>1. IsFiniteSet(Recorded)
  BY TapsAreFinite, FS_Subset DEF Recorded
<1>2. Cardinality(Recorded) \in Nat
  BY <1>1, FS_CardinalityType
<1>3. ASSUME NEW t \in Tap \ Recorded, Recorded' = Recorded \cup {t},
             answers' = Append(answers, current), current' = current,
             current \in Question
      PROVE  AnswersAreCounted'
  <2>1. Cardinality(Recorded') = Cardinality(Recorded) + 1
    BY <1>1, <1>3, FS_AddElement
  <2>2. Len(answers') = Len(answers) + 1
    BY <1>3 DEF TypeOK
  <2>3. QED
    BY <1>2, <1>3, <2>1, <2>2 DEF AnswersAreCounted, TypeOK
<1>4. ASSUME NEW t \in Recorded, Recorded' = Recorded \ {t},
             answers' = answers, current' \in {current, current + 1}
      PROVE  AnswersAreCounted'
  <2>1. Cardinality(Recorded') = Cardinality(Recorded) - 1
    BY <1>1, <1>4, FS_RemoveElement
  <2>2. QED
    BY <1>2, <1>4, <2>1 DEF AnswersAreCounted, TypeOK
<1>5. CASE Recorded' = Recorded /\ answers' = answers /\ current' = current
  BY <1>5 DEF AnswersAreCounted
<1>6. QED
  BY <1>3, <1>4, <1>5 DEF Moves

\* Moves keep the order: what is recorded is for the current question.
LEMMA OrderKept ==
  TypeOK /\ TypeOK' /\ AnswersAreOrdered /\ Moves => AnswersAreOrdered'
<1> SUFFICES ASSUME TypeOK, TypeOK', AnswersAreOrdered, Moves
             PROVE  AnswersAreOrdered'
  OBVIOUS
<1>1. CASE answers' = Append(answers, current) /\ current' = current
  <2>1. /\ Len(answers') = Len(answers) + 1
        /\ \A i \in DOMAIN answers' :
             answers'[i] = IF i \in DOMAIN answers THEN answers[i] ELSE current
        /\ DOMAIN answers' = 1 .. Len(answers) + 1
        /\ DOMAIN answers = 1 .. Len(answers)
    BY <1>1 DEF TypeOK
  <2>2. \A i \in DOMAIN answers : answers[i] \in Nat
    BY CountIsPositive DEF TypeOK, Question
  <2>3. Len(answers) \in Nat /\ current \in Nat
    BY DEF TypeOK
  <2>4. \A i \in DOMAIN answers' : answers'[i] <= current
    BY <2>1, <2>2, <2>3 DEF AnswersAreOrdered
  <2>5. ASSUME NEW i \in DOMAIN answers', NEW j \in DOMAIN answers', i < j
        PROVE  answers'[i] <= answers'[j]
    <3>1. i \in DOMAIN answers
      BY <2>1, <2>3, <2>5
    <3>2. CASE j \in DOMAIN answers
      BY <2>1, <2>5, <3>1, <3>2 DEF AnswersAreOrdered
    <3>3. CASE j \notin DOMAIN answers
      BY <2>1, <3>1, <3>3 DEF AnswersAreOrdered
    <3>4. QED
      BY <3>2, <3>3
  <2>6. QED
    BY <1>1, <2>4, <2>5 DEF AnswersAreOrdered
<1>2. CASE answers' = answers /\ current' \in {current, current + 1}
  <2>1. \A i \in DOMAIN answers : answers[i] \in Nat
    BY CountIsPositive DEF TypeOK, Question
  <2>2. QED
    BY <1>2, <2>1 DEF AnswersAreOrdered, TypeOK
<1>3. QED
  BY <1>1, <1>2 DEF Moves

\* Moves keep the places: an answer beyond its question's place meets the one that
\* already stands there.
LEMMA PlacesKept ==
  /\ TypeOK /\ TypeOK' /\ AnswersAreCounted /\ AnswersHavePlaces /\ Moves
  => AnswersHavePlaces'
<1> SUFFICES ASSUME TypeOK, TypeOK', AnswersAreCounted, AnswersHavePlaces, Moves
             PROVE  AnswersHavePlaces'
  OBVIOUS
<1>1. CASE answers' = answers
  BY <1>1 DEF AnswersHavePlaces, AnsweredTwice
<1>2. CASE answers' = Append(answers, current) /\ current \in Question
  <2> DEFINE n == Len(answers)
             Twice(m, q) ==
               \E i, j \in 1 .. m : i < j /\ answers'[i] = q /\ answers'[j] = q
  <2>1. n \in Nat /\ DOMAIN answers = 1 .. n /\ DOMAIN answers' = 1 .. n + 1
    BY <1>2 DEF TypeOK
  <2>2. /\ \A i \in 1 .. n : answers'[i] = answers[i]
        /\ answers'[n + 1] = current
    BY <1>2 DEF TypeOK
  <2>3. current \in Nat /\ current <= n
    <3>1. Cardinality(Recorded) \in Nat
      BY TapsAreFinite, FS_Subset, FS_CardinalityType DEF Recorded
    <3>2. QED
      BY <2>1, <3>1 DEF AnswersAreCounted, TypeOK
  <2>4. \A i \in 1 .. n : answers[i] <= i - 1
    BY <2>1 DEF AnswersHavePlaces
  <2> HIDE DEF n
  <2>5. ASSUME NEW i \in 1 .. n, answers[i] # i - 1
        PROVE  \E q \in Question : Twice(i, q)
    <3>1. PICK q \in Question : AnsweredTwice(i, q)
      BY <2>1, <2>5 DEF AnswersHavePlaces
    <3>2. \A j \in 1 .. i : j \in 1 .. n
      BY <2>1
    <3>3. Twice(i, q)
      BY <2>2, <3>1, <3>2 DEF AnsweredTwice
    <3>4. QED
      BY <3>3
  <2>6. ASSUME current # n
        PROVE  \E q \in Question : Twice(n + 1, q)
    <3>1. current + 1 \in 1 .. n
      BY <2>1, <2>3, <2>6
    <3>2. CASE answers[current + 1] = current
      <4>1. /\ current + 1 \in 1 .. n + 1 /\ n + 1 \in 1 .. n + 1
            /\ current + 1 < n + 1
        BY <2>1, <3>1
      <4>2. answers'[current + 1] = current /\ answers'[n + 1] = current
        BY <2>2, <3>1, <3>2
      <4>3. Twice(n + 1, current)
        BY <4>1, <4>2
      <4>4. current \in Question
        BY <1>2
      <4>5. QED
        BY <4>3, <4>4
    <3>3. CASE answers[current + 1] # current
      <4>1. (current + 1) - 1 = current
        BY <2>3
      <4>2. PICK q \in Question : Twice(current + 1, q)
        BY <2>5, <3>1, <3>3, <4>1
      <4>3. \A j \in 1 .. current + 1 : j \in 1 .. n + 1
        BY <2>1, <2>3
      <4>4. Twice(n + 1, q)
        BY <4>2, <4>3
      <4>5. QED
        BY <4>4
    <3>4. QED
      BY <3>2, <3>3
  <2>7. \A i \in DOMAIN answers' : answers'[i] <= i - 1
    <3>1. \A i \in 1 .. n + 1 : i \in 1 .. n \/ i = n + 1
      BY <2>1
    <3>2. answers'[n + 1] <= (n + 1) - 1
      BY <2>1, <2>2, <2>3
    <3>3. QED
      BY <2>4, <2>1, <2>2, <3>1, <3>2
  <2>9. ASSUME NEW i \in DOMAIN answers', answers'[i] # i - 1
        PROVE  \E q \in Question : Twice(i, q)
    <3>1. i \in 1 .. n \/ i = n + 1
      BY <2>1
    <3>2. CASE i \in 1 .. n
      BY <2>2, <2>5, <2>9, <3>2
    <3>3. CASE i = n + 1
      <4>1. current # n
        BY <2>1, <2>2, <2>9, <3>3
      <4>2. QED
        BY <2>6, <3>3, <4>1
    <3>4. QED
      BY <3>1, <3>2, <3>3
  <2>8. \A i \in DOMAIN answers' : \A q \in Question :
          Twice(i, q) => AnsweredTwice(i, q)'
    BY DEF AnsweredTwice
  <2> HIDE DEF Twice
  <2>10. QED
    BY <2>7, <2>8, <2>9 DEF AnswersHavePlaces
<1>3. QED
  BY <1>1, <1>2 DEF Moves

\* No handler runs before the card is out.
LEMMA NoTapsKept ==
  TypeOK /\ NoTapsBeforeCard /\ [Next]_vars => NoTapsBeforeCard'
<1> SUFFICES ASSUME TypeOK, NoTapsBeforeCard, [Next]_vars PROVE NoTapsBeforeCard'
  OBVIOUS
<1> USE CountIsPositive
<1> USE DEF TypeOK, NoTapsBeforeCard, NoCard, flowVars, tapVars, cardVars
<1>1. CASE UNCHANGED vars
  BY <1>1 DEF vars
<1>2. CASE SessionEnds
  BY <1>2 DEF SessionEnds
<1>3. CASE NoQuestions
  BY <1>3 DEF NoQuestions, Resolve, ResolveRaises
<1>4. CASE FreeText
  BY <1>4 DEF FreeText
<1>5. CASE TextPosted
  BY <1>5 DEF TextPosted, Resolve, ResolveRaises
<1>6. CASE Register
  BY <1>6 DEF Register
<1>7. CASE CardPosted
  BY <1>7 DEF CardPosted
<1>8. CASE CardSent
  BY <1>8 DEF CardSent
<1>9. CASE CardRefused
  BY <1>9 DEF CardRefused, Resolve, ResolveRaises
<1>10. CASE CardFails
  BY <1>10 DEF CardFails
<1>11. ASSUME NEW t \in Tap, Choose(t) PROVE NoTapsBeforeCard'
  BY <1>11 DEF Choose, CanTap, Record
<1>12. ASSUME NEW t \in Tap, Submit(t) PROVE NoTapsBeforeCard'
  BY <1>12 DEF Submit, CanTap, Record
<1>13. ASSUME NEW t \in Tap, AnswerFails(t) PROVE NoTapsBeforeCard'
  BY <1>13 DEF AnswerFails
<1>14. ASSUME NEW t \in Tap, AdvanceToNext(t) PROVE NoTapsBeforeCard'
  BY <1>14 DEF AdvanceToNext, Shows
<1>15. ASSUME NEW t \in Tap, Finalize(t) PROVE NoTapsBeforeCard'
  BY <1>15 DEF Finalize, Shows, Summary
<1>16. ASSUME NEW t \in Tap, Redraw(t) PROVE NoTapsBeforeCard'
  BY <1>16 DEF Redraw, Shows
<1>17. ASSUME NEW t \in Tap, Edited(t) PROVE NoTapsBeforeCard'
  BY <1>17 DEF Edited, Apply
<1>18. ASSUME NEW t \in Tap, Finalized(t) PROVE NoTapsBeforeCard'
  BY <1>18 DEF Finalized, Apply, Resolve, ResolveRaises
<1>19. ASSUME NEW t \in Tap, FinalizeFails(t) PROVE NoTapsBeforeCard'
  BY <1>19 DEF FinalizeFails, Apply
<1>20. ASSUME NEW t \in Tap, NEW o \in Option, Toggle(t, o) PROVE NoTapsBeforeCard'
  BY <1>20 DEF Toggle, CanTap
<1>21. QED
  BY <1>1, <1>2, <1>3, <1>4, <1>5, <1>6, <1>7, <1>8, <1>9, <1>10, <1>11,
    <1>12, <1>13, <1>14, <1>15, <1>16, <1>17, <1>18, <1>19, <1>20 DEF Next,
    Reader, Handler

\* Each step hands the right to resolve on, or uses it up.
LEMMA HolderKept ==
  TypeOK /\ NoTapsBeforeCard /\ OneHolder /\ [Next]_vars => OneHolder'
<1> SUFFICES ASSUME TypeOK, NoTapsBeforeCard, OneHolder, [Next]_vars PROVE OneHolder'
  OBVIOUS
<1> USE CountIsPositive
<1> USE DEF TypeOK, NoTapsBeforeCard, OneHolder, OneVerdict, NoCard, flowVars, tapVars,
        cardVars
<1>1. CASE UNCHANGED vars
  BY <1>1 DEF vars
<1>2. CASE SessionEnds
  <2>1. pending' => pending
    BY <1>2 DEF SessionEnds
  <2>2. QED
    BY <1>2, <2>1 DEF SessionEnds
<1>3. CASE NoQuestions
  <2>1. "malformed" \in Verdict
    BY DEF Verdict
  <2>2. sent = <<>> /\ ~pending /\ \A t \in Tap : at[t] = "idle"
    BY <1>3 DEF NoQuestions
  <2>3. Len(sent') <= 1 /\ (session = "open" => sent' # <<>>)
    BY <1>3, <2>1, <2>2, ResolveAppends DEF NoQuestions
  <2>4. QED
    BY <1>3, <2>2, <2>3 DEF NoQuestions
<1>4. CASE FreeText
  BY <1>4 DEF FreeText
<1>5. CASE TextPosted
  <2>1. "reply" \in Verdict
    BY DEF Verdict
  <2>2. sent = <<>> /\ ~pending /\ \A t \in Tap : at[t] = "idle"
    BY <1>5 DEF TextPosted
  <2>3. Len(sent') <= 1 /\ (session = "open" => sent' # <<>>)
    BY <1>5, <2>1, <2>2, ResolveAppends DEF TextPosted
  <2>4. QED
    BY <1>5, <2>2, <2>3 DEF TextPosted
<1>6. CASE Register
  BY <1>6 DEF Register
<1>7. CASE CardPosted
  BY <1>7 DEF CardPosted
<1>8. CASE CardSent
  BY <1>8 DEF CardSent
<1>9. CASE CardRefused
  <2>1. "unsendable" \in Verdict
    BY DEF Verdict
  <2>2. sent = <<>> /\ \A t \in Tap : at[t] = "idle"
    BY <1>9 DEF CardRefused
  <2>3. CASE Resolve("unsendable") /\ pending' = FALSE
    <3>1. Len(sent) = 0
      BY <2>2
    <3>2. Len(sent') = Len(sent) + 1 /\ sent' # <<>>
      BY <2>1, <2>3, ResolveAppends
    <3>3. QED
      BY <1>9, <2>2, <2>3, <3>1, <3>2 DEF CardRefused
  <2>4. CASE ResolveRaises /\ pending' = pending
    BY <1>9, <2>2, <2>4 DEF CardRefused, ResolveRaises
  <2>5. QED
    BY <1>9, <2>3, <2>4 DEF CardRefused
<1>10. CASE CardFails
  BY <1>10 DEF CardFails
<1>11. ASSUME NEW t \in Tap, Choose(t) PROVE OneHolder'
  BY <1>11 DEF Choose, CanTap, Record
<1>12. ASSUME NEW t \in Tap, Submit(t) PROVE OneHolder'
  BY <1>12 DEF Submit, CanTap, Record
<1>13. ASSUME NEW t \in Tap, AnswerFails(t) PROVE OneHolder'
  BY <1>13 DEF AnswerFails
<1>14. ASSUME NEW t \in Tap, AdvanceToNext(t) PROVE OneHolder'
  BY <1>14 DEF AdvanceToNext, Shows
<1>15. ASSUME NEW t \in Tap, Finalize(t) PROVE OneHolder'
  BY <1>15 DEF Finalize, Shows, Summary
<1>16. ASSUME NEW t \in Tap, Redraw(t) PROVE OneHolder'
  BY <1>16 DEF Redraw, Shows
<1>17. ASSUME NEW t \in Tap, Edited(t) PROVE OneHolder'
  BY <1>17 DEF Edited, Apply
<1>18. ASSUME NEW t \in Tap, Finalized(t) PROVE OneHolder'
  <2>1. "answers" \in Verdict
    BY DEF Verdict
  <2>2. QED
    BY <1>18, <2>1, ResolveAppends DEF Finalized, Apply
<1>19. ASSUME NEW t \in Tap, FinalizeFails(t) PROVE OneHolder'
  BY <1>19 DEF FinalizeFails, Apply
<1>20. ASSUME NEW t \in Tap, NEW o \in Option, Toggle(t, o) PROVE OneHolder'
  BY <1>20 DEF Toggle, CanTap
<1>21. QED
  BY <1>1, <1>2, <1>3, <1>4, <1>5, <1>6, <1>7, <1>8, <1>9, <1>10, <1>11,
    <1>12, <1>13, <1>14, <1>15, <1>16, <1>17, <1>18, <1>19, <1>20 DEF Next,
    Reader, Handler

\* Who finalizes has passed the last question, and the answers with it.
LEMMA ClosersKept ==
  /\ TypeOK /\ TypeOK' /\ AnswersAreCounted' /\ ClosersAreDone
  /\ [Next]_vars
  => ClosersAreDone'
<1> SUFFICES ASSUME TypeOK, TypeOK', AnswersAreCounted', ClosersAreDone, [Next]_vars
             PROVE  ClosersAreDone'
  OBVIOUS
<1>0. Len(answers') >= current'
  <2>1. IsFiniteSet(Recorded')
    BY TapsAreFinite, FS_Subset DEF Recorded
  <2>2. Cardinality(Recorded') \in Nat
    BY <2>1, FS_CardinalityType
  <2>3. QED
    BY <2>2 DEF AnswersAreCounted, TypeOK
<1> USE CountIsPositive, <1>0
<1> USE DEF TypeOK, ClosersAreDone, flowVars, tapVars, cardVars
<1>1. CASE UNCHANGED vars
  BY <1>1 DEF vars
<1>2. CASE SessionEnds
  BY <1>2 DEF SessionEnds
<1>3. CASE NoQuestions
  <2>1. "malformed" \in Verdict
    BY DEF Verdict
  <2>2. QED
    BY <1>3, <2>1, ResolveAppends DEF NoQuestions
<1>4. CASE FreeText
  BY <1>4 DEF FreeText
<1>5. CASE TextPosted
  <2>1. "reply" \in Verdict
    BY DEF Verdict
  <2>2. QED
    BY <1>5, <2>1, ResolveAppends DEF TextPosted
<1>6. CASE Register
  BY <1>6 DEF Register
<1>7. CASE CardPosted
  BY <1>7 DEF CardPosted
<1>8. CASE CardSent
  BY <1>8 DEF CardSent
<1>9. CASE CardRefused
  <2>1. "unsendable" \in Verdict
    BY DEF Verdict
  <2>2. QED
    BY <1>9, <2>1, ResolveAppends DEF CardRefused
<1>10. CASE CardFails
  BY <1>10 DEF CardFails
<1>11. ASSUME NEW t \in Tap, Choose(t) PROVE ClosersAreDone'
  BY <1>11 DEF Choose, CanTap, Record
<1>12. ASSUME NEW t \in Tap, Submit(t) PROVE ClosersAreDone'
  BY <1>12 DEF Submit, CanTap, Record
<1>13. ASSUME NEW t \in Tap, AnswerFails(t) PROVE ClosersAreDone'
  BY <1>13 DEF AnswerFails
<1>14. ASSUME NEW t \in Tap, AdvanceToNext(t) PROVE ClosersAreDone'
  BY <1>14 DEF AdvanceToNext, Shows
<1>15. ASSUME NEW t \in Tap, Finalize(t) PROVE ClosersAreDone'
  BY <1>15 DEF Finalize, Shows, Summary
<1>16. ASSUME NEW t \in Tap, Redraw(t) PROVE ClosersAreDone'
  BY <1>16 DEF Redraw, Shows
<1>17. ASSUME NEW t \in Tap, Edited(t) PROVE ClosersAreDone'
  BY <1>17 DEF Edited, Apply
<1>18. ASSUME NEW t \in Tap, Finalized(t) PROVE ClosersAreDone'
  <2>1. "answers" \in Verdict
    BY DEF Verdict
  <2>2. QED
    BY <1>18, <2>1, ResolveAppends DEF Finalized, Apply
<1>19. ASSUME NEW t \in Tap, FinalizeFails(t) PROVE ClosersAreDone'
  BY <1>19 DEF FinalizeFails, Apply
<1>20. ASSUME NEW t \in Tap, NEW o \in Option, Toggle(t, o) PROVE ClosersAreDone'
  BY <1>20 DEF Toggle, CanTap
<1>21. QED
  BY <1>1, <1>2, <1>3, <1>4, <1>5, <1>6, <1>7, <1>8, <1>9, <1>10, <1>11,
    <1>12, <1>13, <1>14, <1>15, <1>16, <1>17, <1>18, <1>19, <1>20 DEF Next,
    Reader, Handler

\* The invariant behind the flow: taps may overlap, but each pays for its advance,
\* and only one party at a time may resolve the request.
THEOREM QuestionSafety == Spec => []QuestionInv
<1>1. Init => QuestionInv
  <2> SUFFICES ASSUME Init PROVE AnswersAreCounted /\ AnswersAreOrdered /\
                                 AnswersHavePlaces /\ ClosersAreDone /\
                                 NoTapsBeforeCard /\ OneHolder
    BY QuestionsTypesInit DEF QuestionInv
  <2>1. Recorded = {}
    BY DEF Init, Recorded
  <2>2. QED
    BY <2>1, FS_EmptySet DEF Init, AnswersAreCounted, AnswersAreOrdered,
      AnswersHavePlaces, ClosersAreDone, NoTapsBeforeCard, OneHolder, OneVerdict
<1>2. QuestionInv /\ [Next]_vars => QuestionInv'
  BY TypeKept, EveryStepMoves, CountKept, OrderKept, PlacesKept, NoTapsKept, HolderKept,
    ClosersKept DEF QuestionInv
<1>3. QED
  BY <1>1, <1>2, PTL DEF Spec

\* However taps overlap and fail, an answer not at its question's place, and a
\* question passed without an answer, come of an earlier question answered twice.
THEOREM AnswersInPlaceAlways == Spec => []AnswersInPlace
<1>1. QuestionInv => AnswersInPlace
  <2> SUFFICES ASSUME QuestionInv PROVE AnswersInPlace
    OBVIOUS
  <2> DEFINE n == Len(answers)
  <2>1. Cardinality(Recorded) \in Nat
    BY TapsAreFinite, FS_Subset, FS_CardinalityType DEF Recorded
  <2>2. n \in Nat /\ current \in Nat /\ n >= current /\ DOMAIN answers = 1 .. n
    BY <2>1 DEF QuestionInv, AnswersAreCounted, TypeOK
  <2>3. ASSUME NEW q \in Question,
               q < current \/ (\E i \in DOMAIN sent : sent[i] = "answers")
        PROVE  \/ \E i \in DOMAIN answers : answers[i] = q
               \/ \E p \in Question : p < q /\ AnsweredTwice(n, p)
    <3>0. q \in Nat /\ q < Count /\ Count \in Nat
      BY CountIsPositive DEF Question
    <3>1. q + 1 \in 1 .. n
      BY <2>2, <2>3, <3>0 DEF QuestionInv, ClosersAreDone
    <3>2. CASE answers[q + 1] = q
      BY <2>2, <3>1, <3>2
    <3>3. CASE answers[q + 1] # q
      <4>1. PICK p \in Question : AnsweredTwice(q + 1, p)
        <5>1. (q + 1) - 1 = q
          BY <3>0
        <5>2. QED
          BY <2>2, <3>1, <3>3, <5>1 DEF QuestionInv, AnswersHavePlaces
      <4>2. AnsweredTwice(n, p)
        <5>1. \A j \in 1 .. q + 1 : j \in 1 .. n
          BY <2>2, <3>0, <3>1
        <5>2. QED
          BY <4>1, <5>1 DEF AnsweredTwice
      <4>3. p < q
        <5>1. PICK i \in 1 .. q + 1 : answers[i] = p
          BY <4>1 DEF AnsweredTwice
        <5>2. i <= q + 1 /\ i \in 1 .. n /\ p \in Nat
          BY <2>2, <3>0, <3>1 DEF Question
        <5>3. answers[q + 1] \in Question
          BY <2>2, <3>1 DEF QuestionInv, TypeOK
        <5>4. answers[q + 1] <= (q + 1) - 1
          BY <2>2, <3>1 DEF QuestionInv, AnswersHavePlaces
        <5>5. /\ i <= q + 1 /\ i \in 1 .. n
              /\ answers[q + 1] <= q /\ answers[q + 1] \in Nat /\ p \in Nat
          BY <3>0, <5>2, <5>3, <5>4 DEF Question
        <5>6. p <= answers[q + 1]
          BY <2>2, <3>0, <3>1, <5>1, <5>5 DEF QuestionInv, AnswersAreOrdered
        <5>7. QED
          BY <3>0, <3>3, <5>5, <5>6
      <4>4. QED
        BY <4>2, <4>3
    <3>4. QED
      BY <3>2, <3>3
  <2>4. QED
    BY <2>2, <2>3 DEF QuestionInv, AnswersAreOrdered, AnswersHavePlaces, AnswersInPlace
<1>2. QED
  BY <1>1, QuestionSafety, PTL

\* A request is resolved once, and never left without a party that can resolve it
\* while its session is there and no handler died.
THEOREM OneVerdictAlways == Spec => []OneVerdict
<1>1. QuestionInv => OneVerdict
  BY DEF QuestionInv, OneHolder
<1>2. QED
  BY <1>1, QuestionSafety, PTL

=============================================================================
