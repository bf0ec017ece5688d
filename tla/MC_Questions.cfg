SPECIFICATION Spec
CONSTANTS
  Tap = {t1, t2}
  Count = 3
  Multi <- SecondIsMulti
  Option = {o1, o2}
  MaxAnswers = 5
INVARIANTS
  TypeOK
  AnswersInPlace
  OneVerdict
PROPERTIES
  AnsweredIsSent
CHECK_DEADLOCK FALSE
