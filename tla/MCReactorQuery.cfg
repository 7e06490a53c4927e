SPECIFICATION FairSpec
CONSTANTS
  Ops = {o1, o2}
  Slots = {a1, a2}
  Nil = Nil
INVARIANTS
  Consistent
PROPERTIES
  KeepsPromise
  AnswerIsTaken
