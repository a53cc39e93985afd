CONSTANT MaxAttempts = 4
SPECIFICATION Spec
INVARIANTS
  HonestAnswerStands
  PhoneSeesWhole
PROPERTY AcceptsOnlyItsAnswer
