\* Every command, with a child, a pipe holder, a canceller and a clock at any moment.
CONSTANTS
  Commands <- MCCommands
SPECIFICATION Spec
INVARIANTS
  TypeOK
  NoChildSurvives
  VerdictIsTrue
  AnswerIsForeseen
PROPERTIES
  DueCountsDown
  EndsOnceDue
CHECK_DEADLOCK FALSE
