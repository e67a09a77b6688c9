SPECIFICATION Spec
CONSTANTS
    Texts <- MCTexts
    Newline = "nl"
    Questions <- MCQuestions
INVARIANT TerminalIsHeard
INVARIANT FileAnswersOne
PROPERTY QuestionsEnd
CHECK_DEADLOCK FALSE
