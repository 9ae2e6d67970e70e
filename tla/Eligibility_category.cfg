\* An applicant tells one input after another, and may have told all of them.
SPECIFICATION EligibilitySpec
CONSTANTS
    Rules <- SomeRules
    Applicants <- People
    NotStated = NotStated
    Text = Text
CHECK_DEADLOCK FALSE
INVARIANTS
    MissingInputsOpen
