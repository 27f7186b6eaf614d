\* A worker, or a review with a second tab; one source that is asked directly,
\* one by its page, and one that needs a person.  Executors share nothing: one
\* shows what each of them does.
CONSTANTS
    Executors = {e1}
    SourceIds = {"csrc", "sse_disclosure", "shixin_csrc"}
    Texts <- MCTexts
    MaxTabs = 2
SPECIFICATION Spec
INVARIANTS VerdictIsTrue NotFoundIsTrue PictureAgrees TemporaryStaysRetryable
PROPERTIES ExecutionMovesOn
