------------------------------ MODULE Sources -------------------------------
(***************************************************************************)
(* The vocabulary of results (internal/domain/status.go), the four sources *)
(* and how what they say is judged (internal/sources/sources.go, and the   *)
(* rules of internal/browser/browser.go about errors and replies).  A text *)
(* is the set of the phrases in it that some rule looks for; an error is   *)
(* the kind of words in its message.                                       *)
(***************************************************************************)
EXTENDS Integers, FiniteSets

Confirmed == {"found", "not_found"}
Failures  == {"retryable_error", "fatal_error"}
Statuses  == Confirmed \cup Failures \cup {"pending", "running", "needs_review"}

Exceptional == {"busy", "exception", "captcha"}
Blank       == {"blank"}                    \* nothing visible in the result's place
AllTexts    == (SUBSET (Exceptional \cup {"no_record"})) \cup {Blank}

(***************************************************************************)
(* "contract" are the words that both rules about errors know (selector,   *)
(* contract, invalid), "config" those that ClassifyError alone knows       *)
(* (unsupported, configuration), "busy" and "page" are the messages of     *)
(* Classify, and "reply" that of decodeCSRCSearch.                         *)
(***************************************************************************)
Transport == {"plain", "contract", "config"}
Errors    == Transport \cup {"busy", "page", "reply"}
NoError   == "none"

ClassifyError(err) ==
    CASE err = NoError -> "pending"
      [] err \in {"contract", "config"} -> "fatal_error"
      [] OTHER -> "retryable_error"

IsRetryable(err) == err # "contract"

Outcome(status, err) == [status |-> status, err |-> err]

Classify(text) ==
    CASE text = Blank -> Outcome("fatal_error", "page")
      [] "busy" \in text -> Outcome("retryable_error", "busy")
      [] text \cap {"busy", "exception"} = {"exception"} -> Outcome("fatal_error", "page")
      [] text \cap Exceptional = {"captcha"} -> Outcome("needs_review", NoError)
      [] text = {"no_record"} -> Outcome("not_found", NoError)
      [] text = {} -> Outcome("found", NoError)

\* The reply of the CSRC's search service.
Reply == [code : {200, 500}, fields : BOOLEAN, total : -1 .. 1, results : 0 .. 2]

\* Mutated: an empty list is taken for an answer whatever the total is.
IncompleteShort(r) == r.code # 200 \/ ~r.fields \/ r.total < r.results

Incomplete(r) ==
    \/ r.code # 200
    \/ ~r.fields                            \* data, total or results is missing
    \/ r.total < 0 \/ r.total < r.results
    \/ r.total > 0 /\ r.results = 0

\* What replies.results makes of the page: the table, or "nothing found".
Rendered(r) == IF r.results = 0 THEN {"no_record"} ELSE {}

\* human: needs a person; direct: asks the service, not the page; controls:
\* has an input and a way to submit; complete: the other fields are there.
Registry ==
    [csrc            |-> [human |-> FALSE, direct |-> TRUE,  controls |-> TRUE, complete |-> TRUE, retries |-> 2],
     sse_disclosure  |-> [human |-> FALSE, direct |-> FALSE, controls |-> TRUE, complete |-> TRUE, retries |-> 2],
     szse_disclosure |-> [human |-> FALSE, direct |-> FALSE, controls |-> TRUE, complete |-> TRUE, retries |-> 2],
     shixin_csrc     |-> [human |-> TRUE,  direct |-> FALSE, controls |-> TRUE, complete |-> TRUE, retries |-> 0]]

PreflightContract(source) ==
    source.complete /\ source.retries >= 0 /\ (~source.human => source.controls)

\* The branches for a broken contract are for maintainers: no run takes them.
ASSUME ContractsHold == \A id \in DOMAIN Registry : PreflightContract(Registry[id])
=============================================================================
