----------------------------- MODULE BrowserRun -----------------------------
(***************************************************************************)
(* What becomes of a task between its claim and its result: the preflight  *)
(* that a worker keeps per source, Run's attempts, the page that is read   *)
(* and pictured, and worker.execute's choice of the result                 *)
(* (internal/browser/browser.go, internal/worker/worker.go).  An action is *)
(* one conversation with the browser; the pages answer when they like.     *)
(* Every worker of a process, and a review, has an Engine of its own:      *)
(* executors share nothing here.                                           *)
(***************************************************************************)
EXTENDS Sources, Sequences

CONSTANTS
    Executors,      \* executors of one process
    SourceIds,      \* the sources that occur
    Texts,          \* the texts that pages show
    MaxTabs         \* bound: tabs of a review's browser

ASSUME BrowserAssumption ==
    /\ SourceIds \subseteq DOMAIN Registry
    /\ Texts \subseteq AllTexts /\ {{}, {"no_record"}, Blank} \subseteq Texts
    /\ MaxTabs \in Nat \ {0}

VARIABLES
    manual,         \* is the process a review?  Otherwise its executors are workers
    interim,        \* do pages write something before their answer?
    cached,         \* executor -> source -> what its preflight gave its Engine
    pc,             \* executor -> what it does next
    source,         \* executor -> its task's source
    hits,           \* executor -> has the source a record of the subject (1)?
    verdict,        \* executor -> the preflight it goes by
    attempt,        \* executor -> the attempt it is in
    shown,          \* executor -> tab -> the text on it
    answered,       \* executor -> did the page write its answer?
    placeholder,    \* executor -> did it say "no record" before that?
    baseline,       \* executor -> the text before the query was sent
    tabs,           \* executor -> the tabs it still looks at
    text,           \* executor -> the text it read
    shot,           \* executor -> the text on the picture it took
    result,         \* executor -> its task's status
    error,          \* executor -> the error recorded with it
    kept            \* executor -> the text on the picture that was saved

given    == <<manual, interim>>     \* what never changes
taskVars == <<source, hits, verdict, result, error, kept>>
pageVars == <<shown, answered, placeholder, baseline>>
readVars == <<tabs, text, shot>>
vars     == <<given, cached, pc, attempt, taskVars, pageVars, readVars>>

Unknown == "unknown"
NoShot  == {"no picture"}

RunPC == {"idle", "lookup", "probe", "keep", "run", "open", "query", "confirm",
          "read", "picture", "classify", "fetch", "render", "save"}

Init ==
    /\ manual \in BOOLEAN /\ interim \in BOOLEAN
    /\ cached = [e \in Executors |-> [s \in SourceIds |-> Unknown]]
    /\ pc = [e \in Executors |-> "idle"]
    /\ source \in [Executors -> SourceIds]
    /\ hits = [e \in Executors |-> 0]
    /\ verdict = [e \in Executors |-> Unknown]
    /\ attempt = [e \in Executors |-> 0]
    /\ shown = [e \in Executors |-> <<Blank>>]
    /\ answered = [e \in Executors |-> FALSE]
    /\ placeholder = [e \in Executors |-> FALSE]
    /\ baseline = [e \in Executors |-> Blank]
    /\ tabs = [e \in Executors |-> <<>>]
    /\ text = [e \in Executors |-> Blank]
    /\ shot = [e \in Executors |-> NoShot]
    /\ result = [e \in Executors |-> "pending"]
    /\ error = [e \in Executors |-> NoError]
    /\ kept = [e \in Executors |-> NoShot]
-----------------------------------------------------------------------------
Adapter(e) == Registry[source[e]]

Goes(e, from, to) == pc[e] = from /\ pc' = [pc EXCEPT ![e] = to]

\* runOnce returned: its browser is closed and what it read is gone.
Closed(e) ==
    /\ shown' = [shown EXCEPT ![e] = <<Blank>>]
    /\ answered' = [answered EXCEPT ![e] = FALSE]
    /\ baseline' = [baseline EXCEPT ![e] = Blank]
    /\ tabs' = [tabs EXCEPT ![e] = <<>>]
    /\ text' = [text EXCEPT ![e] = Blank]
    /\ shot' = [shot EXCEPT ![e] = NoShot]

\* The task's result is recorded, with the picture that was saved, if any.
Settles(e, status, err, picture) ==
    /\ pc' = [pc EXCEPT ![e] = "idle"]
    /\ result' = [result EXCEPT ![e] = status]
    /\ error' = [error EXCEPT ![e] = err]
    /\ kept' = [kept EXCEPT ![e] = picture]
    /\ attempt' = [attempt EXCEPT ![e] = 0]
    /\ Closed(e)
    /\ verdict' = [verdict EXCEPT ![e] = Unknown]
    /\ UNCHANGED <<cached, placeholder, source, hits>>

\* Mutated: an attempt that failed is not counted.
AttemptFailsAgain(e, err) ==
    \/ /\ ~IsRetryable(err) /\ Settles(e, "fatal_error", err, NoShot)
    \/ /\ IsRetryable(err)
       /\ pc' = [pc EXCEPT ![e] = "open"]
       /\ Closed(e)
       /\ UNCHANGED <<cached, placeholder, attempt, taskVars>>

\* Mutated: errors that seem fatal are tried again like the others, and what
\* is left after the last attempt is fatal.
AttemptFailsFatal(e, err) ==
    \/ /\ attempt[e] < Adapter(e).retries
       /\ pc' = [pc EXCEPT ![e] = "open"]
       /\ attempt' = [attempt EXCEPT ![e] = @ + 1]
       /\ Closed(e)
       /\ UNCHANGED <<cached, placeholder, taskVars>>
    \/ /\ attempt[e] = Adapter(e).retries
       /\ Settles(e, "fatal_error", err, NoShot)

\* runOnce returned an error as retryable: Run asks its words, and gives the
\* task another attempt if one is left.  No picture comes with an error.
AttemptFails(e, err) ==
    \/ /\ ~IsRetryable(err)
       /\ Settles(e, "fatal_error", err, NoShot)
    \/ /\ IsRetryable(err) /\ attempt[e] < Adapter(e).retries
       /\ pc' = [pc EXCEPT ![e] = "open"]
       /\ attempt' = [attempt EXCEPT ![e] = @ + 1]
       /\ Closed(e)
       /\ UNCHANGED <<cached, placeholder, taskVars>>
    \/ /\ IsRetryable(err) /\ attempt[e] = Adapter(e).retries
       /\ Settles(e, "retryable_error", err, NoShot)

TransportFails(e) == \E err \in Transport : AttemptFails(e, err)
-----------------------------------------------------------------------------
\* A worker goes on to its next task; a review has one executor.
Begin(e) == \E s \in SourceIds, n \in 0 .. 1 :
    /\ Goes(e, "idle", "lookup")
    /\ manual => \A d \in Executors \ {e} : result[d] = "pending"
    /\ source' = [source EXCEPT ![e] = s]
    /\ hits' = [hits EXCEPT ![e] = n]
    /\ verdict' = [verdict EXCEPT ![e] = Unknown]
    /\ result' = [result EXCEPT ![e] = "running"]
    /\ error' = [error EXCEPT ![e] = NoError]
    /\ kept' = [kept EXCEPT ![e] = NoShot]
    /\ placeholder' = [placeholder EXCEPT ![e] = FALSE]
    /\ UNCHANGED <<cached, attempt, shown, answered, baseline, readVars>>

Verdict(e, v) ==
    /\ verdict' = [verdict EXCEPT ![e] = v]
    /\ UNCHANGED <<attempt, source, hits, result, error, kept, pageVars, readVars>>

\* preflightSource: what the Engine knows of the source, or else a probe.
LookUp(e) ==
    /\ Goes(e, "lookup", IF cached[e][source[e]] = Unknown THEN "probe" ELSE "run")
    /\ Verdict(e, cached[e][source[e]])
    /\ UNCHANGED cached

\* Provider.Preflight: a browser that does not start, a page that does not
\* load or has no input.
Probe(e) == \E v \in Transport \cup {NoError} :
    /\ Goes(e, "probe", "keep")
    /\ Verdict(e, v)
    /\ UNCHANGED cached

\* Nobody else uses the Engine: what it did not know it does not know yet.
Keep(e) ==
    /\ Goes(e, "keep", "run")
    /\ cached' = [cached EXCEPT ![e][source[e]] = verdict[e]]
    /\ Verdict(e, verdict[e])

\* What Run decides before it opens a browser.
Run(e) ==
    /\ pc[e] = "run"
    /\ \/ /\ verdict[e] # NoError
          /\ Settles(e, ClassifyError(verdict[e]), verdict[e], NoShot)
       \/ /\ verdict[e] = NoError /\ Adapter(e).human /\ ~manual
          /\ Settles(e, "needs_review", NoError, NoShot)
       \/ /\ verdict[e] = NoError /\ (Adapter(e).human => manual)
          /\ pc' = [pc EXCEPT ![e] = "open"]
          /\ UNCHANGED <<cached, attempt, taskVars, pageVars, readVars>>
-----------------------------------------------------------------------------
\* runOnce.  A new browser: nothing of an earlier attempt is left in it.
Open(e) ==
    /\ pc[e] = "open"
    /\ \/ TransportFails(e)
       \/ /\ pc' = [pc EXCEPT ![e] = IF Adapter(e).direct THEN "fetch" ELSE "query"]
          /\ UNCHANGED <<cached, attempt, taskVars, pageVars, readVars>>

\* Navigate, fill in, note what the result's place says, submit.
Query(e) ==
    /\ pc[e] = "query"
    /\ \/ TransportFails(e)
       \/ \E old \in Texts :
             /\ pc' = [pc EXCEPT ![e] = IF manual THEN "confirm" ELSE "read"]
             /\ baseline' = [baseline EXCEPT ![e] = old]
             /\ shown' = [shown EXCEPT ![e] = <<old>>]
             /\ answered' = [answered EXCEPT ![e] = FALSE]
             /\ placeholder' = [placeholder EXCEPT ![e] = FALSE]
             /\ tabs' = [tabs EXCEPT ![e] = <<1>>]
             /\ UNCHANGED <<cached, attempt, text, shot, source, hits, verdict,
                            result, error, kept>>

\* The answers a source can give: an exception, or the truth.
Answers(n) == {t \in Texts \ {Blank} :
                 t \cap Exceptional = {} => (("no_record" \in t) <=> (n = 0))}

\* The page writes.  Before Enter a person works on it, and may have it answer
\* again and again, or in a tab of its own.
PageWrites(e) ==
    /\ pc[e] \in {"confirm", "read", "picture"}
    /\ ~answered[e] \/ pc[e] = "confirm"
    /\ \/ \E t \in Answers(hits[e]) :
             /\ answered' = [answered EXCEPT ![e] = TRUE]
             /\ \/ shown' = [shown EXCEPT ![e][1] = t]
                \/ /\ manual /\ Len(shown[e]) < MaxTabs
                   /\ shown' = [shown EXCEPT ![e] = Append(@, t)]
             /\ UNCHANGED placeholder
       \/ /\ ~answered[e]
          /\ \E t \in (IF interim THEN Texts ELSE {Blank}) :
                /\ shown' = [shown EXCEPT ![e][1] = t]
                /\ placeholder' = [placeholder EXCEPT ![e] = @ \/ t = {"no_record"}]
          /\ UNCHANGED answered
    /\ UNCHANGED <<cached, pc, attempt, taskVars, baseline, readVars>>

\* The person is asked for Enter, and a line is there, if only one that was
\* typed before.  Every tab gets a short look, and the first one a long one.
Confirm(e) ==
    /\ Goes(e, "confirm", "read")
    /\ tabs' = [tabs EXCEPT ![e] = Append([i \in 1 .. Len(shown[e]) |-> i], 1)]
    /\ UNCHANGED <<cached, attempt, taskVars, pageVars, text, shot>>

\* Mutated: whatever is visible is the result.
LookUnchanged(e) ==
    /\ Goes(e, "read", "picture")
    /\ shown[e][Head(tabs[e])] # Blank
    /\ text' = [text EXCEPT ![e] = shown[e][Head(tabs[e])]]
    /\ UNCHANGED <<cached, attempt, taskVars, pageVars, tabs, shot>>

\* waitForChangedText: a text is there, and not the one before the query.
Look(e) ==
    /\ Goes(e, "read", "picture")
    /\ shown[e][Head(tabs[e])] \notin {Blank, baseline[e]}
    /\ text' = [text EXCEPT ![e] = shown[e][Head(tabs[e])]]
    /\ UNCHANGED <<cached, attempt, taskVars, pageVars, tabs, shot>>

\* Mutated: the picture is taken of the tab that was opened first.
PictureFirst(e) ==
    /\ Goes(e, "picture", "classify")
    /\ shot' = [shot EXCEPT ![e] = shown[e][1]]
    /\ UNCHANGED <<cached, attempt, taskVars, pageVars, tabs, text>>

Picture(e) ==
    /\ Goes(e, "picture", "classify")
    /\ shot' = [shot EXCEPT ![e] = shown[e][Head(tabs[e])]]
    /\ UNCHANGED <<cached, attempt, taskVars, pageVars, tabs, text>>

\* Time is up for this tab, or it fails.
GiveUp(e) ==
    /\ pc[e] \in {"read", "picture"}
    /\ \/ /\ Len(tabs[e]) > 1
          /\ pc' = [pc EXCEPT ![e] = "read"]
          /\ tabs' = [tabs EXCEPT ![e] = Tail(@)]
          /\ UNCHANGED <<cached, attempt, taskVars, pageVars, text, shot>>
       \/ TransportFails(e)

\* A confirmed status goes on to be saved; the others are recorded at once.
Judged(e, status, err) ==
    CASE status \in Confirmed ->
            /\ pc' = [pc EXCEPT ![e] = "save"]
            /\ UNCHANGED <<cached, attempt, taskVars, pageVars, readVars>>
      [] status = "retryable_error" -> AttemptFails(e, err)
      [] OTHER -> Settles(e, status, err, NoShot)

Read(e) ==
    /\ pc[e] = "classify"
    /\ Judged(e, Classify(text[e]).status, Classify(text[e]).err)

\* runDirectCSRC: a reply that contradicts itself is fatal; its total is true.
Fetch(e) ==
    /\ pc[e] = "fetch"
    /\ \/ TransportFails(e)
       \/ \E r \in Reply :
             /\ r.code = 200 /\ r.fields /\ r.total >= 0 => r.total = hits[e]
             /\ \/ /\ Incomplete(r)
                   /\ Settles(e, "fatal_error", "reply", NoShot)
                \/ /\ ~Incomplete(r)
                   /\ pc' = [pc EXCEPT ![e] = "render"]
                   /\ text' = [text EXCEPT ![e] = Rendered(r)]
                   /\ UNCHANGED <<cached, attempt, taskVars, pageVars, tabs, shot>>

\* The list is written into the page, and pictured.
Render(e) ==
    /\ pc[e] = "render"
    /\ \/ TransportFails(e)
       \/ /\ pc' = [pc EXCEPT ![e] = "save"]
          /\ shot' = [shot EXCEPT ![e] = text[e]]
          /\ UNCHANGED <<cached, attempt, taskVars, pageVars, tabs, text>>

\* capture.Save and Complete, as Capture has them.
Save(e) ==
    /\ pc[e] = "save"
    /\ \/ Settles(e, Classify(text[e]).status, NoError, shot[e])
       \/ Settles(e, "retryable_error", "plain", NoShot)

\* A review that lost its lock: execute returns without a result.
Cancel(e) ==
    /\ manual /\ pc[e] \notin {"idle", "save"}
    /\ pc' = [pc EXCEPT ![e] = "idle"]
    /\ attempt' = [attempt EXCEPT ![e] = 0]
    /\ Closed(e)
    /\ UNCHANGED <<cached, placeholder, taskVars>>

\* What the program does by itself.
ExecutorStep(e) ==
    /\ UNCHANGED given
    /\ \/ LookUp(e) \/ Probe(e) \/ Keep(e) \/ Run(e)
       \/ Open(e) \/ Query(e)
       \/ Look(e) \/ Picture(e) \/ GiveUp(e) \/ Read(e)
       \/ Fetch(e) \/ Render(e)
       \/ Save(e)

\* What tasks, pages, persons and locks do to it.
OutsideStep(e) ==
    /\ UNCHANGED given
    /\ Begin(e) \/ PageWrites(e) \/ Confirm(e) \/ Cancel(e)

Next == \E e \in Executors : ExecutorStep(e) \/ OutsideStep(e)

Spec == Init /\ [][Next]_vars

-----------------------------------------------------------------------------
TypeOK ==
    /\ manual \in BOOLEAN /\ interim \in BOOLEAN
    /\ cached \in [Executors -> [SourceIds -> Transport \cup {NoError, Unknown}]]
    /\ pc \in [Executors -> RunPC]
    /\ source \in [Executors -> SourceIds]
    /\ hits \in [Executors -> 0 .. 1]
    /\ verdict \in [Executors -> Transport \cup {NoError, Unknown}]
    /\ \A e \in Executors : attempt[e] \in 0 .. Registry[source[e]].retries
    /\ \A e \in Executors : /\ Len(shown[e]) \in 1 .. MaxTabs
                            /\ \A i \in DOMAIN shown[e] : shown[e][i] \in Texts
                            /\ \A i \in DOMAIN tabs[e] : tabs[e][i] \in DOMAIN shown[e]
    /\ answered \in [Executors -> BOOLEAN]
    /\ placeholder \in [Executors -> BOOLEAN]
    /\ baseline \in [Executors -> Texts]
    /\ text \in [Executors -> Texts]
    /\ shot \in [Executors -> Texts \cup {NoShot}]
    /\ result \in [Executors -> Statuses]
    /\ error \in [Executors -> Errors \cup {NoError}]
    /\ kept \in [Executors -> Texts \cup {NoShot}]

\* When pages answer truthfully, or with an exception, and a service's total
\* is right, "found" and "not_found" are true, whatever else fails, is retried
\* or is seen first.
VerdictIsTrue ==
    ~interim => \A e \in Executors :
        result[e] \in Confirmed => (result[e] = "found" <=> hits[e] > 0)

\* A false "not_found" is the page's own: no error, no cut reply, no text from
\* before the query or of an earlier attempt and no page that asks for a person
\* is ever recorded as it, whatever pages write before their answer.  Only a
\* page that said "no record" itself, after this query and before its answer,
\* can be believed: waitForChangedText takes the text that comes first.
NotFoundIsTrue ==
    \A e \in Executors : result[e] = "not_found" => hits[e] = 0 \/ placeholder[e]

\* The picture that was saved shows what the file's name says, and only a
\* confirmed result has one.
PictureAgrees ==
    ~interim => \A e \in Executors :
        IF result[e] \in Confirmed THEN Classify(kept[e]).status = result[e]
        ELSE kept[e] = NoShot

\* An error in no telling words, in the preflight or in Run, and a page that
\* says it is busy leave a task that can be retried: no number of attempts, and
\* no preflight that the worker keeps, makes it fatal.  Errors with a word that
\* IsRetryable or ClassifyError knows are fatal even if they would pass, those
\* of the transport included (browser.go:329).
TemporaryStaysRetryable ==
    \A e \in Executors : error[e] \in {"plain", "busy"} => result[e] = "retryable_error"

\* An execution never comes back to where it was: it has fewer attempts left,
\* or fewer tabs, or is further on.  It ends whatever keeps failing.
Stage == [lookup |-> 1, probe |-> 2, keep |-> 3, run |-> 4, open |-> 5, query |-> 6,
          fetch |-> 6, confirm |-> 7, render |-> 7, read |-> 8, picture |-> 9,
          classify |-> 10, save |-> 11]

ExecutionMovesOn ==
    [][\A e \in Executors : pc[e] # "idle" /\ pc'[e] \notin {pc[e], "idle"} =>
          \/ attempt'[e] > attempt[e]
          \/ attempt'[e] = attempt[e] /\ Stage[pc'[e]] > Stage[pc[e]]
          \/ attempt'[e] = attempt[e] /\ Len(tabs'[e]) < Len(tabs[e])]_vars
=============================================================================
