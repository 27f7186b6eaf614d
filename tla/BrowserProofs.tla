--------------------------- MODULE BrowserProofs ----------------------------
(***************************************************************************)
(* What the result of a task says about its source, for every number of    *)
(* executors and tabs, every set of sources and every set of texts, in a   *)
(* worker's process and in a review.                                       *)
(***************************************************************************)
EXTENDS BrowserRun, SequenceTheorems, TLAPS

OnPage == {"confirm", "read", "picture"}
Early  == {"idle", "lookup", "probe", "keep"}

\* A text that Classify takes for an answer is a true one, or the page's own.
Honest(e, t) ==
    /\ t = {"no_record"} => hits[e] = 0 \/ placeholder[e]
    /\ ~interim /\ t = {} => hits[e] > 0

Spaces ==
    /\ manual \in BOOLEAN /\ interim \in BOOLEAN
    /\ cached \in [Executors -> [SourceIds -> Transport \cup {NoError, Unknown}]]
    /\ pc \in [Executors -> RunPC]
    /\ source \in [Executors -> SourceIds]
    /\ hits \in [Executors -> 0 .. 1]
    /\ verdict \in [Executors -> Transport \cup {NoError, Unknown}]
    /\ attempt \in [Executors -> Nat]
    /\ shown \in [Executors -> Seq(Texts)]
    /\ answered \in [Executors -> BOOLEAN]
    /\ placeholder \in [Executors -> BOOLEAN]
    /\ baseline \in [Executors -> Texts]
    /\ tabs \in [Executors -> Seq(Nat)]
    /\ text \in [Executors -> Texts]
    /\ shot \in [Executors -> Texts \cup {NoShot}]
    /\ result \in [Executors -> Statuses]
    /\ error \in [Executors -> Errors \cup {NoError}]
    /\ kept \in [Executors -> Texts \cup {NoShot}]

\* Attempts are counted from the first, up to what the source is given.
AttemptOK(e) ==
    /\ attempt[e] =< Registry[source[e]].retries
    /\ pc[e] \in Early \cup {"run"} => attempt[e] = 0

\* Past its preflight, an executor knows what it gave.
PreflightOK(e) == pc[e] = "keep" \/ pc[e] \notin Early => verdict[e] # Unknown

\* Everything on a page is from before the query, or an answer to it.
PageOK(e) ==
    /\ Len(shown[e]) \in 1 .. MaxTabs
    /\ \A i \in 1 .. Len(tabs[e]) : tabs[e][i] \in 1 .. Len(shown[e])
    /\ pc[e] \in {"read", "picture"} => tabs[e] # <<>>
    /\ pc[e] \in OnPage => \A i \in 1 .. Len(shown[e]) :
          shown[e][i] = baseline[e] \/ Honest(e, shown[e][i])
    /\ ~interim /\ ~answered[e] => \A i \in 1 .. Len(shown[e]) :
          shown[e][i] \in {Blank, baseline[e]}
    /\ ~interim => ~placeholder[e]

\* What was read is an answer, and the picture shows it.
ReadOK(e) ==
    /\ pc[e] \in {"picture", "classify", "render", "save"} => Honest(e, text[e])
    /\ pc[e] = "picture" /\ ~interim => answered[e] /\ text[e] = shown[e][Head(tabs[e])]
    /\ pc[e] \in {"classify", "save"} /\ ~interim => shot[e] = text[e]
    /\ pc[e] \in {"render", "save"} => Classify(text[e]).status \in Confirmed

ResultOK(e) ==
    /\ pc[e] # "idle" => result[e] = "running"
    /\ result[e] = "not_found" => hits[e] = 0 \/ placeholder[e]
    /\ ~interim /\ result[e] = "found" => hits[e] > 0
    /\ error[e] \in {"plain", "busy"} => result[e] = "retryable_error"
    /\ ~interim => IF result[e] \in Confirmed THEN Classify(kept[e]).status = result[e]
                   ELSE kept[e] = NoShot

ExecutorOK(e) ==
    /\ AttemptOK(e) /\ PreflightOK(e) /\ PageOK(e)
    /\ ReadOK(e) /\ ResultOK(e)

\* The inductive invariant.
BrowserInv == Spaces /\ \A e \in Executors : ExecutorOK(e)
-----------------------------------------------------------------------------
(* Vocabulary *)

LEMMA RetriesType ==
    ASSUME NEW s \in SourceIds
    PROVE  Registry[s].retries \in Nat
BY BrowserAssumption DEF Registry

LEMMA EmptyTexts ==
    /\ {} \in Texts /\ {"no_record"} \in Texts /\ Blank \in Texts
    /\ <<Blank>> \in Seq(Texts) /\ Len(<<Blank>>) = 1 /\ <<Blank>>[1] = Blank
    /\ Blank # {} /\ Blank # {"no_record"}
BY BrowserAssumption DEF Blank

\* What Classify makes of a text: exactly two texts are an answer.
LEMMA ClassifyCases ==
    ASSUME NEW t \in Texts
    PROVE  /\ Classify(t) \in {Outcome("fatal_error", "page"), Outcome("retryable_error", "busy"),
                               Outcome("needs_review", NoError), Outcome("not_found", NoError),
                               Outcome("found", NoError)}
           /\ Classify(t) = Outcome("not_found", NoError) => t = {"no_record"}
           /\ Classify(t) = Outcome("found", NoError) => t = {}
<1>0. t \in AllTexts
  BY BrowserAssumption
<1>1. CASE t = Blank
  <2>1. /\ "busy" \notin t /\ t \cap {"busy", "exception"} # {"exception"}
        /\ t \cap Exceptional # {"captcha"} /\ t # {"no_record"} /\ t # {}
    BY <1>1 DEF Blank, Exceptional
  <2>2. Classify(t) = Outcome("fatal_error", "page")
    BY <1>1, <2>1 DEF Classify
  <2>3. QED  BY <2>2 DEF Outcome
<1>2. CASE t # Blank
  <2>0. \A x \in t : x \in {"busy", "exception", "captcha", "no_record"}
    <3>1. t \in SUBSET (Exceptional \cup {"no_record"})
      BY <1>0, <1>2 DEF AllTexts
    <3>2. QED  BY <3>1 DEF Exceptional
  <2>1. CASE "busy" \in t
    <3>1. /\ t \cap {"busy", "exception"} # {"exception"} /\ t \cap Exceptional # {"captcha"}
          /\ t # {"no_record"} /\ t # {}
      BY <2>1 DEF Exceptional
    <3>2. Classify(t) = Outcome("retryable_error", "busy")
      BY <1>2, <2>1, <3>1 DEF Classify
    <3>3. QED  BY <3>2 DEF Outcome
  <2>2. CASE "busy" \notin t /\ "exception" \in t
    <3>1. /\ t \cap {"busy", "exception"} = {"exception"} /\ t \cap Exceptional # {"captcha"}
          /\ t # {"no_record"} /\ t # {}
      BY <2>2 DEF Exceptional
    <3>2. Classify(t) = Outcome("fatal_error", "page")
      BY <1>2, <2>2, <3>1 DEF Classify
    <3>3. QED  BY <3>2 DEF Outcome
  <2>3. CASE "busy" \notin t /\ "exception" \notin t /\ "captcha" \in t
    <3>1. /\ t \cap {"busy", "exception"} # {"exception"} /\ t \cap Exceptional = {"captcha"}
          /\ t # {"no_record"} /\ t # {}
      BY <2>0, <2>3 DEF Exceptional
    <3>2. Classify(t) = Outcome("needs_review", NoError)
      BY <1>2, <2>3, <3>1 DEF Classify
    <3>3. QED  BY <3>2 DEF Outcome
  <2>4. CASE "busy" \notin t /\ "exception" \notin t /\ "captcha" \notin t
    <3>1. t \cap {"busy", "exception"} # {"exception"} /\ t \cap Exceptional # {"captcha"}
      BY <2>4 DEF Exceptional
    <3>2. t = {} \/ t = {"no_record"}
      BY <2>0, <2>4
    <3>3. CASE t = {"no_record"}
      <4>1. Classify(t) = Outcome("not_found", NoError)
        BY <1>2, <2>4, <3>1, <3>3 DEF Classify
      <4>2. QED  BY <3>3, <4>1 DEF Outcome
    <3>4. CASE t = {}
      <4>1. Classify(t) = Outcome("found", NoError)
        BY <1>2, <2>4, <3>1, <3>4 DEF Classify
      <4>2. QED  BY <3>4, <4>1 DEF Outcome
    <3>5. QED  BY <3>2, <3>3, <3>4
  <2>5. QED  BY <2>1, <2>2, <2>3, <2>4
<1>3. QED  BY <1>1, <1>2

\* The two answers.
LEMMA Answered ==
    /\ Classify({}) = Outcome("found", NoError)
    /\ Classify({"no_record"}) = Outcome("not_found", NoError)
BY DEF Classify, Blank, Exceptional

\* A status that is confirmed is that of an honest text.
LEMMA ClassifyHonest ==
    ASSUME NEW e, NEW t \in Texts, Honest(e, t)
    PROVE  /\ Classify(t).status \in Statuses /\ Classify(t).err \in {NoError, "busy", "page"}
           /\ Classify(t).status = "not_found" => hits[e] = 0 \/ placeholder[e]
           /\ ~interim /\ Classify(t).status = "found" => hits[e] > 0
           /\ Classify(t).status \in Confirmed \/ Classify(t).err # NoError
                \/ Classify(t).status = "needs_review"
           /\ Classify(t).err = "busy" => Classify(t).status = "retryable_error"
           /\ Classify(t).status = "retryable_error" => Classify(t).err = "busy"
<1>1. CASE Classify(t) = Outcome("not_found", NoError)
  <2>1. t = {"no_record"} /\ Classify(t).status = "not_found" /\ Classify(t).err = NoError
    BY <1>1, ClassifyCases DEF Outcome
  <2>2. QED  BY <2>1 DEF Honest, Statuses, Confirmed, NoError
<1>2. CASE Classify(t) = Outcome("found", NoError)
  <2>1. t = {} /\ Classify(t).status = "found" /\ Classify(t).err = NoError
    BY <1>2, ClassifyCases DEF Outcome
  <2>2. QED  BY <2>1 DEF Honest, Statuses, Confirmed, NoError
<1>3. CASE Classify(t) \in {Outcome("fatal_error", "page"), Outcome("retryable_error", "busy"),
                            Outcome("needs_review", NoError)}
  <2>1. /\ Classify(t).status \in {"fatal_error", "retryable_error", "needs_review"}
        /\ Classify(t).err \in {NoError, "busy", "page"}
        /\ Classify(t).err # NoError \/ Classify(t).status = "needs_review"
        /\ Classify(t).err = "busy" <=> Classify(t).status = "retryable_error"
    BY <1>3 DEF Outcome, NoError
  <2>2. QED  BY <2>1 DEF Statuses, Confirmed, Failures
<1>4. QED  BY <1>1, <1>2, <1>3, ClassifyCases
-----------------------------------------------------------------------------
(* One executor at a time *)

\* The others stay.
StepOf(e) ==
    \A d \in Executors \ {e} :
        /\ pc'[d] = pc[d] /\ source'[d] = source[d] /\ hits'[d] = hits[d]
        /\ verdict'[d] = verdict[d] /\ attempt'[d] = attempt[d]
        /\ shown'[d] = shown[d] /\ answered'[d] = answered[d] /\ baseline'[d] = baseline[d]
        /\ placeholder'[d] = placeholder[d]
        /\ tabs'[d] = tabs[d] /\ text'[d] = text[d] /\ shot'[d] = shot[d]
        /\ result'[d] = result[d] /\ error'[d] = error[d] /\ kept'[d] = kept[d]

LEMMA OthersKept ==
    ASSUME BrowserInv, UNCHANGED <<manual, interim>>, NEW e \in Executors, StepOf(e), Spaces', ExecutorOK(e)'
    PROVE  BrowserInv'
<1> SUFFICES ASSUME NEW d \in Executors, d # e  PROVE ExecutorOK(d)'
  BY DEF BrowserInv
<1>1. ExecutorOK(d) /\ source[d] \in SourceIds
  BY DEF BrowserInv, Spaces
<1>2. AttemptOK(d)'
  BY <1>1 DEF StepOf, ExecutorOK, AttemptOK
<1>3. PreflightOK(d)'
  BY <1>1 DEF StepOf, ExecutorOK, PreflightOK
<1>4. PageOK(d)'
  BY <1>1 DEF StepOf, ExecutorOK, PageOK, Honest
<1>5. ReadOK(d)' /\ ResultOK(d)'
  BY <1>1 DEF StepOf, ExecutorOK, ReadOK, ResultOK, Honest
<1>6. QED  BY <1>2, <1>3, <1>4, <1>5 DEF ExecutorOK

LEMMA ClosedPage ==
    ASSUME BrowserInv, NEW e \in Executors, Closed(e), pc'[e] \notin OnPage,
           UNCHANGED <<interim, placeholder>>
    PROVE  PageOK(e)'
BY EmptyTexts, BrowserAssumption, EmptySeq
DEF BrowserInv, Spaces, ExecutorOK, Closed, PageOK, OnPage

\* A result that says no more than the executor knows.
LEMMA SettlesStep ==
    ASSUME BrowserInv, UNCHANGED <<manual, interim>>, NEW e \in Executors,
           NEW status \in Statuses, NEW err \in Errors \cup {NoError},
           NEW picture \in Texts \cup {NoShot},
           Settles(e, status, err, picture),
           status = "not_found" => hits[e] = 0 \/ placeholder[e],
           ~interim /\ status = "found" => hits[e] > 0,
           err \in {"plain", "busy"} => status = "retryable_error",
           ~interim => IF status \in Confirmed THEN Classify(picture).status = status
                       ELSE picture = NoShot
    PROVE  BrowserInv'
<1>1. Spaces'
  BY EmptyTexts, EmptySeq DEF BrowserInv, Spaces, Settles, Closed, RunPC
<1>2. StepOf(e)
  BY DEF BrowserInv, Spaces, Settles, Closed, StepOf
<1>3. pc'[e] = "idle" /\ attempt'[e] = 0 /\ result'[e] = status /\ error'[e] = err
      /\ kept'[e] = picture /\ UNCHANGED <<cached, placeholder, source, hits>>
  BY DEF BrowserInv, Spaces, Settles
<1>4. AttemptOK(e)'
  BY <1>3, RetriesType DEF AttemptOK, BrowserInv, Spaces
<1>5. PageOK(e)'
  BY <1>3, ClosedPage DEF BrowserInv, Settles, OnPage
<1>6. PreflightOK(e)' /\ ReadOK(e)'
  BY <1>3 DEF PreflightOK, ReadOK, BrowserInv, ExecutorOK, Early
<1>7. ResultOK(e)'
  BY <1>3 DEF ResultOK
<1>8. QED  BY <1>1, <1>2, <1>4, <1>5, <1>6, <1>7, OthersKept DEF ExecutorOK

\* An attempt that failed leads to another one, or to an error.
LEMMA AttemptFailsStep ==
    ASSUME BrowserInv, UNCHANGED <<manual, interim>>, NEW e \in Executors, pc[e] \notin Early,
           NEW err \in Errors, AttemptFails(e, err)
    PROVE  BrowserInv'
<1>1. CASE Settles(e, "fatal_error", err, NoShot) /\ ~IsRetryable(err)
  BY <1>1, SettlesStep DEF Statuses, Confirmed, Failures, IsRetryable
<1>2. CASE Settles(e, "retryable_error", err, NoShot)
  BY <1>2, SettlesStep DEF Statuses, Confirmed, Failures
<1>3. CASE /\ attempt[e] < Adapter(e).retries
           /\ pc' = [pc EXCEPT ![e] = "open"]
           /\ attempt' = [attempt EXCEPT ![e] = @ + 1]
           /\ Closed(e)
           /\ UNCHANGED <<cached, placeholder, taskVars>>
  <2>1. Spaces'
    BY <1>3, EmptyTexts, EmptySeq DEF BrowserInv, Spaces, Closed, RunPC, taskVars
  <2>2. StepOf(e)
    BY <1>3 DEF BrowserInv, Spaces, Closed, StepOf, taskVars
  <2>3. pc'[e] = "open" /\ attempt'[e] = attempt[e] + 1
        /\ UNCHANGED <<cached, placeholder, source, hits, verdict, result, error, kept>>
    BY <1>3 DEF BrowserInv, Spaces, taskVars
  <2>4. AttemptOK(e)'
    BY <1>3, <2>3, RetriesType DEF AttemptOK, BrowserInv, Spaces, Adapter, Early
  <2>5. PageOK(e)'
    BY <1>3, <2>3, ClosedPage DEF BrowserInv, OnPage
  <2>6. PreflightOK(e)' /\ ReadOK(e)' /\ ResultOK(e)'
    BY <2>3 DEF PreflightOK, ReadOK, ResultOK, BrowserInv, ExecutorOK, Early
  <2>7. QED  BY <2>1, <2>2, <2>4, <2>5, <2>6, OthersKept DEF ExecutorOK
<1>4. QED  BY <1>1, <1>2, <1>3 DEF AttemptFails

LEMMA TransportFailsStep ==
    ASSUME BrowserInv, UNCHANGED <<manual, interim>>, NEW e \in Executors, pc[e] \notin Early, TransportFails(e)
    PROVE  BrowserInv'
BY AttemptFailsStep DEF TransportFails, Errors
-----------------------------------------------------------------------------
(* Before the browser *)

LEMMA BeginStep ==
    ASSUME BrowserInv, UNCHANGED <<manual, interim>>, NEW e \in Executors, Begin(e)
    PROVE  BrowserInv'
<1>1. PICK s \in SourceIds, n \in 0 .. 1 :
        /\ Goes(e, "idle", "lookup")
        /\ source' = [source EXCEPT ![e] = s]
        /\ hits' = [hits EXCEPT ![e] = n]
        /\ verdict' = [verdict EXCEPT ![e] = Unknown]
        /\ result' = [result EXCEPT ![e] = "running"]
        /\ error' = [error EXCEPT ![e] = NoError]
        /\ kept' = [kept EXCEPT ![e] = NoShot]
        /\ placeholder' = [placeholder EXCEPT ![e] = FALSE]
        /\ UNCHANGED <<cached, attempt, shown, answered, baseline, readVars>>
  BY DEF Begin
<1>2. Spaces'
  BY <1>1 DEF BrowserInv, Spaces, Goes, RunPC, Statuses, pageVars, readVars
<1>3. StepOf(e)
  BY <1>1 DEF BrowserInv, Spaces, Goes, StepOf, pageVars, readVars
<1>4. pc[e] = "idle" /\ pc'[e] = "lookup" /\ source'[e] = s /\ result'[e] = "running"
      /\ error'[e] = NoError /\ kept'[e] = NoShot /\ ~placeholder'[e]
      /\ UNCHANGED <<attempt, shown, answered, baseline, tabs>>
  BY <1>1 DEF BrowserInv, Spaces, Goes, pageVars, readVars
<1>5. AttemptOK(e)' /\ PreflightOK(e)'
  BY <1>4, RetriesType DEF BrowserInv, ExecutorOK, AttemptOK, PreflightOK, Early
<1>6. PageOK(e)' /\ ReadOK(e)'
  BY <1>4 DEF BrowserInv, ExecutorOK, PageOK, ReadOK, OnPage
<1>7. ResultOK(e)'
  BY <1>4 DEF ResultOK, NoError, Confirmed
<1>8. QED  BY <1>2, <1>3, <1>5, <1>6, <1>7, OthersKept DEF ExecutorOK

\* A step towards "run" that moves the verdict and what the Engine keeps.
LEMMA PreflightStep ==
    ASSUME BrowserInv, UNCHANGED <<manual, interim>>, NEW e \in Executors, LookUp(e) \/ Probe(e) \/ Keep(e)
    PROVE  BrowserInv'
<1>1. PICK from \in {"lookup", "probe", "keep"}, to \in {"probe", "keep", "run"},
           v \in Transport \cup {NoError, Unknown} :
        /\ Goes(e, from, to) /\ Verdict(e, v)
        /\ cached' = cached \/ cached' = [cached EXCEPT ![e][source[e]] = v]
        /\ to # "probe" => v # Unknown
  <2>1. source[e] \in SourceIds /\ cached[e][source[e]] \in Transport \cup {NoError, Unknown}
    BY DEF BrowserInv, Spaces
  <2>2. CASE LookUp(e)
    <3>1. /\ Goes(e, "lookup", IF cached[e][source[e]] = Unknown THEN "probe" ELSE "run")
          /\ Verdict(e, cached[e][source[e]]) /\ cached' = cached
      BY <2>2 DEF LookUp
    <3>2. CASE cached[e][source[e]] = Unknown
      BY <2>1, <3>1, <3>2, Zenon
    <3>3. CASE cached[e][source[e]] # Unknown
      BY <2>1, <3>1, <3>3, Zenon
    <3>4. QED  BY <3>2, <3>3
  <2>3. CASE Probe(e)
    <3>1. PICK v \in Transport \cup {NoError} :
            Goes(e, "probe", "keep") /\ Verdict(e, v) /\ cached' = cached
      BY <2>3 DEF Probe
    <3>2. v # Unknown /\ v \in Transport \cup {NoError, Unknown}
      BY DEF Transport, NoError, Unknown
    <3>3. QED  BY <3>1, <3>2, Zenon
  <2>4. CASE Keep(e)
    <3>1. /\ Goes(e, "keep", "run") /\ Verdict(e, verdict[e])
          /\ cached' = [cached EXCEPT ![e][source[e]] = verdict[e]]
      BY <2>4 DEF Keep
    <3>2. verdict[e] # Unknown /\ verdict[e] \in Transport \cup {NoError, Unknown}
      BY <3>1 DEF Goes, BrowserInv, Spaces, ExecutorOK, PreflightOK
    <3>3. QED  BY <3>1, <3>2, Zenon
  <2>5. QED  BY <2>2, <2>3, <2>4
<1>2. Spaces'
  <2>1. cached' \in [Executors -> [SourceIds -> Transport \cup {NoError, Unknown}]]
    <3> DEFINE row == [cached[e] EXCEPT ![source[e]] = v]
    <3>1. row \in [SourceIds -> Transport \cup {NoError, Unknown}]
      BY DEF BrowserInv, Spaces
    <3>2. cached' = cached \/ cached' = [cached EXCEPT ![e] = row]
      BY <1>1
    <3> HIDE DEF row
    <3>3. QED  BY <3>1, <3>2 DEF BrowserInv, Spaces
  <2>2. QED  BY <1>1, <2>1 DEF BrowserInv, Spaces, Goes, Verdict, RunPC, pageVars, readVars
<1>3. StepOf(e)
  BY <1>1 DEF BrowserInv, Spaces, Goes, Verdict, StepOf, pageVars, readVars
<1>4. /\ pc[e] = from /\ pc'[e] = to /\ verdict'[e] = v
      /\ UNCHANGED <<attempt, source, hits, result, error, kept, shown, answered, baseline,
                     placeholder, tabs, text, shot>>
  BY <1>1 DEF BrowserInv, Spaces, Goes, Verdict, pageVars, readVars
<1>5. AttemptOK(e)'
  BY <1>4 DEF BrowserInv, ExecutorOK, AttemptOK, Early
<1>6. PreflightOK(e)'
  BY <1>1, <1>4 DEF PreflightOK, Early
<1>7. PageOK(e)' /\ ReadOK(e)' /\ ResultOK(e)'
  BY <1>4 DEF BrowserInv, ExecutorOK, PageOK, ReadOK, ResultOK, OnPage
<1>8. QED  BY <1>2, <1>3, <1>5, <1>6, <1>7, OthersKept DEF ExecutorOK

\* An executor goes on to another call and nothing else happens.
LEMMA MovesStep ==
    ASSUME BrowserInv, UNCHANGED <<manual, interim>>, NEW e \in Executors, pc[e] \notin Early,
           NEW to \in {"open", "query", "fetch"}, pc' = [pc EXCEPT ![e] = to],
           UNCHANGED <<cached, attempt, taskVars, pageVars, readVars>>
    PROVE  BrowserInv'
<1>1. Spaces'
  BY DEF BrowserInv, Spaces, RunPC, taskVars, pageVars, readVars
<1>2. StepOf(e)
  BY DEF BrowserInv, Spaces, StepOf, taskVars, pageVars, readVars
<1>3. /\ pc'[e] = to
      /\ UNCHANGED <<cached, attempt, source, hits, verdict, result, error, kept, shown,
                     answered, placeholder, baseline, tabs, text, shot>>
  BY DEF BrowserInv, Spaces, taskVars, pageVars, readVars
<1>4. AttemptOK(e)' /\ PreflightOK(e)'
  BY <1>3 DEF BrowserInv, ExecutorOK, AttemptOK, PreflightOK, Early
<1>5. PageOK(e)' /\ ReadOK(e)' /\ ResultOK(e)'
  BY <1>3 DEF BrowserInv, ExecutorOK, PageOK, ReadOK, ResultOK, OnPage, Honest, Early
<1>6. QED  BY <1>1, <1>2, <1>4, <1>5, OthersKept DEF ExecutorOK

LEMMA ClassifyErrorType ==
    ASSUME NEW err \in Transport \cup {NoError}
    PROVE  /\ ClassifyError(err) \in Statuses \ Confirmed
           /\ err = "plain" => ClassifyError(err) = "retryable_error"
           /\ err # "busy"
BY DEF ClassifyError, Transport, NoError, Statuses, Confirmed, Failures

LEMMA RunStep ==
    ASSUME BrowserInv, UNCHANGED <<manual, interim>>, NEW e \in Executors, Run(e)
    PROVE  BrowserInv'
<1>1. pc[e] = "run" /\ pc[e] \notin Early /\ verdict[e] \in Transport \cup {NoError}
  BY DEF Run, BrowserInv, Spaces, ExecutorOK, PreflightOK, Early
<1>2. CASE Settles(e, ClassifyError(verdict[e]), verdict[e], NoShot)
  <2>1. ClassifyError(verdict[e]) \in Statuses \ Confirmed
        /\ (verdict[e] \in {"plain", "busy"} => ClassifyError(verdict[e]) = "retryable_error")
    BY <1>1, ClassifyErrorType
  <2>2. ClassifyError(verdict[e]) \notin {"found", "not_found"}
    BY <2>1 DEF Confirmed
  <2>3. verdict[e] \in Errors \cup {NoError}
    BY <1>1 DEF Errors
  <2>4. QED  BY <1>2, <2>1, <2>2, <2>3, SettlesStep
<1>3. CASE Settles(e, "needs_review", NoError, NoShot)
  BY <1>3, SettlesStep DEF Statuses, Confirmed, NoError
<1>4. CASE pc' = [pc EXCEPT ![e] = "open"]
           /\ UNCHANGED <<cached, attempt, taskVars, pageVars, readVars>>
  BY <1>1, <1>4, MovesStep
<1>5. QED  BY <1>2, <1>3, <1>4 DEF Run

LEMMA OpenStep ==
    ASSUME BrowserInv, UNCHANGED <<manual, interim>>, NEW e \in Executors, Open(e)
    PROVE  BrowserInv'
<1>1. pc[e] \notin Early
  BY DEF Open, Early
<1>2. CASE TransportFails(e)
  BY <1>1, <1>2, TransportFailsStep
<1>3. CASE pc' = [pc EXCEPT ![e] = IF Adapter(e).direct THEN "fetch" ELSE "query"]
           /\ UNCHANGED <<cached, attempt, taskVars, pageVars, readVars>>
  BY <1>1, <1>3, MovesStep
<1>4. QED  BY <1>2, <1>3 DEF Open
-----------------------------------------------------------------------------
(* On a page *)

LEMMA QueryStep ==
    ASSUME BrowserInv, UNCHANGED <<manual, interim>>, NEW e \in Executors, Query(e)
    PROVE  BrowserInv'
<1>1. pc[e] = "query" /\ pc[e] \notin Early
  BY DEF Query, Early
<1>2. CASE TransportFails(e)
  BY <1>1, <1>2, TransportFailsStep
<1>3. ASSUME NEW old \in Texts,
             /\ pc' = [pc EXCEPT ![e] = IF manual THEN "confirm" ELSE "read"]
             /\ baseline' = [baseline EXCEPT ![e] = old]
             /\ shown' = [shown EXCEPT ![e] = <<old>>]
             /\ answered' = [answered EXCEPT ![e] = FALSE]
             /\ placeholder' = [placeholder EXCEPT ![e] = FALSE]
             /\ tabs' = [tabs EXCEPT ![e] = << 1 >>]
             /\ UNCHANGED <<cached, attempt, text, shot, source, hits, verdict,
                            result, error, kept>>
      PROVE  BrowserInv'
  <2>1. PICK to \in {"confirm", "read"} : pc' = [pc EXCEPT ![e] = to]
    BY <1>3
  <2>3. <<old>> \in Seq(Texts) /\ Len(<<old>>) = 1 /\ <<old>>[1] = old
        /\ << 1 >> \in Seq(Nat) /\ Len(<< 1 >>) = 1 /\ << 1 >>[1] = 1 /\ << 1 >> # <<>>
    OBVIOUS
  <2>4. Spaces'
    BY <1>3, <2>1, <2>3 DEF BrowserInv, Spaces, RunPC
  <2>5. StepOf(e)
    BY <1>3, <2>1 DEF BrowserInv, Spaces, StepOf
  <2>6. /\ pc'[e] = to /\ shown'[e] = <<old>> /\ baseline'[e] = old /\ tabs'[e] = << 1 >>
        /\ ~placeholder'[e]
        /\ UNCHANGED <<cached, attempt, source, hits, verdict, result, error, kept>>
    BY <1>3, <2>1 DEF BrowserInv, Spaces
  <2>7. PageOK(e)'
    BY <2>3, <2>6, BrowserAssumption DEF PageOK
  <2>8. AttemptOK(e)' /\ PreflightOK(e)' /\ ReadOK(e)' /\ ResultOK(e)'
    BY <1>1, <2>6 DEF BrowserInv, ExecutorOK, AttemptOK, PreflightOK, ReadOK, ResultOK, Early
  <2>9. QED  BY <2>4, <2>5, <2>7, <2>8, OthersKept DEF ExecutorOK
<1>4. QED  BY <1>2, <1>3 DEF Query

LEMMA AnswersTrue ==
    ASSUME NEW n \in 0 .. 1, NEW t \in Answers(n)
    PROVE  t \in Texts /\ (t = {"no_record"} => n = 0) /\ (t = {} => n > 0)
<1>1. t \in Texts /\ (t \cap Exceptional = {} => (("no_record" \in t) <=> (n = 0)))
  BY DEF Answers
<1>2. t = {"no_record"} => n = 0
  BY <1>1 DEF Exceptional
<1>3. t = {} => n > 0
  BY <1>1 DEF Exceptional
<1>4. QED  BY <1>1, <1>2, <1>3

\* Writing changes one tab, or opens one more.
LEMMA PageWritesStep ==
    ASSUME BrowserInv, UNCHANGED <<manual, interim>>, NEW e \in Executors, PageWrites(e)
    PROVE  BrowserInv'
<1>1. /\ pc[e] \in OnPage /\ (~answered[e] \/ pc[e] = "confirm")
      /\ UNCHANGED <<cached, pc, attempt, taskVars, baseline, readVars>>
  BY DEF PageWrites, OnPage
<1>2. PICK t \in Texts, said \in BOOLEAN :
        /\ placeholder' = [placeholder EXCEPT ![e] = @ \/ said]
        /\ said => interim
        /\ t = {"no_record"} => hits[e] = 0 \/ said
        /\ ~interim /\ t = {} => hits[e] > 0
        /\ \/ shown' = [shown EXCEPT ![e][1] = t]
           \/ /\ Len(shown[e]) < MaxTabs
              /\ shown' = [shown EXCEPT ![e] = Append(@, t)]
        /\ \/ answered' = [answered EXCEPT ![e] = TRUE]
           \/ answered' = answered /\ (~interim => t = Blank)
              /\ shown' = [shown EXCEPT ![e][1] = t]
  <2>1. ASSUME NEW t \in Answers(hits[e])
        PROVE  /\ t \in Texts
               /\ t = {"no_record"} => hits[e] = 0
               /\ t = {} => hits[e] > 0
    BY AnswersTrue DEF BrowserInv, Spaces
  <2>2. placeholder' = placeholder => placeholder' = [placeholder EXCEPT ![e] = @ \/ FALSE]
    BY DEF BrowserInv, Spaces
  <2>3. CASE \E t \in Answers(hits[e]) :
                /\ answered' = [answered EXCEPT ![e] = TRUE]
                /\ \/ shown' = [shown EXCEPT ![e][1] = t]
                   \/ /\ manual /\ Len(shown[e]) < MaxTabs
                      /\ shown' = [shown EXCEPT ![e] = Append(@, t)]
                /\ UNCHANGED placeholder
    BY <2>1, <2>2, <2>3
  <2>4. CASE /\ \E t \in (IF interim THEN Texts ELSE {Blank}) :
                   /\ shown' = [shown EXCEPT ![e][1] = t]
                   /\ placeholder' = [placeholder EXCEPT ![e] = @ \/ t = {"no_record"}]
             /\ UNCHANGED answered
    <3>1. PICK t \in (IF interim THEN Texts ELSE {Blank}) :
            /\ shown' = [shown EXCEPT ![e][1] = t]
            /\ placeholder' = [placeholder EXCEPT ![e] = @ \/ t = {"no_record"}]
      BY <2>4
    <3>2. t \in Texts /\ (~interim => t = Blank)
      BY <3>1, EmptyTexts
    <3>3. t = {"no_record"} => interim
      BY <3>2, EmptyTexts
    <3>4. ~interim => t # {}
      BY <3>2, EmptyTexts
    <3>5. PICK said \in BOOLEAN : said = (t = {"no_record"})
      OBVIOUS
    <3>6. placeholder' = [placeholder EXCEPT ![e] = @ \/ said]
      BY <3>1, <3>5
    <3>7. (said => interim) /\ (t = {"no_record"} => said)
      BY <3>3, <3>5
    <3>8. QED  BY <2>4, <3>1, <3>2, <3>4, <3>6, <3>7
  <2>5. QED  BY <2>3, <2>4 DEF PageWrites
<1>3. shown[e] \in Seq(Texts) /\ Len(shown[e]) \in 1 .. MaxTabs /\ PageOK(e)
  BY DEF BrowserInv, Spaces, ExecutorOK, PageOK
<1>4. PICK new \in Seq(Texts) :
        /\ shown' = [shown EXCEPT ![e] = new]
        /\ Len(new) \in 1 .. MaxTabs /\ Len(new) >= Len(shown[e])
        /\ \A i \in 1 .. Len(new) : new[i] = t \/ (i =< Len(shown[e]) /\ new[i] = shown[e][i])
  <2>1. CASE shown' = [shown EXCEPT ![e][1] = t]
    <3> DEFINE new == [shown[e] EXCEPT ![1] = t]
    <3>1. new \in Seq(Texts) /\ Len(new) = Len(shown[e])
          /\ \A i \in 1 .. Len(new) : new[i] = IF i = 1 THEN t ELSE shown[e][i]
      BY <1>3, ExceptSeq
    <3>2. shown' = [shown EXCEPT ![e] = new]
      BY <2>1
    <3> HIDE DEF new
    <3>3. /\ Len(new) \in 1 .. MaxTabs /\ Len(new) >= Len(shown[e])
          /\ \A i \in 1 .. Len(new) : new[i] = t \/ (i =< Len(shown[e]) /\ new[i] = shown[e][i])
      BY <1>3, <3>1
    <3>4. QED  BY <3>1, <3>2, <3>3, Zenon
  <2>2. CASE Len(shown[e]) < MaxTabs /\ shown' = [shown EXCEPT ![e] = Append(@, t)]
    <3> DEFINE new == Append(shown[e], t)
    <3>1. new \in Seq(Texts) /\ Len(new) = Len(shown[e]) + 1 /\ new[Len(shown[e]) + 1] = t
          /\ \A i \in 1 .. Len(shown[e]) : new[i] = shown[e][i]
      BY <1>3, AppendProperties
    <3>2. shown' = [shown EXCEPT ![e] = new]
      BY <2>2
    <3> HIDE DEF new
    <3>3. Len(new) \in 1 .. MaxTabs /\ Len(new) >= Len(shown[e])
      BY <1>3, <2>2, <3>1, BrowserAssumption
    <3>4. \A i \in 1 .. Len(new) : new[i] = t \/ (i =< Len(shown[e]) /\ new[i] = shown[e][i])
      BY <1>3, <3>1, BrowserAssumption
    <3>5. QED  BY <3>1, <3>2, <3>3, <3>4, Zenon
  <2>3. QED  BY <1>2, <2>1, <2>2
<1>5. Spaces'
  BY <1>1, <1>2, <1>4 DEF BrowserInv, Spaces, taskVars, readVars
<1>6. StepOf(e)
  BY <1>1, <1>2, <1>4 DEF BrowserInv, Spaces, StepOf, taskVars, readVars
<1>7. /\ shown'[e] = new /\ placeholder'[e] = (placeholder[e] \/ said)
      /\ UNCHANGED <<cached, pc, attempt, source, hits, verdict, result, error, kept, baseline,
                     tabs, text, shot>>
  BY <1>1, <1>2, <1>4 DEF BrowserInv, Spaces, taskVars, readVars
<1>8. ASSUME ~interim, ~answered'[e]  PROVE ~answered[e] /\ t = Blank
  BY <1>2, <1>8 DEF BrowserInv, Spaces
<1>9. PageOK(e)'
  <2>1. Len(new) \in 1 .. MaxTabs /\ \A i \in 1 .. Len(tabs[e]) : tabs[e][i] \in 1 .. Len(new)
    BY <1>3, <1>4, BrowserAssumption DEF PageOK
  <2>2. ASSUME NEW i \in 1 .. Len(new)  PROVE new[i] = baseline[e] \/ Honest(e, new[i])'
    <3>1. CASE new[i] = t
      <4>1. t = {"no_record"} => hits[e] = 0 \/ placeholder'[e]
        BY <1>2, <1>7
      <4>2. QED  BY <1>2, <1>7, <3>1, <4>1 DEF Honest
    <3>2. CASE i =< Len(shown[e]) /\ new[i] = shown[e][i]
      <4>1. i \in 1 .. Len(shown[e])
        BY <1>3, <1>4, <3>2, BrowserAssumption
      <4>2. new[i] = baseline[e] \/ Honest(e, new[i])
        BY <1>1, <1>3, <3>2, <4>1 DEF PageOK
      <4>3. QED  BY <1>7, <4>2 DEF Honest
    <3>3. QED  BY <1>4, <3>1, <3>2
  <2>3. ASSUME ~interim, ~answered'[e], NEW i \in 1 .. Len(new)
        PROVE  new[i] \in {Blank, baseline[e]}
    BY <1>3, <1>4, <1>8, <2>3 DEF PageOK
  <2>4. (pc[e] \in {"read", "picture"} => tabs[e] # <<>>)
    BY <1>3 DEF PageOK
  <2>5. ~interim => ~placeholder'[e]
    BY <1>2, <1>3, <1>7 DEF PageOK
  <2>6. \A i \in 1 .. Len(new) : new[i] = baseline[e] \/ Honest(e, new[i])'
    BY <2>2
  <2>7. QED  BY <1>7, <2>1, <2>3, <2>4, <2>5, <2>6 DEF PageOK
<1>10. ReadOK(e)'
  <2>1. ~interim => pc[e] # "picture"
    BY <1>1 DEF BrowserInv, ExecutorOK, ReadOK
  <2>2. QED  BY <1>1, <1>7, <2>1 DEF BrowserInv, ExecutorOK, ReadOK, Honest, OnPage
<1>11. AttemptOK(e)' /\ PreflightOK(e)' /\ ResultOK(e)'
  BY <1>1, <1>7 DEF OnPage, BrowserInv, ExecutorOK, AttemptOK, PreflightOK, ResultOK
<1>12. QED  BY <1>5, <1>6, <1>9, <1>10, <1>11, OthersKept DEF ExecutorOK

LEMMA ConfirmStep ==
    ASSUME BrowserInv, UNCHANGED <<manual, interim>>, NEW e \in Executors, Confirm(e)
    PROVE  BrowserInv'
<1> DEFINE every == [i \in 1 .. Len(shown[e]) |-> i]
<1>1. /\ Goes(e, "confirm", "read") /\ tabs' = [tabs EXCEPT ![e] = Append(every, 1)]
      /\ UNCHANGED <<cached, attempt, source, hits, verdict, result, error, kept,
                     shown, answered, placeholder, baseline, text, shot>>
  BY DEF Confirm, taskVars, pageVars
<1>3. Len(shown[e]) \in Nat \ {0} /\ PageOK(e)
  BY BrowserAssumption DEF BrowserInv, ExecutorOK, PageOK
<1>4. every \in Seq(Nat) /\ Len(every) = Len(shown[e])
  BY <1>3
<1>5. \A i \in 1 .. Len(every) : every[i] = i
  BY <1>3, <1>4
<1> HIDE DEF every
<1>6. /\ Append(every, 1) \in Seq(Nat) /\ Append(every, 1) # <<>>
      /\ \A i \in 1 .. Len(Append(every, 1)) : Append(every, 1)[i] \in 1 .. Len(shown[e])
  <2>1. /\ Append(every, 1) \in Seq(Nat) /\ Append(every, 1) # <<>>
        /\ Len(Append(every, 1)) = Len(every) + 1 /\ Append(every, 1)[Len(every) + 1] = 1
        /\ \A i \in 1 .. Len(every) : Append(every, 1)[i] = every[i]
    BY <1>4, AppendProperties
  <2>2. QED  BY <1>3, <1>4, <1>5, <2>1
<1> DEFINE new == Append(every, 1)
<1> HIDE DEF new
<1>7. pc[e] = "confirm" /\ pc'[e] = "read" /\ tabs' = [tabs EXCEPT ![e] = new] /\ tabs'[e] = new
  BY <1>1 DEF Goes, BrowserInv, Spaces, new
<1>8. Spaces' /\ StepOf(e)
  BY <1>1, <1>6, <1>7 DEF BrowserInv, Spaces, StepOf, Goes, RunPC, new
<1>9. PageOK(e)'
  BY <1>1, <1>3, <1>6, <1>7 DEF PageOK, OnPage, Honest, new
<1>10. AttemptOK(e)' /\ PreflightOK(e)' /\ ReadOK(e)' /\ ResultOK(e)'
  BY <1>1, <1>7 DEF BrowserInv, ExecutorOK, AttemptOK, PreflightOK, ReadOK, ResultOK, Honest, Early
<1>12. QED  BY <1>8, <1>9, <1>10, OthersKept DEF ExecutorOK

\* The tab that is looked at is there.
LEMMA LookedAt ==
    ASSUME BrowserInv, NEW e \in Executors, pc[e] \in {"read", "picture"}
    PROVE  Head(tabs[e]) \in 1 .. Len(shown[e]) /\ shown[e][Head(tabs[e])] \in Texts
<1>1. tabs[e] \in Seq(Nat) /\ tabs[e] # <<>> /\ PageOK(e) /\ shown[e] \in Seq(Texts)
  BY DEF BrowserInv, Spaces, ExecutorOK, PageOK
<1>2. Len(tabs[e]) \in Nat \ {0} /\ Head(tabs[e]) = tabs[e][1]
  BY <1>1
<1>3. Head(tabs[e]) \in 1 .. Len(shown[e])
  BY <1>1, <1>2 DEF PageOK
<1>4. QED  BY <1>1, <1>3, ElementOfSeq

LEMMA LookStep ==
    ASSUME BrowserInv, UNCHANGED <<manual, interim>>, NEW e \in Executors, Look(e)
    PROVE  BrowserInv'
<1> DEFINE t == shown[e][Head(tabs[e])]
<1>1. /\ pc[e] = "read" /\ pc' = [pc EXCEPT ![e] = "picture"]
      /\ t \notin {Blank, baseline[e]} /\ text' = [text EXCEPT ![e] = t]
      /\ UNCHANGED <<cached, attempt, source, hits, verdict, result, error, kept,
                     shown, answered, placeholder, baseline, tabs, shot>>
  BY DEF Look, Goes, taskVars, pageVars
<1>2. Head(tabs[e]) \in 1 .. Len(shown[e]) /\ t \in Texts
  BY <1>1, LookedAt
<1>3. PageOK(e)
  BY DEF BrowserInv, ExecutorOK
<1>4. Honest(e, t) /\ (~interim => answered[e])
  BY <1>1, <1>2, <1>3 DEF PageOK, OnPage
<1> HIDE DEF t
<1>5. Spaces' /\ StepOf(e)
  BY <1>1, <1>2 DEF BrowserInv, Spaces, StepOf, RunPC
<1>6. pc'[e] = "picture" /\ text'[e] = t
  BY <1>1 DEF BrowserInv, Spaces
<1>7. PageOK(e)'
  BY <1>1, <1>3, <1>6 DEF PageOK, OnPage, Honest
<1>8. ReadOK(e)'
  BY <1>1, <1>4, <1>6 DEF ReadOK, Honest, t
<1>9. AttemptOK(e)' /\ PreflightOK(e)' /\ ResultOK(e)'
  BY <1>1, <1>6 DEF BrowserInv, ExecutorOK, AttemptOK, PreflightOK, ResultOK, Early
<1>10. QED  BY <1>5, <1>7, <1>8, <1>9, OthersKept DEF ExecutorOK

LEMMA PictureStep ==
    ASSUME BrowserInv, UNCHANGED <<manual, interim>>, NEW e \in Executors, Picture(e)
    PROVE  BrowserInv'
<1> DEFINE t == shown[e][Head(tabs[e])]
<1>1. /\ pc[e] = "picture" /\ pc' = [pc EXCEPT ![e] = "classify"]
      /\ shot' = [shot EXCEPT ![e] = t]
      /\ UNCHANGED <<cached, attempt, source, hits, verdict, result, error, kept,
                     shown, answered, placeholder, baseline, tabs, text>>
  BY DEF Picture, Goes, taskVars, pageVars
<1>2. t \in Texts
  BY <1>1, LookedAt
<1>3. PageOK(e) /\ ReadOK(e)
  BY DEF BrowserInv, ExecutorOK
<1>4. Honest(e, text[e]) /\ (~interim => t = text[e])
  BY <1>1, <1>3 DEF ReadOK
<1> HIDE DEF t
<1>5. Spaces' /\ StepOf(e)
  BY <1>1, <1>2 DEF BrowserInv, Spaces, StepOf, RunPC
<1>6. pc'[e] = "classify" /\ shot'[e] = t
  BY <1>1 DEF BrowserInv, Spaces
<1>7. PageOK(e)'
  BY <1>1, <1>3, <1>6 DEF PageOK, OnPage
<1>8. ReadOK(e)'
  BY <1>1, <1>4, <1>6 DEF ReadOK, Honest
<1>9. AttemptOK(e)' /\ PreflightOK(e)' /\ ResultOK(e)'
  BY <1>1, <1>6 DEF BrowserInv, ExecutorOK, AttemptOK, PreflightOK, ResultOK, Early
<1>10. QED  BY <1>5, <1>7, <1>8, <1>9, OthersKept DEF ExecutorOK

LEMMA GiveUpStep ==
    ASSUME BrowserInv, UNCHANGED <<manual, interim>>, NEW e \in Executors, GiveUp(e)
    PROVE  BrowserInv'
<1>1. pc[e] \in {"read", "picture"} /\ pc[e] \notin Early
  BY DEF GiveUp, Early
<1>2. CASE TransportFails(e)
  BY <1>1, <1>2, TransportFailsStep
<1>3. CASE /\ Len(tabs[e]) > 1
           /\ pc' = [pc EXCEPT ![e] = "read"]
           /\ tabs' = [tabs EXCEPT ![e] = Tail(@)]
           /\ UNCHANGED <<cached, attempt, taskVars, pageVars, text, shot>>
  <2>1. UNCHANGED <<cached, attempt, source, hits, verdict, result, error, kept,
                    shown, answered, placeholder, baseline, text, shot>>
    BY <1>3 DEF taskVars, pageVars
  <2>2. PageOK(e) /\ tabs[e] \in Seq(Nat) /\ tabs[e] # <<>>
    BY <1>1 DEF BrowserInv, Spaces, ExecutorOK, PageOK
  <2>3. PICK rest \in Seq(Nat) :
          /\ rest = Tail(tabs[e]) /\ Len(rest) = Len(tabs[e]) - 1
          /\ \A i \in 1 .. Len(rest) : rest[i] = tabs[e][i + 1]
    BY <2>2, HeadTailProperties
  <2>4. tabs' = [tabs EXCEPT ![e] = rest] /\ rest # <<>> /\ Len(rest) \in Nat
    <3>1. Len(rest) \in Nat /\ Len(rest) > 0
      BY <1>3, <2>2, <2>3
    <3>2. rest # <<>>
      BY <3>1, EmptySeq
    <3>3. QED  BY <1>3, <2>3, <3>1, <3>2
  <2>5. \A i \in 1 .. Len(rest) : rest[i] \in 1 .. Len(shown[e])
    <3> SUFFICES ASSUME NEW i \in 1 .. Len(rest)  PROVE rest[i] \in 1 .. Len(shown[e])
      OBVIOUS
    <3>1. rest[i] = tabs[e][i + 1]
      BY <2>3
    <3>2. i + 1 \in 1 .. Len(tabs[e])
      BY <2>2, <2>3, <2>4
    <3>3. QED  BY <2>2, <3>1, <3>2 DEF PageOK
  <2>6. Spaces' /\ StepOf(e)
    BY <1>3, <2>1, <2>4 DEF BrowserInv, Spaces, StepOf, RunPC
  <2>7. pc'[e] = "read" /\ tabs'[e] = rest
    BY <1>3, <2>4 DEF BrowserInv, Spaces
  <2>8. PageOK(e)'
    BY <1>1, <2>1, <2>2, <2>4, <2>5, <2>7 DEF PageOK, OnPage, Honest
  <2>9. AttemptOK(e)' /\ PreflightOK(e)' /\ ReadOK(e)' /\ ResultOK(e)'
    BY <1>1, <2>1, <2>7 DEF BrowserInv, ExecutorOK, AttemptOK, PreflightOK, ReadOK, ResultOK, Early
  <2>10. QED  BY <2>6, <2>8, <2>9, OthersKept DEF ExecutorOK
<1>4. QED  BY <1>2, <1>3 DEF GiveUp
-----------------------------------------------------------------------------
(* Results *)

LEMMA ReadStep ==
    ASSUME BrowserInv, UNCHANGED <<manual, interim>>, NEW e \in Executors, Read(e)
    PROVE  BrowserInv'
<1> DEFINE status == Classify(text[e]).status
<1> DEFINE err == Classify(text[e]).err
<1>1. pc[e] = "classify" /\ pc[e] \notin Early /\ Judged(e, status, err)
  BY DEF Read, Early
<1>2. text[e] \in Texts /\ Honest(e, text[e]) /\ (~interim => shot[e] = text[e])
  BY <1>1 DEF BrowserInv, Spaces, ExecutorOK, ReadOK
<1>3. /\ status \in Statuses /\ err \in {NoError, "busy", "page"}
      /\ status \in Confirmed \/ err # NoError \/ status = "needs_review"
      /\ (err = "busy" => status = "retryable_error") /\ (status = "retryable_error" => err = "busy")
  BY <1>2, ClassifyHonest
<1>4. CASE status \in Confirmed
  <2>1. pc' = [pc EXCEPT ![e] = "save"]
        /\ UNCHANGED <<cached, attempt, taskVars, pageVars, readVars>>
    BY <1>1, <1>4 DEF Judged, Confirmed
  <2>2. UNCHANGED <<cached, attempt, source, hits, verdict, result, error, kept,
                    shown, answered, placeholder, baseline, tabs, text, shot>>
    BY <2>1 DEF taskVars, pageVars, readVars
  <2>3. Spaces' /\ StepOf(e) /\ pc'[e] = "save"
    BY <2>1, <2>2 DEF BrowserInv, Spaces, StepOf, RunPC
  <2>4. ReadOK(e)'
    BY <1>2, <1>4, <2>2, <2>3 DEF ReadOK, Honest
  <2>5. PageOK(e)'
    BY <2>2, <2>3 DEF BrowserInv, ExecutorOK, PageOK, OnPage
  <2>6. AttemptOK(e)' /\ PreflightOK(e)' /\ ResultOK(e)'
    BY <1>1, <2>2, <2>3 DEF BrowserInv, ExecutorOK, AttemptOK, PreflightOK, ResultOK,
                            Early
  <2>7. QED  BY <2>3, <2>4, <2>5, <2>6, OthersKept DEF ExecutorOK
<1>5. CASE status = "retryable_error"
  <2>1. status \notin Confirmed /\ err = "busy"
    BY <1>3, <1>5 DEF Confirmed
  <2>2. AttemptFails(e, err)
    BY <1>1, <1>5, <2>1 DEF Judged
  <2>3. QED  BY <1>1, <2>1, <2>2, AttemptFailsStep DEF Errors
<1>6. CASE status \notin Confirmed /\ status # "retryable_error"
  <2>1. Settles(e, status, err, NoShot)
    BY <1>1, <1>6 DEF Judged
  <2>2. status # "found" /\ status # "not_found" /\ err \in Errors \cup {NoError}
        /\ err \notin {"plain", "busy"}
    BY <1>3, <1>6 DEF Confirmed, Errors, NoError
  <2>3. QED  BY <1>3, <1>6, <2>1, <2>2, SettlesStep
<1>7. QED  BY <1>4, <1>5, <1>6

\* What a reply that is not incomplete is rendered to is honest.
LEMMA RenderedHonest ==
    ASSUME NEW e \in Executors, NEW r \in Reply, ~Incomplete(r),
           r.code = 200 /\ r.fields /\ r.total >= 0 => r.total = hits[e]
    PROVE  /\ Rendered(r) \in Texts /\ Honest(e, Rendered(r))
           /\ Classify(Rendered(r)).status \in Confirmed
<1>1. /\ r.code = 200 /\ r.fields /\ r.total \in Int /\ r.results \in Int /\ r.results >= 0
      /\ r.total >= r.results /\ (r.total > 0 => r.results # 0) /\ r.total >= 0
  BY DEF Incomplete, Reply
<1>2. r.total = hits[e]
  BY <1>1
<1>3. CASE r.results = 0
  BY <1>1, <1>2, <1>3, EmptyTexts, Answered DEF Rendered, Honest, Outcome, Confirmed
<1>4. CASE r.results # 0
  BY <1>1, <1>2, <1>4, EmptyTexts, Answered DEF Rendered, Honest, Outcome, Confirmed
<1>5. QED  BY <1>3, <1>4

LEMMA FetchStep ==
    ASSUME BrowserInv, UNCHANGED <<manual, interim>>, NEW e \in Executors, Fetch(e)
    PROVE  BrowserInv'
<1>1. pc[e] = "fetch" /\ pc[e] \notin Early
  BY DEF Fetch, Early
<1>2. CASE TransportFails(e)
  BY <1>1, <1>2, TransportFailsStep
<1>3. CASE Settles(e, "fatal_error", "reply", NoShot)
  BY <1>3, SettlesStep DEF Statuses, Confirmed, Failures, Errors
<1>4. ASSUME NEW r \in Reply,
             r.code = 200 /\ r.fields /\ r.total >= 0 => r.total = hits[e],
             /\ ~Incomplete(r)
             /\ pc' = [pc EXCEPT ![e] = "render"]
             /\ text' = [text EXCEPT ![e] = Rendered(r)]
             /\ UNCHANGED <<cached, attempt, taskVars, pageVars, tabs, shot>>
      PROVE  BrowserInv'
  <2>1. PICK t \in Texts : t = Rendered(r) /\ Honest(e, t) /\ Classify(t).status \in Confirmed
    BY <1>4, RenderedHonest
  <2>2. /\ text' = [text EXCEPT ![e] = t]
        /\ UNCHANGED <<cached, attempt, source, hits, verdict, result, error, kept,
                       shown, answered, placeholder, baseline, tabs, shot>>
    BY <1>4, <2>1 DEF taskVars, pageVars
  <2>3. Spaces' /\ StepOf(e) /\ pc'[e] = "render" /\ text'[e] = t
    BY <1>4, <2>2 DEF BrowserInv, Spaces, StepOf, RunPC
  <2>4. ReadOK(e)'
    BY <2>1, <2>2, <2>3 DEF ReadOK, Honest
  <2>5. PageOK(e)'
    BY <2>2, <2>3 DEF BrowserInv, ExecutorOK, PageOK, OnPage
  <2>6. AttemptOK(e)' /\ PreflightOK(e)' /\ ResultOK(e)'
    BY <1>1, <2>2, <2>3 DEF BrowserInv, ExecutorOK, AttemptOK, PreflightOK, ResultOK,
                            Early
  <2>7. QED  BY <2>3, <2>4, <2>5, <2>6, OthersKept DEF ExecutorOK
<1>5. QED  BY <1>2, <1>3, <1>4 DEF Fetch

LEMMA RenderStep ==
    ASSUME BrowserInv, UNCHANGED <<manual, interim>>, NEW e \in Executors, Render(e)
    PROVE  BrowserInv'
<1>1. pc[e] = "render" /\ pc[e] \notin Early
  BY DEF Render, Early
<1>2. CASE TransportFails(e)
  BY <1>1, <1>2, TransportFailsStep
<1>3. CASE /\ pc' = [pc EXCEPT ![e] = "save"]
           /\ shot' = [shot EXCEPT ![e] = text[e]]
           /\ UNCHANGED <<cached, attempt, taskVars, pageVars, tabs, text>>
  <2>1. UNCHANGED <<cached, attempt, source, hits, verdict, result, error, kept,
                    shown, answered, placeholder, baseline, tabs, text>>
    BY <1>3 DEF taskVars, pageVars
  <2>2. Spaces' /\ StepOf(e) /\ pc'[e] = "save" /\ shot'[e] = text[e]
    BY <1>3, <2>1 DEF BrowserInv, Spaces, StepOf, RunPC
  <2>3. ReadOK(e)'
    BY <1>1, <2>1, <2>2 DEF BrowserInv, ExecutorOK, ReadOK, Honest
  <2>4. PageOK(e)'
    BY <2>1, <2>2 DEF BrowserInv, ExecutorOK, PageOK, OnPage
  <2>5. AttemptOK(e)' /\ PreflightOK(e)' /\ ResultOK(e)'
    BY <1>1, <2>1, <2>2 DEF BrowserInv, ExecutorOK, AttemptOK, PreflightOK, ResultOK,
                            Early
  <2>6. QED  BY <2>2, <2>3, <2>4, <2>5, OthersKept DEF ExecutorOK
<1>4. QED  BY <1>2, <1>3 DEF Render

LEMMA SaveStep ==
    ASSUME BrowserInv, UNCHANGED <<manual, interim>>, NEW e \in Executors, Save(e)
    PROVE  BrowserInv'
<1>1. /\ text[e] \in Texts /\ Honest(e, text[e]) /\ (~interim => shot[e] = text[e])
      /\ Classify(text[e]).status \in Confirmed /\ shot[e] \in Texts \cup {NoShot}
  BY DEF Save, BrowserInv, Spaces, ExecutorOK, ReadOK
<1>2. CASE Settles(e, Classify(text[e]).status, NoError, shot[e])
  <2>1. NoError \notin {"plain", "busy"} /\ NoError \in Errors \cup {NoError}
    BY DEF NoError
  <2>2. /\ Classify(text[e]).status \in Statuses
        /\ Classify(text[e]).status = "not_found" => hits[e] = 0 \/ placeholder[e]
        /\ ~interim /\ Classify(text[e]).status = "found" => hits[e] > 0
    BY <1>1, ClassifyHonest
  <2>3. QED  BY <1>1, <1>2, <2>1, <2>2, SettlesStep
<1>3. CASE Settles(e, "retryable_error", "plain", NoShot)
  BY <1>3, SettlesStep DEF Statuses, Confirmed, Failures, Errors, Transport
<1>4. QED  BY <1>2, <1>3 DEF Save

LEMMA CancelStep ==
    ASSUME BrowserInv, UNCHANGED <<manual, interim>>, NEW e \in Executors, Cancel(e)
    PROVE  BrowserInv'
<1>1. /\ pc' = [pc EXCEPT ![e] = "idle"] /\ attempt' = [attempt EXCEPT ![e] = 0] /\ Closed(e)
      /\ UNCHANGED <<cached, placeholder, source, hits, verdict, result, error, kept>>
  BY DEF Cancel, taskVars
<1>2. Spaces' /\ StepOf(e)
  BY <1>1, EmptyTexts, EmptySeq DEF BrowserInv, Spaces, StepOf, Closed, RunPC
<1>3. pc'[e] = "idle" /\ attempt'[e] = 0
  BY <1>1 DEF BrowserInv, Spaces
<1>4. AttemptOK(e)'
  BY <1>1, <1>3, RetriesType DEF AttemptOK, BrowserInv, Spaces
<1>5. PageOK(e)'
  BY <1>1, <1>3, ClosedPage DEF BrowserInv, OnPage
<1>6. PreflightOK(e)' /\ ReadOK(e)' /\ ResultOK(e)'
  BY <1>1, <1>3 DEF BrowserInv, ExecutorOK, PreflightOK, ReadOK, ResultOK, Early
<1>7. QED  BY <1>2, <1>4, <1>5, <1>6, OthersKept DEF ExecutorOK
-----------------------------------------------------------------------------
(* The invariant *)

LEMMA BrowserInit ==
    ASSUME Init
    PROVE  BrowserInv
<1>1. Spaces
  BY EmptyTexts, EmptySeq DEF Init, Spaces, RunPC, Statuses
<1>2. ASSUME NEW e \in Executors  PROVE ExecutorOK(e)
  <2>1. AttemptOK(e)
    BY <1>1, RetriesType DEF Init, AttemptOK, Spaces
  <2>2. PageOK(e)
    BY EmptyTexts, EmptySeq, BrowserAssumption DEF Init, PageOK, OnPage
  <2>3. PreflightOK(e) /\ ReadOK(e)
    BY BrowserAssumption DEF Init, PreflightOK, ReadOK, Early
  <2>4. ResultOK(e)
    BY DEF Init, ResultOK, NoError, Confirmed
  <2>5. QED  BY <2>1, <2>2, <2>3, <2>4 DEF ExecutorOK
<1>3. QED  BY <1>1, <1>2 DEF BrowserInv

\* Every step keeps the invariant.
LEMMA BrowserStep ==
    ASSUME BrowserInv, [Next]_vars
    PROVE  BrowserInv'
<1>1. ASSUME NEW e \in Executors, Begin(e) \/ Cancel(e), UNCHANGED <<manual, interim>>
      PROVE  BrowserInv'
  BY <1>1, BeginStep, CancelStep
<1>2. ASSUME NEW e \in Executors, PageWrites(e) \/ Confirm(e),
             UNCHANGED <<manual, interim>>  PROVE BrowserInv'
  BY <1>2, PageWritesStep, ConfirmStep
<1>3. ASSUME NEW e \in Executors, ExecutorStep(e)  PROVE BrowserInv'
  <2>0. UNCHANGED <<manual, interim>>
    BY <1>3 DEF ExecutorStep, given
  <2>1. CASE LookUp(e) \/ Probe(e) \/ Keep(e) \/ Run(e)
    BY <2>0, <2>1, PreflightStep, RunStep
  <2>2. CASE Open(e) \/ Query(e)
    BY <2>0, <2>2, OpenStep, QueryStep
  <2>3. CASE Look(e) \/ Picture(e) \/ GiveUp(e) \/ Read(e)
    BY <2>0, <2>3, LookStep, PictureStep, GiveUpStep, ReadStep
  <2>4. CASE Fetch(e) \/ Render(e) \/ Save(e)
    BY <2>0, <2>4, FetchStep, RenderStep, SaveStep
  <2>5. QED  BY <1>3, <2>1, <2>2, <2>3, <2>4 DEF ExecutorStep
<1>4. ASSUME UNCHANGED vars  PROVE BrowserInv'
  <2>1. UNCHANGED <<manual, interim, cached, pc, attempt, source, hits, verdict, result, error,
                    kept, shown, answered, placeholder, baseline, tabs, text, shot>>
    BY <1>4 DEF vars, given, taskVars, pageVars, readVars
  <2>2. Spaces'
    BY <2>1 DEF BrowserInv, Spaces
  <2>3. \A e \in Executors : ExecutorOK(e)'
    BY <2>1 DEF BrowserInv, ExecutorOK, AttemptOK, PreflightOK, PageOK, ReadOK, ResultOK,
                Honest
  <2>4. QED  BY <2>2, <2>3 DEF BrowserInv
<1>5. ASSUME NEW e \in Executors, OutsideStep(e)  PROVE BrowserInv'
  BY <1>1, <1>2, <1>5 DEF OutsideStep, given
<1>6. QED  BY <1>3, <1>4, <1>5 DEF Next

THEOREM BrowserInvariant == Spec => []BrowserInv
<1>1. Init => BrowserInv
  BY BrowserInit
<1>2. BrowserInv /\ [Next]_vars => BrowserInv'
  BY BrowserStep
<1>3. QED  BY <1>1, <1>2, PTL DEF Spec
-----------------------------------------------------------------------------
(* Theorems *)

\* The state of Run, runOnce and execute is of its type: attempts stay within
\* the source's retries, and readResult looks at tabs that are there.
THEOREM BrowserTypeCorrect == Spec => []TypeOK
<1>1. BrowserInv => TypeOK
  <2> SUFFICES ASSUME BrowserInv  PROVE TypeOK
    OBVIOUS
  <2>1. ASSUME NEW e \in Executors
        PROVE  /\ attempt[e] \in 0 .. Registry[source[e]].retries
               /\ Len(shown[e]) \in 1 .. MaxTabs
               /\ \A i \in DOMAIN shown[e] : shown[e][i] \in Texts
               /\ \A i \in DOMAIN tabs[e] : tabs[e][i] \in DOMAIN shown[e]
    <3>1. /\ attempt[e] \in Nat /\ source[e] \in SourceIds
          /\ shown[e] \in Seq(Texts) /\ tabs[e] \in Seq(Nat)
          /\ AttemptOK(e) /\ PageOK(e)
      BY DEF BrowserInv, Spaces, ExecutorOK
    <3>2. DOMAIN shown[e] = 1 .. Len(shown[e]) /\ DOMAIN tabs[e] = 1 .. Len(tabs[e])
      BY <3>1, LenProperties
    <3>3. attempt[e] \in 0 .. Registry[source[e]].retries
      BY <3>1, RetriesType DEF AttemptOK
    <3>4. QED  BY <3>1, <3>2, <3>3, ElementOfSeq DEF PageOK
  <2>2. QED  BY <2>1 DEF BrowserInv, Spaces, TypeOK
<1>2. QED  BY <1>1, BrowserInvariant, PTL

\* If pages write nothing before their answer, "found" and "not_found" are
\* true, through every retry, tab, failed picture and cancellation.
THEOREM VerdictsTrue == Spec => []VerdictIsTrue
<1>1. BrowserInv => VerdictIsTrue
  BY DEF BrowserInv, Spaces, ExecutorOK, PageOK, ResultOK, VerdictIsTrue, Confirmed
<1>2. QED  BY <1>1, BrowserInvariant, PTL

\* Nobody is recorded as free of records who has some, unless the page itself
\* said so before its answer: however replies are cut, and whatever was on the
\* page before the query or in an earlier attempt.
THEOREM NotFoundAlwaysTrue == Spec => []NotFoundIsTrue
<1>1. BrowserInv => NotFoundIsTrue
  BY DEF BrowserInv, ExecutorOK, ResultOK, NotFoundIsTrue
<1>2. QED  BY <1>1, BrowserInvariant, PTL

\* A picture that is delivered shows the result that its name says.
THEOREM PicturesAgree == Spec => []PictureAgrees
<1>1. BrowserInv => PictureAgrees
  BY DEF BrowserInv, ExecutorOK, ResultOK, PictureAgrees
<1>2. QED  BY <1>1, BrowserInvariant, PTL

\* One executor moves on, or stays, or is done.
Moved(e) ==
    pc[e] # "idle" /\ pc'[e] \notin {pc[e], "idle"} =>
        \/ attempt'[e] > attempt[e]
        \/ attempt'[e] = attempt[e] /\ Stage[pc'[e]] > Stage[pc[e]]
        \/ attempt'[e] = attempt[e] /\ Len(tabs'[e]) < Len(tabs[e])

LEMMA AttemptFailsMoves ==
    ASSUME Spaces, NEW e \in Executors, NEW err, AttemptFails(e, err)
    PROVE  /\ \A d \in Executors \ {e} : pc'[d] = pc[d]
           /\ pc'[e] = "idle" \/ (attempt[e] \in Nat /\ attempt'[e] = attempt[e] + 1)
BY DEF Spaces, AttemptFails, Settles

LEMMA ExecutorMoves ==
    ASSUME BrowserInv, NEW e \in Executors, ExecutorStep(e) \/ OutsideStep(e)
    PROVE  Moved(e) /\ \A d \in Executors \ {e} : pc'[d] = pc[d]
<1>1. Spaces
  BY DEF BrowserInv
<1>2. ASSUME NEW err, AttemptFails(e, err)
      PROVE  Moved(e) /\ \A d \in Executors \ {e} : pc'[d] = pc[d]
  BY <1>1, <1>2, AttemptFailsMoves DEF Moved
<1>3. CASE TransportFails(e)
  BY <1>2, <1>3 DEF TransportFails
<1>4. ASSUME NEW status, NEW err, NEW picture, Settles(e, status, err, picture)
      PROVE  Moved(e) /\ \A d \in Executors \ {e} : pc'[d] = pc[d]
  BY <1>1, <1>4 DEF Settles, Spaces, Moved
<1>5. ASSUME NEW from \in RunPC, NEW to \in RunPC, pc[e] = from, pc' = [pc EXCEPT ![e] = to],
             from = "idle" \/ (attempt' = attempt /\ Stage[to] > Stage[from])
      PROVE  Moved(e) /\ \A d \in Executors \ {e} : pc'[d] = pc[d]
  BY <1>1, <1>5 DEF Spaces, Moved
<1>6. CASE Begin(e) \/ LookUp(e) \/ Probe(e) \/ Keep(e)
  BY <1>1, <1>6 DEF Begin, LookUp, Probe, Keep, Goes, Verdict, Stage, Spaces, Moved
<1>7. CASE Run(e)
  BY <1>4, <1>5, <1>7 DEF Run, Stage, RunPC
<1>8. CASE Open(e)
  BY <1>3, <1>5, <1>8 DEF Open, Stage, RunPC
<1>9. CASE Query(e)
  BY <1>3, <1>5, <1>9 DEF Query, Stage, RunPC
<1>10. CASE Confirm(e) \/ Look(e) \/ Picture(e)
  BY <1>1, <1>10 DEF Confirm, Look, Picture, Goes, Stage, Spaces, Moved
<1>11. CASE GiveUp(e)
  <2>1. CASE /\ pc[e] \in {"read", "picture"} /\ Len(tabs[e]) > 1
             /\ pc' = [pc EXCEPT ![e] = "read"]
             /\ tabs' = [tabs EXCEPT ![e] = Tail(@)]
             /\ UNCHANGED attempt
    <3>1. tabs[e] \in Seq(Nat) /\ tabs'[e] = Tail(tabs[e])
      BY <1>1, <2>1 DEF Spaces
    <3>2. Len(Tail(tabs[e])) = Len(tabs[e]) - 1 /\ Len(tabs[e]) \in Nat
      BY <2>1, <3>1
    <3>3. QED  BY <1>1, <2>1, <3>1, <3>2 DEF Spaces, Moved
  <2>2. QED  BY <1>3, <1>11, <2>1 DEF GiveUp
<1>12. CASE Read(e)
  BY <1>2, <1>4, <1>5, <1>12 DEF Read, Judged, Stage, RunPC
<1>13. CASE Fetch(e)
  BY <1>3, <1>4, <1>5, <1>13 DEF Fetch, Stage, RunPC
<1>14. CASE Render(e)
  BY <1>3, <1>5, <1>14 DEF Render, Stage, RunPC
<1>15. CASE Save(e)
  BY <1>4, <1>15 DEF Save
<1>16. CASE PageWrites(e) \/ Cancel(e)
  BY <1>1, <1>16 DEF PageWrites, Cancel, Spaces, Moved
<1>17. QED
  BY <1>6, <1>7, <1>8, <1>9, <1>10, <1>11, <1>12, <1>13, <1>14, <1>15, <1>16
  DEF ExecutorStep, OutsideStep

\* No execution turns back: whatever fails, it comes nearer to its end.
THEOREM ExecutionsMoveOn == Spec => ExecutionMovesOn
<1>1. ASSUME BrowserInv, [Next]_vars, NEW e \in Executors  PROVE Moved(e)
  <2>1. ASSUME NEW d \in Executors, ExecutorStep(d) \/ OutsideStep(d)  PROVE Moved(e)
    BY <1>1, <2>1, ExecutorMoves DEF Moved
  <2>2. CASE UNCHANGED vars
    BY <2>2 DEF vars, Moved
  <2>3. QED  BY <1>1, <2>1, <2>2 DEF Next
<1>2. BrowserInv /\ [Next]_vars => [\A e \in Executors : Moved(e)]_vars
  BY <1>1
<1>3. QED  BY <1>2, BrowserInvariant, PTL DEF Spec, ExecutionMovesOn, Moved

\* Neither an error in no telling words nor a page that is busy makes a task
\* fatal, after any number of attempts and by any preflight that is kept.
THEOREM TemporaryAlwaysRetryable == Spec => []TemporaryStaysRetryable
<1>1. BrowserInv => TemporaryStaysRetryable
  BY DEF BrowserInv, ExecutorOK, ResultOK, TemporaryStaysRetryable
<1>2. QED  BY <1>1, BrowserInvariant, PTL
=============================================================================
