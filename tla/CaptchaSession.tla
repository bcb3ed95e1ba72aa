--------------------------- MODULE CaptchaSession ---------------------------
(***************************************************************************)
(* How a scraper gets past the portal's captcha: EstablishSession          *)
(* (session/session.go), EstablishTenderStatusSession                      *)
(* (session/pastTenders.go) and SolveDocCaptcha (docDownloads).  The three *)
(* flows have one shape.  A visit is answered by a page; the collector     *)
(* runs the OnResponse callback and then the OnHTML callback of that page, *)
(* on the caller's goroutine; the OnHTML callback may solve the captcha    *)
(* and post the form, and the answer to the post runs both callbacks       *)
(* again, inside the first call.  When all of it has unwound, the caller   *)
(* polls a flag until a timeout.                                           *)
(*                                                                         *)
(* The portal is external: it may answer any request with any page, set or *)
(* drop the session cookie, or fail.  Of a page the callbacks look at five *)
(* things, and nothing else of it is kept.                                 *)
(***************************************************************************)
EXTENDS Naturals

CONSTANT MaxCalls    \* how often a caller tries one session: 3 in
                     \* extract/concurrent.go, 1 elsewhere

ASSUME MaxCallsAssumption == MaxCalls \in Nat \ {0}

VARIABLES
    kind,           \* the flow of this session
    calls,          \* calls begun
    stage,             \* where the goroutine is
    method,         \* of the request in flight or just answered
    page,           \* the page the callbacks run on
    captchaSolved,
    established,    \* sessionEstablished, or docSessionEstablished
    cookies,        \* the jar holds a cookie of the portal
    result,         \* of the last call
    passed          \* history: the portal has shown what the flow looks for

captchaVars == <<kind, calls, stage, method, page, captchaSolved, established,
                cookies, result, passed>>

session == <<captchaSolved, established, passed>>

Kinds == {"Active", "Status", "Doc"}

\* form: the form the OnHTML callback is attached to; table: the results table;
\* image: an image the selectors find; asks: the body names the captcha's image
\* or field; wrong: it says incorrect, wrong or invalid.
Page == [form : BOOLEAN, table : BOOLEAN, image : BOOLEAN,
         asks : BOOLEAN, wrong : BOOLEAN]

NoPage == [form |-> FALSE, table |-> FALSE, image |-> FALSE,
           asks |-> FALSE, wrong |-> FALSE]

SessionInit ==
    /\ kind \in Kinds
    /\ calls = 0 /\ stage = "idle" /\ method = "GET" /\ page = NoPage
    /\ captchaSolved = FALSE /\ established = FALSE /\ cookies = FALSE
    /\ result = "none" /\ passed = FALSE

-----------------------------------------------------------------------------
(* A definition named X_Slip is a plausible mistake in X; no action uses   *)
(* it, it is there to show which property would notice.                    *)

\* The caller starts a flow, or tries again on the same session.
call ==
    /\ stage = "idle" /\ result # "ok"
    /\ calls < (IF kind = "Active" THEN MaxCalls ELSE 1)
    /\ calls' = calls + 1
    /\ stage' = "request" /\ method' = "GET"
    /\ UNCHANGED <<kind, page, cookies, result>> /\ UNCHANGED session

\* The portal answers, with any page.
answer ==
    /\ stage = "request"
    /\ page' \in Page
    /\ cookies' \in BOOLEAN
    /\ stage' = "response"
    /\ UNCHANGED <<kind, calls, method, result>> /\ UNCHANGED session

CallReturns(r) == stage' = "idle" /\ result' = r

\* The first visit failed: its error is the call's.
visitFails ==
    /\ stage = "request" /\ method = "GET"
    /\ CallReturns("error")
    /\ UNCHANGED <<kind, calls, method, page, cookies>> /\ UNCHANGED session

\* A post failed: that is logged, and the callbacks unwind.
postFails ==
    /\ stage = "request" /\ method = "POST"
    /\ stage' = "wait"
    /\ UNCHANGED <<kind, calls, method, page, cookies, result>> /\ UNCHANGED session

-----------------------------------------------------------------------------
(* OnResponse.                                                             *)

Clean == ~ page.wrong /\ ~ page.asks

\* handleCaptchaResponse: "assume success", unless captchaSolved is set.
assumeSuccess ==
    /\ method = "POST" /\ ~ captchaSolved /\ Clean

handleCaptchaResponse ==
    /\ stage = "response" /\ kind = "Active"
    /\ captchaSolved' = (captchaSolved \/ assumeSuccess)
    /\ established' = (established \/ assumeSuccess)
    /\ stage' = "html"
    /\ UNCHANGED <<kind, calls, method, page, cookies, result, passed>>

handleTenderStatusResponse ==
    /\ stage = "response" /\ kind = "Status"
    /\ stage' = IF method = "POST" /\ ~ page.wrong THEN "verify" ELSE "html"
    /\ UNCHANGED <<kind, calls, method, page, cookies, result>> /\ UNCHANGED session

\* verifyTenderStatusSession: a second visit, with a collector of its own.
verifySession ==
    /\ stage = "verify"
    /\ \E p \in Page :
         /\ cookies' \in BOOLEAN
         /\ established' = (established \/ (p.table /\ cookies'))
         /\ passed' = (passed \/ p.table)
    /\ stage' = "html"
    /\ UNCHANGED <<kind, calls, method, page, result, captchaSolved>>

verifyFails ==
    /\ stage = "verify"
    /\ stage' = "html"
    /\ UNCHANGED <<kind, calls, method, page, cookies, result>> /\ UNCHANGED session

HandleDocDownloadCaptchaResponse ==
    /\ stage = "response" /\ kind = "Doc"
    /\ established' = (established \/ (method = "POST" /\ Clean))
    /\ passed' = (passed \/ (method = "POST" /\ Clean))
    /\ stage' = "html"
    /\ UNCHANGED <<kind, calls, method, page, captchaSolved, cookies, result>>

-----------------------------------------------------------------------------
(* OnHTML.                                                                 *)

\* The callback is not called on a page without its form.
otherPage ==
    /\ stage = "html" /\ ~ page.form
    /\ stage' = "wait"
    /\ UNCHANGED <<kind, calls, method, page, cookies, result>> /\ UNCHANGED session

\* The results are there already: the session is ready.
tableFound ==
    /\ stage = "html" /\ page.form /\ page.table /\ kind # "Doc"
    /\ established' = TRUE /\ passed' = TRUE
    /\ stage' = "wait"
    /\ UNCHANGED <<kind, calls, method, page, captchaSolved, cookies, result>>

\* The document captcha is not solved twice.
alreadySolved ==
    /\ stage = "html" /\ page.form /\ kind = "Doc" /\ established
    /\ stage' = "wait"
    /\ UNCHANGED <<kind, calls, method, page, cookies, result>> /\ UNCHANGED session

MustSolve ==
    /\ stage = "html" /\ page.form
    /\ IF kind = "Doc" THEN ~ established ELSE ~ page.table

\* The active-tenders flow sets captchaSolved before it looks for the image.
MarkSolved_Never == captchaSolved

MarkSolved == captchaSolved \/ kind = "Active"

noImage ==
    /\ MustSolve /\ ~ page.image
    /\ captchaSolved' = MarkSolved
    /\ stage' = "wait"
    /\ UNCHANGED <<kind, calls, method, page, established, cookies, result, passed>>

\* Only the active-tenders flow ever set the flag, so clearing it is harmless.
solverFails ==
    /\ MustSolve /\ page.image
    /\ captchaSolved' = FALSE
    /\ stage' = "wait"
    /\ UNCHANGED <<kind, calls, method, page, established, cookies, result, passed>>

\* The form is posted from inside the callback.
submit ==
    /\ MustSolve /\ page.image
    /\ captchaSolved' = MarkSolved
    /\ stage' = "request" /\ method' = "POST"
    /\ UNCHANGED <<kind, calls, page, established, cookies, result, passed>>

-----------------------------------------------------------------------------
(* The poll of the flag, once the visit has returned.                      *)

ready ==
    /\ stage = "wait" /\ established
    /\ CallReturns(IF kind = "Doc" \/ cookies THEN "ok" ELSE "error")
    /\ UNCHANGED <<kind, calls, method, page, cookies>> /\ UNCHANGED session

timedOut_Waits ==
    /\ stage = "wait" /\ ~ established
    /\ UNCHANGED captchaVars

timedOut ==
    /\ stage = "wait" /\ ~ established
    /\ CallReturns("timeout")
    /\ UNCHANGED <<kind, calls, method, page, cookies>> /\ UNCHANGED session

SessionNext ==
    \/ call \/ answer \/ visitFails \/ postFails
    \/ handleCaptchaResponse \/ handleTenderStatusResponse
    \/ verifySession \/ verifyFails \/ HandleDocDownloadCaptchaResponse
    \/ otherPage \/ tableFound \/ alreadySolved
    \/ noImage \/ solverFails \/ submit
    \/ ready \/ timedOut

SessionSpec == SessionInit /\ [][SessionNext]_captchaVars

\* Every request ends (SetRequestTimeout, 40 s), the solver ends, the timer runs.
FairSessionSpec == SessionSpec /\ WF_captchaVars(SessionNext)

-----------------------------------------------------------------------------
\* The variables have their types, and only the active-tenders flow has a flag of
\* the captcha.
SessionTypeOK ==
    /\ kind \in Kinds /\ calls \in 0 .. MaxCalls
    /\ stage \in {"idle", "request", "response", "verify", "html", "wait"}
    /\ method \in {"GET", "POST"} /\ page \in Page
    /\ captchaSolved \in BOOLEAN /\ established \in BOOLEAN
    /\ cookies \in BOOLEAN /\ passed \in BOOLEAN
    /\ result \in {"none", "ok", "error", "timeout"}
    /\ captchaSolved => kind = "Active"
    /\ stage = "verify" => kind = "Status"

\* A session is established only when the portal has shown the results table (or,
\* for documents, has answered a post without an error or a captcha), on whatever
\* path of retries, failed solves and re-shown captchas.  The response handler of
\* the active-tenders flow would assume success of any other page; what stops it
\* is that captchaSolved is set before the form is posted.
EstablishedIsEarned == established => passed

\* What makes it hold: no answer to a post of the active-tenders flow is ever
\* looked at with captchaSolved clear.
SessionInv ==
    /\ SessionTypeOK
    /\ EstablishedIsEarned
    /\ (kind = "Active" /\ method = "POST" /\ stage \in {"request", "response"})
         => captchaSolved

\* The only way a call never returns is a portal that answers every post with the
\* captcha again: the callbacks then nest without a bound.
EndsUnlessAskedForever ==
    []<>(stage = "idle") \/ []<>(MustSolve /\ page.image)
=============================================================================
