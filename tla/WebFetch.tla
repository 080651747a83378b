------------------------------- MODULE WebFetch -------------------------------
(***************************************************************************)
(* web_fetch (src/tools/web-fetch.ts): one call, its redirects, the        *)
(* attempts on each address with a timer of their own, the waits between   *)
(* them, and the body, cut to a number of bytes.  The server (external)    *)
(* may answer anything, late or never; the run may be aborted at any       *)
(* moment.  An address is told by what the checks tell apart.              *)
(***************************************************************************)
EXTENDS Integers, Sequences, SequencesExt, FiniteSets

CONSTANTS
  MaxRetries,    \* retries of one address
  MaxRedirects,  \* redirects that are followed
  MaxBytes,      \* the bytes of a body that are kept
  MaxChars       \* bound: characters of a body

ASSUME FetchAssumption == {MaxRetries, MaxRedirects, MaxBytes, MaxChars} \subseteq Nat

\* "same" has the origin of the url asked for, "relative" is a path without "/",
\* "refused" is no HTTP(S) address, has credentials or a host that is blocked.
Addresses == {"same", "other", "relative", "refused"}
Replies   == {"ok", "retryable", "failed", "binary", "redirect"}
NoReply   == "none"

VARIABLES
  fetchStage,  \* "blank", "attempt", "waiting", "answered", "body", "returned", "thrown"
  address,     \* currentUrl
  hop,         \* redirects followed
  attempt,     \* attempts on this address
  attempts,    \* totalAttempts
  answer,      \* the response of the last attempt
  flight,      \* the request under way: its timer, its listener
  stopped,     \* the run's signal
  sent,        \* history: requests sent
  content      \* the body: widths of its characters, and what is kept of them

fetchVars ==
  <<fetchStage, address, hop, attempt, attempts, answer, flight, stopped, sent, content>>

Idle    == [timer |-> FALSE, listener |-> FALSE]
Flying  == [timer |-> TRUE, listener |-> TRUE]
Nothing == [text |-> <<>>, kept |-> <<>>, truncated |-> FALSE, bytesRead |-> 0]

FetchInit ==
  /\ fetchStage = "blank"
  /\ address = "same"
  /\ hop = 0 /\ attempt = 0 /\ attempts = 0
  /\ answer = NoReply
  /\ flight = Idle
  /\ stopped = FALSE
  /\ sent = 0
  /\ content = Nothing

\* A character is one byte wide, or three.
Bytes(text) == Len(text) + 2 * Cardinality({i \in DOMAIN text : text[i] = 3})

\* truncateUtf8: whole characters only.
Cut(text) ==
  LET fits == {n \in 0 .. Len(text) : Bytes(SubSeq(text, 1, n)) <= MaxBytes}
  IN SubSeq(text, 1, CHOOSE n \in fits : \A k \in fits : k <= n)

-------------------------------------------------------------------------------

Throw ==
  /\ fetchStage' = "thrown"
  /\ flight' = Idle
  /\ UNCHANGED <<address, hop, attempt, attempts, answer, stopped, sent, content>>

\* fetchOnceWithTimeout: a controller, a timer, a listener, and the request.
Send ==
  /\ fetchStage' = "attempt"
  /\ flight' = Flying
  /\ sent' = sent + 1

\* execute: throwIfAborted, parseHttpUrl, validateMaxBytes.
CallFetch ==
  /\ fetchStage = "blank"
  /\ \E a \in {"same", "refused"} :
       IF stopped \/ a = "refused" THEN Throw
       ELSE /\ Send
            /\ attempt' = 1
            /\ UNCHANGED <<address, hop, attempts, answer, stopped, content>>

\* isRetryableStatus, isRetryableFetchError and the last attempt.
Retryable(kind) == attempt <= MaxRetries /\ ~(kind = "error" /\ stopped)

\* delayWithAbort, entered with the signal aborted or not.
WaitAndRetry ==
  /\ fetchStage' = IF stopped THEN "thrown" ELSE "waiting"
  /\ flight' = Idle
  /\ UNCHANGED <<address, hop, attempt, attempts, answer, stopped, sent, content>>

Take(reply) ==
  /\ fetchStage' = "answered" /\ flight' = Idle /\ answer' = reply
  /\ attempts' = attempts + attempt

\* A response arrives.
Respond ==
  /\ fetchStage = "attempt"
  /\ \E reply \in Replies :
       IF reply = "retryable" /\ Retryable("status") THEN WaitAndRetry
       ELSE /\ Take(reply)
            /\ UNCHANGED <<address, hop, attempt, stopped, sent, content>>

\* The request fails, of itself or because the controller was aborted.
FailAttempt ==
  /\ fetchStage = "attempt"
  /\ IF Retryable("error") THEN WaitAndRetry ELSE Throw

\* The request's own timer wins the race.
TimeOutAttempt ==
  /\ fetchStage = "attempt" /\ flight.timer
  /\ IF Retryable("error") THEN WaitAndRetry ELSE Throw

\* The delay is over.
Retry ==
  /\ fetchStage = "waiting"
  /\ IF stopped THEN Throw
     ELSE /\ Send /\ attempt' = attempt + 1
          /\ UNCHANGED <<address, hop, attempts, answer, stopped, content>>

\* The location of a redirect: an absolute address or a path, of the same origin.
Allowed(a) == a = "same"

\* The loop over redirects.
FollowRedirect ==
  /\ fetchStage = "answered" /\ answer = "redirect"
  /\ \E a \in Addresses :
       IF stopped \/ ~Allowed(a) \/ hop = MaxRedirects THEN Throw
       ELSE /\ address' = a
            /\ hop' = hop + 1 /\ attempt' = 1
            /\ Send
            /\ UNCHANGED <<attempts, answer, stopped, content>>

\* The final response: its status and its content type.
CheckResponse ==
  /\ fetchStage = "answered" /\ answer # "redirect"
  /\ IF stopped \/ answer # "ok" THEN Throw
     ELSE /\ fetchStage' = "body"
          /\ UNCHANGED <<address, hop, attempt, attempts, answer, flight, stopped, sent, content>>

\* response.text(): no timer of the call bounds it.
ReadBody ==
  /\ fetchStage = "body"
  /\ \E text \in BoundedSeq({1, 3}, MaxChars) :
       /\ fetchStage' = IF stopped THEN "thrown" ELSE "returned"
       /\ content' = IF stopped THEN Nothing
                     ELSE [text |-> text, kept |-> Cut(text),
                           truncated |-> Bytes(text) > MaxBytes,
                           bytesRead |-> IF Bytes(text) > MaxBytes THEN MaxBytes ELSE Bytes(text)]
  /\ UNCHANGED <<address, hop, attempt, attempts, answer, flight, stopped, sent>>

FailBody == fetchStage = "body" /\ Throw

\* The run is aborted: a delay is cut short, a request is cancelled through its
\* controller and fails later.
AbortFetch ==
  /\ ~stopped /\ fetchStage \notin {"returned", "thrown"}
  /\ stopped' = TRUE
  /\ fetchStage' = IF fetchStage = "waiting" THEN "thrown" ELSE fetchStage
  /\ UNCHANGED <<address, hop, attempt, attempts, answer, flight, sent, content>>

FetchNext ==
  \/ CallFetch \/ Respond \/ FailAttempt \/ TimeOutAttempt \/ Retry
  \/ FollowRedirect \/ CheckResponse \/ ReadBody \/ FailBody \/ AbortFetch

FetchSpec == FetchInit /\ [][FetchNext]_fetchVars

\* Timers fire and the call's own code runs on; nothing is assumed of the server.
FetchFairness == WF_fetchVars(TimeOutAttempt \/ Retry \/ FollowRedirect \/ CheckResponse)

-------------------------------------------------------------------------------
(* Properties.                                                             *)

\* The kinds of values.
FetchTypeOK ==
  /\ fetchStage \in {"blank", "attempt", "waiting", "answered", "body", "returned", "thrown"}
  /\ address \in Addresses
  /\ hop \in 0 .. MaxRedirects
  /\ attempt \in 0 .. MaxRetries + 1
  /\ answer \in Replies \cup {NoReply}
  /\ flight \in {Idle, Flying}

(* However the redirects and the retries mix, only addresses of the origin *)
(* that was asked for are requested, and no more of them than the retries  *)
(* of every redirect allow.                                                *)
StaysAndStops ==
  /\ sent > 0 => address = "same"
  /\ sent <= (MaxRedirects + 1) * (MaxRetries + 1)

(* What a call reports is what it did: "attempts" counts every request it  *)
(* sent, over all redirects, and what it kept of a body is the most whole  *)
(* characters that fit.                                                    *)
ReportsWhatItDid ==
  fetchStage = "returned" =>
    /\ attempts = sent
    /\ content.truncated <=> content.kept # content.text
    /\ Bytes(content.kept) <= content.bytesRead
    /\ content.truncated => Bytes(content.kept) + content.text[Len(content.kept) + 1] > MaxBytes

(* A request that is not under way holds no timer and no listener on the   *)
(* run's signal.                                                           *)
NoTimerLeft == fetchStage # "attempt" => flight = Idle

(* Once the run is aborted no further request is sent: not by a retry, not *)
(* behind a delay, not by a redirect.                                      *)
QuietOnceAborted == [][stopped => sent' = sent]_fetchVars

(* A fetch (src/tools/web-fetch.ts) asks only whom it was told to ask, and *)
(* says what it did.                                                       *)
FetchAccounted == FetchTypeOK /\ StaysAndStops /\ ReportsWhatItDid /\ NoTimerLeft

===============================================================================
