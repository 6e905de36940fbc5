---------------------------- MODULE MCReadPool ----------------------------
(* The pool of MCCarousel, refused in the ways FailureReading reads, and   *)
(* what must be true of that reading for every payload of a bounded set.   *)
EXTENDS MCCarousel, FailureReading

Payload(status, code, words, wait, seconds) ==
    [status |-> status, code |-> code, words |-> words, wait |-> wait, seconds |-> seconds]

\* The failures the pool is refused with: a spent day, a throttle without and
\* with its end, an outage, a dead key.
PoolFailures ==
    { Payload(403, "none", {"spent_day"}, "", 0),
      Payload(429, "none", {"rate_limited"}, "", 0),
      Payload(429, "none", {"rate_limited"}, "retry", 2),
      Payload(503, "none", {"overloaded"}, "", 0),
      Payload(400, "none", {"invalid_key"}, "", 0) }

PoolRefusals == {Read(f).refusal : f \in PoolFailures}
-----------------------------------------------------------------------------
(* The payloads the reading is checked on: every status the readers tell   *)
(* apart, every code, every text of at most two phrases, every kind of     *)
(* wait, one shorter and one longer than the window's own default.         *)

Statuses == {NoStatus, 400, 401, 402, 403, 404, 408, 429, 500, 503}

Phrases ==
    {"invalid_key", "account_suspended", "bad_token", "missing_auth", "aws_key",
     "denied", "denied_by_name", "model_missing", "aws_denied", "entitlement", "upgrade",
     "not_for_account",
     "not_free", "free_model", "broke", "pay", "money", "check_billing",
     "no_balance", "credit_limit", "rate_limited", "has_been_exhausted", "quota",
     "aws_throttle", "minute", "spent_day", "spent_month", "overloaded", "loading",
     "queue", "timed_out", "timeout_class", "breaker", "filtered", "safety",
     "content_refused", "request_refused", "bad_request_code", "overflow",
     "aws_model_fault", "no_model_loaded", "closed", "no_worker"}

Texts == {{}} \cup {{a, b} : a, b \in Phrases}

NoNumber == {<<"", 0>>}
Numbers  == (Waits \ {""}) \X {2, 5}

Payloads(statuses, codes, texts, numbers) ==
    {Payload(s, c, t, n[1], n[2]) : s \in statuses, c \in codes, t \in texts, n \in numbers}

\* What says that this key may not use this model; what condemns the key, with
\* the words the table takes a denial back for.
PairingWords == {"denied", "upgrade", "entitlement"}
KeyWords     == {"invalid_key", "account_suspended", "bad_token", "missing_auth", "aws_key"}
                    \cup DenialExcluded

\* The fields and sentences that make of a 429 something else.
OtherCodes == {"content", "fault", "relayed"}
OtherWords == {"filtered", "breaker"}

\* The throttles: the turns they end, and what each that asks for time is read as.
ThrottlePayloads ==
    Payloads({429}, Codes \ OtherCodes, {t \in Texts : t \cap OtherWords = {}},
             NoNumber \cup Numbers)

\* The model is not ready, and the evidence sizes no rest.
UnsizedNotReady(f) == f.code = "unready" /\ Classified(f) = Declined

ThrottlesThatEnd == {f \in ThrottlePayloads : Read(f).ends /\ ~UnsizedNotReady(f)}

AskedFor ==
    {a \in {[seconds |-> Extracted(f), refusal |-> Read(f).refusal] :
               f \in {g \in ThrottlePayloads : Extracted(g) > 0 /\ ~Read(g).ends}} :
        a.refusal.kind \in Throttles \cup {"server"}}

\* The kinds given to a failure that speaks of the pairing alone.
PairingKinds ==
    {r.refusal.kind :
        r \in {q \in {Read(f) : f \in Payloads(Statuses, Codes \ {"dead"},
                                               {t \in Texts : /\ t \cap PairingWords # {}
                                                              /\ t \cap KeyWords = {}},
                                               NoNumber \cup Numbers)} : ~q.ends}}

\* The rest MarkRefused would give this key now, the pool taken to answer, which
\* can only make it shorter.
RestNow(m, k, refusal) ==
    LET learned == Taught(ceiling[m][k], refusal)
        f       == Renamed(refusal, named[m][k])
        counted == Counted(Blamed(State(m, k), refusal), f, learned)
    IN  Rest(counted, f, learned, TRUE, max_hold)

\* A 429 that carries no content refusal, no fault, no relayed envelope and no
\* breaker's sentence ends the turn only for a model that is not ready, and then
\* only when nothing in it sizes a rest, whichever two phrases it mixes; and
\* whatever this key's history, a 429 read as a throttle or an outage rests it
\* for the Retry-After it came with (is_terminal's "a 429 is never terminal", the
\* quirks' "outranks", _on_failure's "model_not_ready").
ThrottleHonoured ==
    /\ ThrottlesThatEnd = {}
    /\ \A a \in AskedFor, m \in Models, k \in Keys :
           RestNow(m, k, a.refusal) >= Earlier(a.seconds, Earlier(HardCap, max_hold))

\* A failure that says this key may not use this model, and nothing against the
\* key or of a missing model, never moves a key towards retirement, whatever
\* status, code and second phrase it carries and however many refusals the key
\* has had.  With "model not found" beside it a denial does: carousel.py:594-598.
PairingSparesTheKey ==
    \A kind \in PairingKinds, m \in Models, k \in Keys :
        LET s == Blamed(State(m, k), [kind |-> kind])
        IN  /\ s.retired = State(m, k).retired
            /\ s.consecutive_refusals <= State(m, k).consecutive_refusals
=============================================================================
