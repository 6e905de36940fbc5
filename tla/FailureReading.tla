--------------------------- MODULE FailureReading ---------------------------
(***************************************************************************)
(* What one failed call is read as: transport._on_failure up to the moment *)
(* it calls Carousel.mark, with the two readers it asks (core/classify.py  *)
(* first, the table of core/carousel.py when that one declines), the rules *)
(* of core/provider_quirks.py that correct either, and is_terminal.        *)
(*                                                                         *)
(* A failure is what its payload says: a status, the machine-readable code *)
(* in its fields, the phrases of its text and the number it gives to wait. *)
(* A phrase is a member of Phrases; a table of patterns is the set of the  *)
(* phrases (and codes: a field's text is searched too) that it matches.    *)
(*                                                                         *)
(* Left out: the rows provider_rules.py keeps for single endpoints, class  *)
(* names other than a timeout's, quotaId fields, the words that widen a    *)
(* throttle to the account, and the weekly and hourly windows, which go    *)
(* the way of the monthly and the per-minute one.                          *)
(***************************************************************************)
EXTENDS KeyMemory, Sequences

CONSTANTS
    RejectedFor,  \* REJECTED_REST_S
    DeniedFor,    \* DENIED_REST_S
    OtherFor,     \* OTHER_S
    MinuteFor,    \* DEFAULT_PER_MINUTE_BENCH_SECONDS
    DayFor,       \* DEFAULT_PER_DAY_BENCH_SECONDS, the account's and month's too
    StandIn       \* a configured chain would take the model over

ASSUME FailureReadingAssumption ==
    /\ {RejectedFor, DeniedFor, OtherFor, MinuteFor, DayFor} \subseteq Nat
    /\ StandIn \in BOOLEAN
-----------------------------------------------------------------------------
(* The payload. *)

\* A failure that never became an answer has no status.
NoStatus == 0

\* What a code field says, one name for each family of the catalogue's rows;
\* "exhausted" is the throttle row RESOURCE_EXHAUSTED, "family" the drawer a
\* provider files bare 400s in, "relayed" an aggregator's envelope, "unready"
\* the model of Bedrock that is not ready.
Family == [throttle |-> "throttle", exhausted |-> "throttle", billing |-> "billing",
           denial |-> "denial", dead |-> "dead", server |-> "aside",
           timeout |-> "aside", success |-> "aside", fault |-> "fault",
           family |-> "family", content |-> "", relayed |-> "", unready |-> "", none |-> ""]

Codes == DOMAIN Family

\* How a number arrives: a Retry-After header both readers know, a sentence or
\* a dated reset only the sizing cascade of core/quota.py knows.
Waits == {"", "retry", "prose", "moment"}

Says(f) == f.words \cup {f.code}
Names(f, table) == Says(f) \cap table # {}
-----------------------------------------------------------------------------
(* The tables of core/classify.py. *)

PermanentAuth == {"invalid_key", "account_suspended", "dead"}
Billing       == {"broke", "pay", "billing"}
AmbiguousBilling == {"check_billing"}
Denial        == {"denied", "denied_by_name", "denial"}
Busy          == {"overloaded", "server"}
Boilerplate   == {"has_been_exhausted"}
Quota         == {"check_billing", "rate_limited", "has_been_exhausted", "spent_month",
                  "aws_throttle", "throttle", "exhausted"}

(* The tables of core/carousel.py. *)

\* Mutant of PermanentDenial: only the codes of a denial are known.
DenialCodesOnly == {"denial"}

InvalidKey        == {"invalid_key", "dead"}
CredentialProblem == {"bad_token"}
PermanentDenial   == {"denied", "denied_by_name", "denial"}
DenialExcluded    == {"denied_by_name", "model_missing"}
RateLimit         == {"check_billing", "rate_limited", "spent_day", "spent_month", "quota",
                      "aws_throttle", "minute", "throttle", "exhausted", "billing"}
StrictRateLimit   == RateLimit \ {"check_billing", "quota", "billing"}
Daily             == {"broke", "spent_day", "credit_limit", "billing"}
PaymentRequired   == {"pay"}
Timeout           == {"timed_out"}
RequestContentBlock == {"filtered", "content"}
ContentPolicy     == {"filtered", "safety", "content"}
HostBreaker       == {"breaker"}
ServerWords       == {"overloaded", "server"}

(* The markers of core/quota.py: the window a text names. *)

Window(f) == IF Names(f, {"broke", "billing"}) THEN "account"
             ELSE IF Names(f, {"spent_month"}) THEN "per_month"
             ELSE IF Names(f, {"spent_day"})   THEN "per_day"
             ELSE IF Names(f, {"minute"})      THEN "per_minute"
             ELSE "unknown"

LongWindows == {"account", "per_month", "per_day"}
-----------------------------------------------------------------------------
(* The sizing cascade, core/quota.py. *)

\* What extract_delay can read: the header, not the sentence or the date.
Extracted(f) == IF f.wait = "retry" THEN f.seconds ELSE 0

\* compute_reset_at: a dated reset, or a number long enough for the window, is
\* the provider's; a short hint on a long window is set aside for the window's
\* own default.  A size of 0 is no decision.
Decision(f) ==
    LET w == Window(f)
    IN  IF f.wait # "" /\ (w \notin LongWindows \/ f.wait = "moment" \/ f.seconds >= DayFor)
        THEN [size |-> f.seconds, theirs |-> TRUE, calendar |-> f.wait = "moment"]
        ELSE [size |-> IF w \in LongWindows THEN DayFor
                       ELSE IF w = "per_minute" THEN MinuteFor ELSE 0,
              theirs |-> FALSE, calendar |-> FALSE]

\* The ambiguous sentence is a throttle when the payload names a wait or a
\* counter.
NamesAWait(f) == f.wait # "" \/ Window(f) \notin {"unknown", "account"}
-----------------------------------------------------------------------------
(* The evidence-first reader, core/classify.py. *)

Verdict(reason, size, theirs, calendar, window, account) ==
    [reason |-> reason, size |-> size, theirs |-> theirs, calendar |-> calendar,
     window |-> window, account |-> account]

Declined == Verdict("none", 0, FALSE, FALSE, "", FALSE)
DeadKey  == Verdict("dead", 0, FALSE, FALSE, "unknown", FALSE)
Denied   == Verdict("denied", DeniedFor, FALSE, FALSE, "unknown", FALSE)
Unpaid   == Verdict("billing", DayFor, FALSE, FALSE, "account", TRUE)
Unsized  == Verdict("throttle", 0, FALSE, FALSE, "unknown", FALSE)

\* The catalogue: the code's row, else a 402 that names no wait, else the
\* bare sentence of RESOURCE_EXHAUSTED.
Catalogued(f) ==
    IF Family[f.code] # "" THEN Family[f.code]
    ELSE IF f.status = 402 /\ f.wait = "" THEN "billing"
    ELSE IF Names(f, Boilerplate) THEN "throttle"
    ELSE ""

\* The text says busy and the code says throttle.
Contradicted(f) == Names(f, Busy) /\ f.code \in {"throttle", "exhausted"}

\* A throttle, sized by the cascade or, when a field or a contradiction says
\* it is one, not sized at all; a spent account or month is unpaid.
Sized(f, certain) ==
    LET d == Decision(f)
        w == Window(f)
    IN  IF d.size = 0 THEN (IF Contradicted(f) \/ certain THEN Unsized ELSE Declined)
        ELSE IF w = "account" \/ (w = "per_month" /\ ~d.theirs)
        THEN Verdict("billing", d.size, d.theirs, FALSE, w, w = "account")
        ELSE Verdict("throttle", d.size, d.theirs, d.calendar, w, FALSE)

\* classify: the field first, then the sentence.  A code of the drawer for bare
\* 400s shuts out the sentences that condemn a key, and counts as a throttle's.
Classified(f) ==
    LET family  == Catalogued(f)
        drawer  == family = "family"
        certain == family \in {"throttle", "family"}
    IN  CASE family \in {"aside", "fault"} -> Declined
          [] family = "dead"    -> DeadKey
          [] family = "billing" -> Unpaid
          [] family = "denial"  -> Denied
          [] OTHER ->
             IF ~drawer /\ Names(f, PermanentAuth) THEN DeadKey
             ELSE IF \/ Names(f, Billing)
                     \/ Names(f, AmbiguousBilling) /\ ~certain /\ ~NamesAWait(f) THEN Unpaid
             ELSE IF ~drawer /\ Names(f, Denial) THEN Denied
             ELSE IF \/ f.status \in {400, 401, 403, 500, 503}
                     \/ Names(f, Busy) /\ ~Contradicted(f)
                     \/ f.status # 429 /\ ~Names(f, Quota) THEN Declined
             ELSE Sized(f, certain)
-----------------------------------------------------------------------------
(* The table it falls back to, core/carousel.py. *)

NamesAThrottle(f) == Names(f, RateLimit)

IsAuthFailure(f) ==
    \/ Names(f, InvalidKey \cup CredentialProblem)
    \/ f.status = 401
    \/ f.status = 403 /\ ~NamesAThrottle(f)

\* Mutant of IsTerminal: the status is read before the throttle's words.
IsTerminalByStatus(f) ==
    \/ Names(f, HostBreaker \cup RequestContentBlock)
    \/ /\ ~IsAuthFailure(f) /\ ~Names(f, Timeout) /\ f.status \notin {500, 503}
       /\ \/ Names(f, ContentPolicy)
          \/ f.status \in {400, 404}

\* No key could answer this request.
IsTerminal(f) ==
    \/ Names(f, HostBreaker \cup RequestContentBlock)
    \/ /\ ~IsAuthFailure(f) /\ ~Names(f, Timeout) /\ f.status \notin {500, 503}
       /\ f.status # 429
       /\ ~Names(f, IF f.status \in {400, 404} THEN StrictRateLimit ELSE RateLimit)
       /\ Names(f, ContentPolicy) \/ f.status \in {400, 404}

Judged(kind, delay) == [kind |-> kind, delay |-> delay]

StatedOr(f, ours) == IF Extracted(f) > 0 THEN Extracted(f) ELSE ours

\* A denial is of this key for this model, unless the text names the missing
\* model or the exception's class too.
RefusesThePairing(f) == Names(f, PermanentDenial) /\ ~Names(f, DenialExcluded)

\* classify of core/carousel.py: the order of its branches is the rule.
Tabled(f) ==
    IF Names(f, HostBreaker) THEN Judged("host_breaker", 0)
    ELSE IF Names(f, Timeout \cup {"timeout_class"}) \/ f.status = 408
         THEN Judged("timeout", 0)
    ELSE IF f.status \in {500, 503} \/ Names(f, ServerWords)
         THEN Judged("server", StatedOr(f, ServerBase))
    ELSE IF Names(f, InvalidKey) THEN Judged("revoked", RejectedFor)
    ELSE IF RefusesThePairing(f) THEN Judged("denied", StatedOr(f, DeniedFor))
    ELSE IF IsAuthFailure(f) THEN Judged("auth", StatedOr(f, RejectedFor))
    ELSE IF f.status = 402 \/ Names(f, PaymentRequired)
         THEN Judged("insufficient_quota", DailyCooldown)
    ELSE IF f.status # 429 /\ ~NamesAThrottle(f) THEN Judged("other", OtherFor)
    ELSE IF Names(f, Daily)
         THEN Judged(IF Names(f, {"billing"}) THEN "insufficient_quota" ELSE "daily",
                     DailyCooldown)
    ELSE Judged("per_minute", StatedOr(f, OtherFor))
-----------------------------------------------------------------------------
(* The corrections, core/provider_quirks.py: the first rule that applies.  *)

Rule(says, on, from, as) == [says |-> says, on |-> on, from |-> from, as |-> as]

Wide == {NoStatus, 400, 401, 402, 403, 404, 408, 412, 413, 422, 429, 500, 503}
Every == Kinds \cup {"host_breaker"}
Server5 == {500, 503}

QuirkRules ==
  << Rule({"aws_key"}, Wide, Every, "auth"),
     Rule({"aws_throttle"}, Wide, Every \ NamedWindow, "per_minute"),
     Rule({"aws_denied"}, Wide, Every, "denied"),
     Rule({"aws_model_fault"}, Wide, Every, "server"),
     Rule({"money"}, {NoStatus, 401, 402, 403, 412, 429}, Every, "billing"),
     Rule({"request_refused"}, {400, 401, 403}, Every, "request_fault"),
     Rule({"overflow"}, {NoStatus, 400, 413, 422, 500}, Every, "request_fault"),
     Rule({"entitlement"}, {400, 401, 403, 404}, Every, "denied"),
     Rule({"loading"}, {429}, Every, "server"),
     Rule({"credit_limit"}, {402, 403, 412, 429}, Every, "billing"),
     Rule({"content_refused"}, {400, 403}, Every, "request_fault"),
     Rule({"not_free"}, {429}, Every, "denied"),
     Rule({"missing_auth"}, {NoStatus, 400, 401}, {"other", "auth"}, "auth"),
     Rule({"no_balance"}, {402, 403, 412}, Every, "billing"),
     Rule({"minute"}, {429}, {"insufficient_quota"}, "per_minute"),
     Rule({"bad_request_code"}, Server5, Every, "request_fault"),
     Rule({"upgrade"}, {401, 403}, {"auth", "server", "other"}, "denied"),
     Rule({}, {403}, {"auth", "server"}, "denied"),
     Rule({"not_for_account"}, {404}, Every, "denied"),
     Rule({"free_model"}, {429}, {"per_minute"}, "denied"),
     Rule({"queue"}, {429}, {"per_minute"}, "server") >>

\* A 403 is a refusal of the caller unless it names the key or the request.
NamesTheKey(f)     == Names(f, InvalidKey \cup CredentialProblem)
NamesTheRequest(f) == Names(f, RequestContentBlock \cup ContentPolicy)

\* A rule of no phrase is that of the bare 403.  "per day" keeps a throttle of
\* AWS a spent day.
Applies(rule, f, kind) ==
    /\ f.status \in rule.on /\ kind \in rule.from
    /\ IF rule.says = {} THEN ~NamesTheKey(f) /\ ~NamesTheRequest(f)
                         ELSE Names(f, rule.says)
    /\ "aws_throttle" \in rule.says => "spent_day" \notin f.words

Reinterpreted(f, kind) ==
    LET apply == {i \in DOMAIN QuirkRules : Applies(QuirkRules[i], f, kind)}
    IN  IF kind = "revoked" \/ apply = {} THEN ""
        ELSE QuirkRules[CHOOSE i \in apply : \A j \in apply : i <= j].as

\* The model behind every key is away: names_maintenance.
NamesMaintenance(f) ==
    \/ f.status \in {NoStatus, 404, 500, 503} /\ Names(f, {"no_model_loaded"})
    \/ f.status = 503 /\ Names(f, {"closed"})
    \/ f.status \in {400, 503} /\ Names(f, {"no_worker", "unready"})

\* Mutant of NotReady: a wait it states is not looked at.
NotReadyWhatever(f, v) == f.status = 429 /\ f.code = "unready"

\* A 429 of Bedrock for a model that is not ready, when nothing sized it.
NotReady(f, v) == v = Declined /\ f.status = 429 /\ f.code = "unready"
-----------------------------------------------------------------------------
(* The whole reading: transport._on_failure. *)

\* What _on_failure makes of a verdict it was given.
FromVerdict(f, v) ==
    CASE v.reason = "billing" -> Judged("insufficient_quota", DailyCooldown)
      [] v.reason = "dead"    -> Judged("revoked", RejectedFor)
      [] v.reason = "denied"  -> Judged("denied", DeniedFor)
      [] v.reason = "throttle" /\ v.window = "per_day" ->
            Judged("daily", IF v.theirs THEN v.size ELSE Extracted(f))
      [] OTHER -> Judged("rate_limit", v.size)

\* Mutant of Outranked: a rule of words overrides the number it came with.
NeverOutranked(f, quirk) == quirk

\* On a 429 a number the provider stated outranks what a rule would invent.
Outranked(f, quirk) ==
    IF quirk \in {"billing", "per_minute", "server"} /\ f.status = 429 /\ Extracted(f) > 0
    THEN "" ELSE quirk

Corrected(f, read, quirk) ==
    CASE quirk = "denied"     -> Judged("denied", DeniedFor)
      [] quirk = "auth"       -> Judged("auth", RejectedFor)
      [] quirk = "billing"    -> Judged("insufficient_quota", DailyCooldown)
      [] quirk = "per_minute" -> Judged("per_minute", UnsizedRest)
      [] quirk = "server"     -> Judged("server", StatedOr(f, ServerBase))
      [] OTHER                -> read

\* The overload with no number the doubling ladder is for.
BareExhausted(f, stated) ==
    ~stated /\ f.status = 429 /\ f.code = "exhausted" /\ f.wait # "retry"

\* What mark() is handed.
Handed(f, v, rest) ==
    LET calendar == v.calendar /\ rest.delay > 0
        stated   == Extracted(f) > 0 \/ (v.size > 0 /\ v.theirs)
        guessed  == /\ rest.kind \in Throttles /\ ~stated /\ ~calendar
                    /\ v.window \in {"", "unknown"}
    IN  [kind |-> rest.kind, delay |-> IF guessed THEN 0 ELSE rest.delay,
         stated |-> stated \/ calendar, calendar |-> calendar,
         account |-> v.account,
         bare |-> ~calendar /\ BareExhausted(f, stated)]

\* The turn ends with this failure and no key is marked for it.
Ends(why) == [ends |-> TRUE, why |-> why]

Marks(refusal) == [ends |-> FALSE, refusal |-> refusal]

Read(f) ==
    LET v     == Classified(f)
        first == IF v = Declined THEN Tabled(f) ELSE FromVerdict(f, v)
        quirk == Outranked(f, Reinterpreted(f, first.kind))
        rest  == Corrected(f, first, quirk)
    IN  IF f.code = "content" THEN Ends("content_filter")
        ELSE IF f.code = "fault" THEN Ends("other")
        ELSE IF f.code = "relayed" THEN Ends("upstream_error")
        ELSE IF NotReady(f, v) \/ (NamesMaintenance(f) /\ ~StandIn)
             THEN Ends("model_not_ready")
        ELSE IF quirk = "request_fault" THEN Ends("other")
        ELSE IF rest.kind = "host_breaker" THEN Ends("host_breaker")
        ELSE IF /\ IsTerminal(f) /\ quirk # "denied"
                /\ ~(v # Declined /\ rest.kind = "insufficient_quota") THEN Ends(rest.kind)
        ELSE Marks(Handed(f, v, rest))
=============================================================================
