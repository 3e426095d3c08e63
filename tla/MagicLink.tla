----------------------------- MODULE MagicLink -----------------------------
(***************************************************************************)
(* Login by magic link: auth.TokenStore and auth.SessionStore in Redis and *)
(* the handlers of internal/http that use them.  One action is one Redis   *)
(* command (the consume script counts as one); commands of concurrent      *)
(* requests interleave, and a key is gone once its time to live has run    *)
(* out.  A request issues at most one token, so the token is named after   *)
(* the request, and a session after the callback that created it.          *)
(***************************************************************************)
EXTENDS Naturals, FiniteSets

CONSTANTS
    Emails,           \* addresses
    Allowed,          \* those isAllowed accepts
    Requests,         \* POST /v1/auth/magic-link and /test-token requests
    Callbacks,        \* GET /v1/auth/callback requests
    RateLimitPerDay,  \* TokenStore.rateLimitPerDay, 0 for no limit
    RateLimitWindow,  \* rateLimitWindow, in ticks
    TokenTTL,         \* tokenTTL, in ticks
    SessionTTL,       \* auth.SessionTTL, in ticks
    E2ETestMode,      \* E2E_TEST_MODE: is /test-token registered?
    MaxTime,          \* bound on the clock
    MaxFaults,        \* bound on failed Redis calls
    None

ASSUME AuthConstantsOK ==
    /\ Allowed \subseteq Emails /\ IsFiniteSet(Requests)
    /\ RateLimitPerDay \in Nat /\ MaxTime \in Nat /\ MaxFaults \in Nat
    /\ RateLimitWindow \in Nat \ {0} /\ TokenTTL \in Nat \ {0} /\ SessionTTL \in Nat \ {0}
    /\ E2ETestMode \in BOOLEAN
    /\ None \notin Emails /\ None \notin Requests

VARIABLES
    now,       \* the clock
    rate,      \* authrate:<email>: count, when the key expires, and (history)
               \* since when it exists
    token,     \* authtoken:<hash>: email, and when it expires
    session,   \* session:<id>: email, and when it expires
    link,      \* the magic-link requests; (history) whether they came by the
               \* test endpoint, when they were counted, on a key of when
    callback,  \* the callbacks
    mailed,    \* tokens somebody holds: sent by mail, or returned by /test-token
    issued,    \* history: the requests whose token was stored
    faults

vars == <<now, rate, token, session, link, callback, mailed, issued, faults>>

Never == MaxTime + RateLimitWindow + TokenTTL + SessionTTL + 1  \* no time to live set

NoEntry  == [email |-> None, expires |-> 0]
LinkPC   == {"idle", "incr", "expire", "store", "send", "sent", "limited", "error"}
CallPC   == {"idle", "consume", "create", "in", "out", "unauthorized", "error"}

Live(entry) == entry.email # None /\ now < entry.expires

Init ==
    /\ now = 0
    /\ rate = [e \in Emails |-> [count |-> 0, expires |-> Never, since |-> 0]]
    /\ token = [r \in Requests |-> NoEntry]
    /\ session = [c \in Callbacks |-> NoEntry]
    /\ link = [r \in Requests |-> [pc |-> "idle", email |-> None, test |-> FALSE,
                             since |-> 0, at |-> 0]]
    /\ callback = [c \in Callbacks |-> [pc |-> "idle", token |-> None, email |-> None]]
    /\ mailed = {}
    /\ issued = {}
    /\ faults = 0

\* A Redis command returns r: "ok", "failed" without effect, or "lost" after it.
CallResults == {"ok", "failed", "lost"}
Call(r) == \/ r = "ok" /\ UNCHANGED faults
           \/ r # "ok" /\ faults < MaxFaults /\ faults' = faults + 1

LinkAt(r, pc) == link[r].pc = pc
LinkGoto(r, pc) == link' = [link EXCEPT ![r].pc = pc]
Begin(r, e, pc, test) ==
    link' = [link EXCEPT ![r].pc = pc, ![r].email = e, ![r].test = test]

-----------------------------------------------------------------------------
(* RequestMagicLink, IssueTestToken and TokenStore.Issue *)

\* Mutant: the allowlist is not consulted.
RequestMagicLink_NoAllowlist(r) ==
    /\ LinkAt(r, "idle")
    /\ \E e \in Emails : Begin(r, e, "incr", FALSE)
    /\ UNCHANGED <<now, rate, token, session, callback, mailed, issued, faults>>

\* An address that is not allowed gets the same answer and nothing else.
RequestMagicLink(r) ==
    /\ LinkAt(r, "idle")
    /\ \E e \in Emails :
        Begin(r, e, IF e \in Allowed THEN "incr" ELSE "sent", FALSE)
    /\ UNCHANGED <<now, rate, token, session, callback, mailed, issued, faults>>

\* No allowlist; the token is returned instead of mailed.
IssueTestToken(r) ==
    /\ E2ETestMode
    /\ LinkAt(r, "idle")
    /\ \E e \in Emails : Begin(r, e, "incr", TRUE)
    /\ UNCHANGED <<now, rate, token, session, callback, mailed, issued, faults>>

\* Mutant: SET of the next count, which takes the time to live off the key.
Bumped_Set(key) == IF key.count > 0 /\ now < key.expires
                   THEN [key EXCEPT !.count = @ + 1, !.expires = Never]
                   ELSE [count |-> 1, expires |-> Never, since |-> now]

\* INCR on the key: it counts on, or it is created without a time to live.
Bumped(key) == IF key.count > 0 /\ now < key.expires
               THEN [key EXCEPT !.count = @ + 1]
               ELSE [count |-> 1, expires |-> Never, since |-> now]

\* Mutant: the limit is compared with the count before this request.
OverLimit_Before(count) == RateLimitPerDay > 0 /\ count - 1 > RateLimitPerDay

OverLimit(count) == RateLimitPerDay > 0 /\ count > RateLimitPerDay

\* The request that created the key sets its time to live.
NextAfterIncr(count) ==
    IF count = 1 THEN "expire" ELSE IF OverLimit(count) THEN "limited" ELSE "store"

Incr(r) ==
    LET key == Bumped(rate[link[r].email]) IN
    /\ LinkAt(r, "incr")
    /\ \E res \in CallResults :
        /\ Call(res)
        /\ rate' = IF res = "failed" THEN rate ELSE [rate EXCEPT ![link[r].email] = key]
        /\ link' = [link EXCEPT
              ![r].pc = IF res = "ok" THEN NextAfterIncr(key.count) ELSE "error",
              ![r].since = key.since, ![r].at = now]
    /\ UNCHANGED <<now, token, session, callback, mailed, issued>>

\* EXPIRE on the key this request created, if it is still there.
Expire(r) ==
    /\ LinkAt(r, "expire")
    /\ \E res \in CallResults :
        /\ Call(res)
        /\ rate' = IF res = "failed" THEN rate
                   ELSE [rate EXCEPT ![link[r].email].expires = now + RateLimitWindow]
        /\ LinkGoto(r, IF res # "ok" THEN "error"
                       ELSE IF OverLimit(1) THEN "limited" ELSE "store")
    /\ UNCHANGED <<now, token, session, callback, mailed, issued>>

\* Mutant: SET without a time to live.
NewToken_ForEver(r) == [email |-> link[r].email, expires |-> Never]

NewToken(r) == [email |-> link[r].email, expires |-> now + TokenTTL]

\* SET authtoken with its time to live.
Store(r) ==
    /\ LinkAt(r, "store")
    /\ \E res \in CallResults :
        /\ Call(res)
        /\ IF res = "failed" THEN UNCHANGED <<token, issued>>
           ELSE token' = [token EXCEPT ![r] = NewToken(r)] /\ issued' = issued \cup {r}
        /\ LinkGoto(r, IF res = "ok" THEN "send" ELSE "error")
    /\ UNCHANGED <<now, rate, session, callback, mailed>>

\* The sender's error is dropped: the answer is the same.
SendMagicLink(r) ==
    /\ LinkAt(r, "send") /\ LinkGoto(r, "sent")
    /\ \/ mailed' = mailed \cup {r}
       \/ UNCHANGED mailed
    /\ UNCHANGED <<now, rate, token, session, callback, issued, faults>>

-----------------------------------------------------------------------------
(* Callback, Logout *)

CallGoto(c, pc) == callback' = [callback EXCEPT ![c].pc = pc]

\* Somebody opens a link; the same link may be opened several times.
OpenLink(c) ==
    /\ callback[c].pc = "idle"
    /\ \E r \in mailed : callback' = [callback EXCEPT ![c] =
            [pc |-> "consume", token |-> r, email |-> None]]
    /\ UNCHANGED <<now, rate, token, session, link, mailed, issued, faults>>

\* Mutant: GET alone; the token is left for its time to live to remove.
Consumed_Kept(r) == token

\* consumeScript: GET and DEL in one step.
Consumed(r) == [token EXCEPT ![r] = NoEntry]

Consume(c) ==
    LET entry == token[callback[c].token] IN
    /\ callback[c].pc = "consume"
    /\ \E res \in CallResults :
        /\ Call(res)
        /\ token' = IF res = "failed" \/ ~Live(entry) THEN token
                    ELSE Consumed(callback[c].token)
        /\ callback' = [callback EXCEPT
              ![c].pc = IF res # "ok" THEN "error"
                        ELSE IF Live(entry) THEN "create" ELSE "unauthorized",
              ![c].email = IF res = "ok" /\ Live(entry) THEN entry.email ELSE None]
    /\ UNCHANGED <<now, rate, session, link, mailed, issued>>

\* SessionStore.Create; when it fails the token is gone all the same.
CreateSession(c) ==
    /\ callback[c].pc = "create"
    /\ \E res \in CallResults :
        /\ Call(res)
        /\ session' = IF res = "failed" THEN session
                      ELSE [session EXCEPT ![c] = [email |-> callback[c].email,
                                                   expires |-> now + SessionTTL]]
        /\ CallGoto(c, IF res = "ok" THEN "in" ELSE "error")
    /\ UNCHANGED <<now, rate, token, link, mailed, issued>>

\* SessionStore.Delete, its error dropped; the cookie is cleared in any case.
Logout(c) ==
    /\ callback[c].pc = "in" /\ CallGoto(c, "out")
    /\ \E res \in CallResults :
        /\ Call(res)
        /\ session' = IF res = "failed" THEN session ELSE [session EXCEPT ![c] = NoEntry]
    /\ UNCHANGED <<now, rate, token, link, mailed, issued>>

Tick ==
    /\ now < MaxTime /\ now' = now + 1
    /\ UNCHANGED <<rate, token, session, link, callback, mailed, issued, faults>>

Next ==
    \/ \E r \in Requests :
        \/ RequestMagicLink(r) \/ IssueTestToken(r) \/ Incr(r) \/ Expire(r)
        \/ Store(r) \/ SendMagicLink(r)
    \/ \E c \in Callbacks : OpenLink(c) \/ Consume(c) \/ CreateSession(c) \/ Logout(c)
    \/ Tick

Spec == Init /\ [][Next]_vars

-----------------------------------------------------------------------------
(* Properties *)

Entry(ttl) == [email : Emails \cup {None}, expires : 0 .. now + ttl]

\* Every variable has its type; no token or session outlives its time to live.
TypeOK ==
    /\ now \in 0 .. MaxTime
    /\ rate \in [Emails -> [count : Nat, expires : 0 .. Never, since : 0 .. MaxTime]]
    /\ token \in [Requests -> Entry(TokenTTL)]
    /\ session \in [Callbacks -> Entry(SessionTTL)]
    /\ link \in [Requests -> [pc : LinkPC, email : Emails \cup {None},
                              test : BOOLEAN, since : 0 .. MaxTime, at : 0 .. MaxTime]]
    /\ callback \in [Callbacks -> [pc : CallPC, token : Requests \cup {None},
                                   email : Emails \cup {None}]]
    /\ mailed \subseteq Requests /\ issued \subseteq Requests
    /\ faults \in 0 .. MaxFaults

\* Of any number of concurrent callbacks with one token at most one gets past
\* Consume, even if replies are lost or the session cannot be stored.
SingleUse ==
    \A c, d \in Callbacks :
        callback[c].email # None /\ callback[d].email # None
            /\ callback[c].token = callback[d].token => c = d

\* A session belongs to the address its token was mailed to, and unless the test
\* endpoint issued the token that address is on the allowlist.
SessionsInvited ==
    \A c \in Callbacks : session[c].email # None =>
        LET r == callback[c].token IN
        /\ session[c].email = link[r].email
        /\ link[r].test \/ session[c].email \in Allowed

\* The tokens issued to requests for e that were counted in the window from t on.
IssuedIn(e, t) ==
    {r \in issued : link[r].email = e /\ link[r].at \in t .. t + RateLimitWindow - 1}

\* NewTokenStore: "rateLimitPerDay caps how many magic links a single email address
\* may request per rolling 24h window".
RollingLimit ==
    RateLimitPerDay > 0 =>
        \A e \in Emails, t \in 0 .. MaxTime : Cardinality(IssuedIn(e, t)) <= RateLimitPerDay

\* What Issue keeps instead, since the window starts with the first request and not
\* with each: around the end of one window and the beginning of the next less than
\* twice the cap, however requests interleave, wait, fail and outlive their key.
RollingBound ==
    RateLimitPerDay > 0 =>
        \A e \in Emails, t \in 0 .. MaxTime : Cardinality(IssuedIn(e, t)) < 2 * RateLimitPerDay

\* A rate key is without a time to live, and its address limited for good, only
\* while a request counted on it is about to set one or after one ended in an
\* error: no order of INCR, EXPIRE and the key's expiry loses it.
OnlyErrorsLockOut ==
    \A e \in Emails : rate[e].count > 0 /\ rate[e].expires = Never =>
        \E r \in Requests : /\ link[r].email = e /\ link[r].since = rate[e].since
                            /\ link[r].pc \in {"expire", "error"}
=============================================================================
