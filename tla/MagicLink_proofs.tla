-------------------------- MODULE MagicLink_proofs --------------------------
(***************************************************************************)
(* Proofs about MagicLink for any sets of addresses, requests and          *)
(* callbacks, any limit, any times to live and any bound on the clock and  *)
(* on the faults.                                                          *)
(***************************************************************************)
EXTENDS MagicLink, FiniteSetTheorems, TLAPS

-----------------------------------------------------------------------------
(* The inductive invariant *)

\* A token somebody holds is no longer being issued; a callback uses such a token,
\* and once it has got an address out of it the token is gone.
TokenInv ==
    /\ \A c \in Callbacks :
        /\ callback[c].pc \in {"idle", "consume"} => callback[c].email = None
        /\ callback[c].pc # "idle" => callback[c].token \in mailed
        /\ callback[c].email # None => token[callback[c].token].email = None
    /\ \A r \in mailed : link[r].pc = "sent"

\* The address goes unchanged from the request over the token to the session, and
\* only an invited one, or one of the test endpoint, starts on that way.
Invited(r) == link[r].test \/ link[r].email \in Allowed
GrantOK(r) ==
    /\ link[r].pc \in {"incr", "expire", "store"} => link[r].email \in Emails /\ Invited(r)
    /\ r \in issued => /\ link[r].pc \in {"send", "sent", "error"}
                       /\ link[r].email \in Emails /\ Invited(r)
    /\ token[r].email # None => r \in issued /\ token[r].email = link[r].email
SessionOK(c) ==
    /\ callback[c].email # None => /\ callback[c].token \in issued
                                   /\ callback[c].email = link[callback[c].token].email
    /\ session[c].email # None => session[c].email = callback[c].email

GrantInv == (\A r \in Requests : GrantOK(r)) /\ (\A c \in Callbacks : SessionOK(c))

\* The requests that got past the limit on the key that address e had since s, and
\* those of them that were counted later than in its first moment.  The count of
\* the key is at least the number of the first, and larger than that of the others.
Held(r) == link[r].pc \in {"expire", "store"} \/ r \in issued
Passed(e, s) == {r \in Requests : Held(r) /\ link[r].email = e /\ link[r].since = s}
Late(e, s) == {r \in Passed(e, s) : link[r].at > s}
WindowOK(e, s) ==
    /\ s > rate[e].since => Passed(e, s) = {}
    /\ s = rate[e].since => /\ Cardinality(Passed(e, s)) <= rate[e].count
                            /\ Passed(e, s) = {} \/ Cardinality(Late(e, s)) < rate[e].count
    /\ RateLimitPerDay > 0 => /\ Cardinality(Passed(e, s)) <= RateLimitPerDay
                              /\ Cardinality(Late(e, s)) < RateLimitPerDay

WindowInv == \A e \in Emails, s \in Nat : WindowOK(e, s)

\* A key lives for the window at least, so that the keys of one address lie that far
\* apart, and what was counted on one was counted before the next began.
KeyOK(e) ==
    /\ rate[e].since <= now
    /\ rate[e].count > 0 => rate[e].since + RateLimitWindow <= rate[e].expires
Before(s, at, next) == s + RateLimitWindow <= next /\ at <= next
CountedOK(r) ==
    LET key == rate[link[r].email] IN
    Held(r) => /\ link[r].since <= link[r].at /\ link[r].at <= now
               /\ key.count > 0 /\ link[r].since <= key.since
               /\ link[r].since < key.since => Before(link[r].since, link[r].at, key.since)
PairOK(r, q) ==
    Held(r) /\ Held(q) /\ link[r].email = link[q].email /\ link[r].since < link[q].since
        => Before(link[r].since, link[r].at, link[q].since)

OrderInv ==
    /\ \A e \in Emails : KeyOK(e)
    /\ \A r \in Requests : CountedOK(r)
    /\ \A r, q \in Requests : PairOK(r, q)

IInv == TypeOK /\ TokenInv /\ SingleUse /\ GrantInv /\ WindowInv /\ OrderInv

-----------------------------------------------------------------------------
(* Types, and what the pieces of an action do *)

LinkType == [pc : LinkPC, email : Emails \cup {None}, test : BOOLEAN,
             since : 0 .. MaxTime, at : 0 .. MaxTime]
CallType == [pc : CallPC, token : Requests \cup {None}, email : Emails \cup {None}]
KeyType  == [count : Nat, expires : 0 .. Never, since : 0 .. MaxTime]

LEMMA Types ==
    ASSUME TypeOK
    PROVE  /\ link \in [Requests -> LinkType] /\ callback \in [Callbacks -> CallType]
           /\ rate \in [Emails -> KeyType] /\ mailed \subseteq Requests /\ issued \subseteq Requests
           /\ token \in [Requests -> Entry(TokenTTL)] /\ session \in [Callbacks -> Entry(SessionTTL)]
           /\ now \in Nat /\ now <= MaxTime /\ MaxTime \in Nat /\ faults \in 0 .. MaxFaults /\ MaxFaults \in Nat /\ Never \in Nat
BY AuthConstantsOK DEF TypeOK, LinkType, CallType, KeyType, Never

LEMMA CallFaults ==
    ASSUME TypeOK, NEW r, Call(r)
    PROVE  faults' \in 0 .. MaxFaults
BY AuthConstantsOK DEF TypeOK, Call

\* The ways of a request and of a callback from one command to the next.
Moves(r, pc) ==
    /\ link' \in [Requests -> LinkType]
    /\ link'[r].pc = pc /\ link'[r].email = link[r].email
    /\ link'[r].test = link[r].test
    /\ link'[r].since = link[r].since /\ link'[r].at = link[r].at
    /\ \A q \in Requests \ {r} : link'[q] = link[q]

LEMMA GotoMoves ==
    ASSUME TypeOK, NEW r \in Requests, NEW pc \in LinkPC, LinkGoto(r, pc)
    PROVE  Moves(r, pc)
BY Types DEF LinkGoto, LinkType, Moves

\* The finite sets that are counted.
LEMMA PassedFinite ==
    ASSUME NEW e, NEW s
    PROVE  /\ IsFiniteSet(Passed(e, s)) /\ Cardinality(Passed(e, s)) \in Nat
           /\ IsFiniteSet(Passed(e, s)') /\ Cardinality(Passed(e, s)') \in Nat
           /\ IsFiniteSet(Late(e, s)) /\ Cardinality(Late(e, s)) \in Nat
           /\ IsFiniteSet(Late(e, s)') /\ Cardinality(Late(e, s)') \in Nat
<1>1. IsFiniteSet(Passed(e, s)) /\ IsFiniteSet(Passed(e, s)')
  BY AuthConstantsOK, FS_Subset DEF Passed
<1>2. IsFiniteSet(Late(e, s)) /\ IsFiniteSet(Late(e, s)')
  BY <1>1, FS_Subset DEF Late
<1> QED BY <1>1, <1>2, FS_CardinalityType

\* The steps that let nobody new past the limit, count nothing and shorten no key.
Keeps ==
    /\ \A e \in Emails : /\ rate'[e] \in KeyType
                         /\ rate'[e].since = rate[e].since /\ rate'[e].count = rate[e].count
                         /\ \/ rate'[e].expires = rate[e].expires
                            \/ rate'[e].expires = now + RateLimitWindow
    /\ \A q \in Requests : Held(q)' => /\ Held(q) /\ link'[q].email = link[q].email
                                       /\ link'[q].since = link[q].since
                                       /\ link'[q].at = link[q].at
    /\ now' \in {now, now + 1}

LEMMA KeepsWindows ==
    ASSUME TypeOK, WindowInv, Keeps
    PROVE  WindowInv'
<1> SUFFICES ASSUME NEW e \in Emails, NEW s \in Nat PROVE WindowOK(e, s)'
  BY DEF WindowInv
<1>1. /\ WindowOK(e, s) /\ rate[e].count \in Nat /\ RateLimitPerDay \in Nat
      /\ rate'[e].since = rate[e].since /\ rate'[e].count = rate[e].count
  BY Types, AuthConstantsOK DEF WindowInv, KeyType, Keeps
<1>2. Passed(e, s)' \subseteq Passed(e, s) /\ Late(e, s)' \subseteq Late(e, s)
  BY DEF Keeps, Passed, Late
<1>3. /\ Cardinality(Passed(e, s)') <= Cardinality(Passed(e, s))
      /\ Cardinality(Late(e, s)') <= Cardinality(Late(e, s))
  BY <1>2, PassedFinite, FS_Subset
<1>4. Passed(e, s) = {} => Passed(e, s)' = {}
  BY <1>2
<1> QED BY <1>1, <1>3, <1>4, PassedFinite DEF WindowOK

LEMMA KeepsOrder ==
    ASSUME TypeOK, GrantInv, OrderInv, Keeps
    PROVE  OrderInv'
<1>1. ASSUME NEW e \in Emails PROVE KeyOK(e)'
  <2>1. KeyOK(e) /\ rate[e] \in KeyType
    BY Types DEF OrderInv
  <2> QED BY <2>1, Types, AuthConstantsOK DEF KeyOK, Keeps, KeyType
<1>2. ASSUME NEW r \in Requests PROVE CountedOK(r)'
  <2>1. CountedOK(r) /\ (Held(r) => link[r].email \in Emails)
    BY DEF OrderInv, GrantInv, GrantOK, Held
  <2>2. link[r] \in LinkType
    BY Types
  <2> QED BY <2>1, <2>2, Types DEF CountedOK, Keeps, Before, LinkType
<1>3. ASSUME NEW r \in Requests, NEW q \in Requests PROVE PairOK(r, q)'
  <2>1. PairOK(r, q)
    BY DEF OrderInv
  <2> QED BY <2>1 DEF PairOK, Keeps, Before
<1> QED BY <1>1, <1>2, <1>3 DEF OrderInv

LEMMA KeepsBoth ==
    ASSUME IInv, Keeps
    PROVE  WindowInv' /\ OrderInv'
BY KeepsWindows, KeepsOrder DEF IInv

\* The steps that do not concern the requests.
LEMMA AloneKeeps ==
    ASSUME IInv, UNCHANGED <<rate, link, issued>>, now' \in {now, now + 1}
    PROVE  WindowInv' /\ OrderInv'
<1>1. Keeps
  BY Types DEF IInv, Keeps, Held
<1> QED BY <1>1, KeepsBoth

-----------------------------------------------------------------------------
(* The requests *)

\* A request that goes on, or ends, without touching its key's count, its token or
\* its grant.
LEMMA MoveInv ==
    ASSUME IInv, NEW r \in Requests, NEW pc, Moves(r, pc),
           link[r].pc \in {"expire", "store", "send"}, pc \in {"store", "sent", "limited", "error"},
           pc = "store" => link[r].pc = "expire",
           pc = "limited" => link[r].pc = "expire",
           mailed' = mailed \/ (mailed' = mailed \cup {r} /\ pc = "sent"),
           rate' \in [Emails -> KeyType],
           \A e \in Emails : /\ rate'[e].since = rate[e].since /\ rate'[e].count = rate[e].count
                             /\ \/ rate'[e].expires = rate[e].expires
                                \/ rate'[e].expires = now + RateLimitWindow,
           UNCHANGED <<now, token, session, callback, issued>>, faults' \in 0 .. MaxFaults
    PROVE  IInv'
<1>0. TypeOK /\ TokenInv /\ SingleUse /\ GrantInv
  BY DEF IInv
<1>1. TypeOK'
  BY <1>0 DEF TypeOK, Moves, LinkType, KeyType, Entry
<1>2. TokenInv'
  BY <1>0 DEF TokenInv, Moves, TypeOK
<1>3. SingleUse'
  BY <1>0 DEF SingleUse
<1>4. GrantInv'
  <2>1. ASSUME NEW q \in Requests PROVE GrantOK(q)'
    <3>1. GrantOK(q)
      BY <1>0 DEF GrantInv
    <3>2. q = r \/ link'[q] = link[q]
      BY DEF Moves
    <3> QED BY <3>1, <3>2 DEF GrantOK, Invited, Moves
  <2>2. ASSUME NEW c \in Callbacks PROVE SessionOK(c)'
    <3>1. \A q \in issued : link'[q].email = link[q].email
      BY <1>0, Types DEF Moves
    <3> QED BY <1>0, <3>1 DEF GrantInv, SessionOK
  <2> QED BY <2>1, <2>2 DEF GrantInv
<1>5. WindowInv' /\ OrderInv'
  <2>1. Keeps
    BY <1>0 DEF Keeps, Held, Moves
  <2> QED BY <2>1, KeepsBoth
<1> QED BY <1>1, <1>2, <1>3, <1>4, <1>5 DEF IInv

LEMMA ExpireInv ==
    ASSUME IInv, NEW r \in Requests, Expire(r)
    PROVE  IInv'
<1>0. TypeOK /\ link[r].pc = "expire" /\ link[r].email \in Emails
  BY DEF IInv, GrantInv, GrantOK, Expire, LinkAt
<1>1. PICK res \in CallResults :
        /\ Call(res)
        /\ rate' = IF res = "failed" THEN rate
                   ELSE [rate EXCEPT ![link[r].email].expires = now + RateLimitWindow]
        /\ LinkGoto(r, IF res # "ok" THEN "error" ELSE IF OverLimit(1) THEN "limited" ELSE "store")
  BY DEF Expire
<1>2. PICK pc \in {"error", "limited", "store"} : LinkGoto(r, pc)
  BY <1>1
<1>3. Moves(r, pc)
  BY <1>0, <1>2, GotoMoves DEF LinkPC
<1>4. /\ rate' \in [Emails -> KeyType]
      /\ \A e \in Emails : /\ rate'[e].since = rate[e].since /\ rate'[e].count = rate[e].count
                           /\ \/ rate'[e].expires = rate[e].expires
                              \/ rate'[e].expires = now + RateLimitWindow
  <2>1. now + RateLimitWindow \in 0 .. Never
    BY <1>0, AuthConstantsOK DEF TypeOK, Never
  <2> QED BY <1>0, <1>1, <2>1, Types DEF KeyType
<1>5. UNCHANGED <<now, token, session, callback, mailed, issued>> /\ faults' \in 0 .. MaxFaults
  BY <1>0, <1>1, CallFaults DEF Expire
<1> QED BY <1>0, <1>3, <1>4, <1>5, MoveInv

LEMMA SendInv ==
    ASSUME IInv, NEW r \in Requests, SendMagicLink(r)
    PROVE  IInv'
<1>0. TypeOK /\ link[r].pc = "send"
  BY DEF IInv, SendMagicLink, LinkAt
<1>1. Moves(r, "sent")
  BY <1>0, GotoMoves DEF SendMagicLink, LinkPC
<1>2. /\ UNCHANGED <<now, rate, token, session, callback, issued, faults>>
      /\ mailed' = mailed \/ mailed' = mailed \cup {r}
  BY DEF SendMagicLink
<1>3. /\ rate' \in [Emails -> KeyType] /\ faults' \in 0 .. MaxFaults
      /\ \A e \in Emails : /\ rate'[e].since = rate[e].since /\ rate'[e].count = rate[e].count
                           /\ rate'[e].expires = rate[e].expires
  BY <1>0, <1>2, Types
<1> QED BY <1>0, <1>1, <1>2, <1>3, MoveInv

\* A request that arrives has no token and no grant.
LEMMA BeginInv ==
    ASSUME IInv, NEW r \in Requests, RequestMagicLink(r) \/ IssueTestToken(r)
    PROVE  IInv'
<1>0. TypeOK /\ TokenInv /\ SingleUse /\ GrantInv
      /\ link[r].pc = "idle" /\ r \notin issued
  BY DEF IInv, GrantInv, GrantOK, RequestMagicLink, IssueTestToken, LinkAt
<1>1. PICK e \in Emails, pc \in {"incr", "sent"}, test \in BOOLEAN :
        /\ link' = [link EXCEPT ![r].pc = pc, ![r].email = e, ![r].test = test]
        /\ pc = "incr" => test \/ e \in Allowed
  BY DEF RequestMagicLink, IssueTestToken, Begin
<1>2. UNCHANGED <<now, rate, token, session, callback, mailed, issued, faults>>
  BY DEF RequestMagicLink, IssueTestToken
<1>3. /\ link' \in [Requests -> LinkType]
      /\ link'[r].pc = pc /\ link'[r].email = e /\ link'[r].test = test
      /\ \A q \in Requests \ {r} : link'[q] = link[q]
  <2> DEFINE l == [link[r] EXCEPT !.pc = pc, !.email = e, !.test = test]
  <2>1. l \in LinkType /\ l.pc = pc /\ l.email = e /\ l.test = test
    BY <1>0, Types DEF LinkType, LinkPC
  <2>2. link' = [link EXCEPT ![r] = l]
    BY <1>0, <1>1, Types
  <2> HIDE DEF l
  <2> QED BY <1>0, <2>1, <2>2, Types
<1>4. TypeOK'
  BY <1>0, <1>2, <1>3 DEF TypeOK, LinkType, Entry
<1>5. TokenInv' /\ SingleUse'
  BY <1>0, <1>2, <1>3 DEF TokenInv, SingleUse, TypeOK
<1>6. GrantInv'
  <2>1. ASSUME NEW q \in Requests PROVE GrantOK(q)'
    <3>1. GrantOK(q)
      BY <1>0 DEF GrantInv
    <3> QED BY <1>0, <1>1, <1>2, <1>3, <3>1 DEF GrantOK, Invited
  <2>2. ASSUME NEW c \in Callbacks PROVE SessionOK(c)'
    <3>1. \A q \in issued : link'[q] = link[q]
      BY <1>0, <1>3, Types
    <3> QED BY <1>0, <1>2, <3>1 DEF GrantInv, SessionOK
  <2> QED BY <2>1, <2>2 DEF GrantInv
<1>7. WindowInv' /\ OrderInv'
  <2>1. Keeps
    BY <1>0, <1>2, <1>3, Types DEF Keeps, Held
  <2> QED BY <2>1, KeepsBoth
<1> QED BY <1>4, <1>5, <1>6, <1>7 DEF IInv

\* INCR counts on a key that lives, or begins a new one.
Continues(key, e) ==
    /\ rate[e].count > 0 /\ key.count = rate[e].count + 1
    /\ key.since = rate[e].since /\ key.expires = rate[e].expires
Begins(key, e) ==
    /\ key.since = now /\ key.count = 1
    /\ rate[e].count > 0 => rate[e].expires <= now

\* INCR decides: a request gets past the limit as one of the first RateLimitPerDay
\* on the key, and it is the only one that is counted so.
LEMMA IncrInv ==
    ASSUME IInv, NEW r \in Requests, Incr(r)
    PROVE  IInv'
<1> DEFINE e0  == link[r].email
           key == Bumped(rate[e0])
<1>0. /\ TypeOK /\ TokenInv /\ SingleUse /\ GrantInv /\ WindowInv /\ OrderInv
      /\ link[r].pc = "incr" /\ e0 \in Emails /\ Invited(r) /\ r \notin issued
  BY DEF IInv, GrantInv, GrantOK, Incr, LinkAt
<1>1. PICK res \in CallResults :
        /\ Call(res)
        /\ rate' = IF res = "failed" THEN rate ELSE [rate EXCEPT ![e0] = key]
        /\ link' = [link EXCEPT
              ![r].pc = IF res = "ok" THEN NextAfterIncr(key.count) ELSE "error",
              ![r].since = key.since, ![r].at = now]
  BY DEF Incr
<1>2. UNCHANGED <<now, token, session, callback, mailed, issued>> /\ faults' \in 0 .. MaxFaults
  BY <1>0, <1>1, CallFaults DEF Incr
<1>3. /\ key \in KeyType
      /\ \/ Continues(key, e0)
         \/ Begins(key, e0) /\ key.expires = Never
  <2>1. rate[e0] \in KeyType
    BY <1>0, Types
  <2>2. CASE rate[e0].count > 0 /\ now < rate[e0].expires
    <3>1. key = [rate[e0] EXCEPT !.count = @ + 1]
      BY <2>2 DEF Bumped
    <3> QED BY <2>1, <2>2, <3>1 DEF KeyType, Continues
  <2>3. CASE ~(rate[e0].count > 0 /\ now < rate[e0].expires)
    <3>1. key = [count |-> 1, expires |-> Never, since |-> now]
      BY <2>3 DEF Bumped
    <3>2. Never \in 0 .. Never /\ now \in 0 .. MaxTime
      BY <1>0, Types
    <3>3. rate[e0].count > 0 => rate[e0].expires <= now
      BY <1>0, <2>1, <2>3, Types DEF KeyType
    <3> QED BY <3>1, <3>2, <3>3 DEF KeyType, Begins
  <2> QED BY <2>2, <2>3
<1> DEFINE pc == IF res = "ok" THEN NextAfterIncr(key.count) ELSE "error"
<1>4. /\ pc \in {"expire", "limited", "store", "error"}
      /\ pc \in {"expire", "store"} => res = "ok"
      /\ pc = "expire" => key.count = 1
      /\ pc = "store" => ~OverLimit(key.count)
  BY DEF NextAfterIncr
<1>5. link' = [link EXCEPT ![r].pc = pc, ![r].since = key.since, ![r].at = now]
  BY <1>1
<1> HIDE DEF pc, key
<1>6. /\ link' \in [Requests -> LinkType]
      /\ link'[r].pc = pc /\ link'[r].since = key.since /\ link'[r].at = now
      /\ link'[r].email = e0 /\ link'[r].test = link[r].test
      /\ \A q \in Requests \ {r} : link'[q] = link[q]
  <2> DEFINE l == [link[r] EXCEPT !.pc = pc, !.since = key.since, !.at = now]
  <2>1. /\ l \in LinkType /\ l.pc = pc /\ l.since = key.since /\ l.at = now
        /\ l.email = e0 /\ l.test = link[r].test
    <3>1. key.since \in 0 .. MaxTime /\ now \in 0 .. MaxTime /\ pc \in LinkPC
      BY <1>0, <1>3, <1>4, Types DEF KeyType, LinkPC
    <3>2. link[r] \in LinkType
      BY <1>0, Types
    <3> QED BY <3>1, <3>2 DEF LinkType
  <2>2. link' = [link EXCEPT ![r] = l]
    BY <1>0, <1>5, Types
  <2> HIDE DEF l
  <2> QED BY <1>0, <2>1, <2>2, Types
<1>7. /\ rate' \in [Emails -> KeyType]
      /\ \A e \in Emails \ {e0} : rate'[e] = rate[e]
      /\ rate'[e0] = IF res = "failed" THEN rate[e0] ELSE key
  BY <1>0, <1>1, <1>3, Types
<1>8. TypeOK'
  BY <1>0, <1>2, <1>6, <1>7 DEF TypeOK, LinkType, KeyType, Entry
<1>9. TokenInv' /\ SingleUse'
  BY <1>0, <1>2, <1>6 DEF TokenInv, SingleUse, TypeOK
<1>10. GrantInv'
  <2>1. ASSUME NEW q \in Requests PROVE GrantOK(q)'
    <3>1. GrantOK(q)
      BY <1>0 DEF GrantInv
    <3> QED BY <1>0, <1>2, <1>4, <1>6, <3>1 DEF GrantOK, Invited
  <2>2. ASSUME NEW c \in Callbacks PROVE SessionOK(c)'
    BY <1>0, <1>2, <1>6 DEF GrantInv, SessionOK, TypeOK
  <2> QED BY <2>1, <2>2 DEF GrantInv
<1> DEFINE passes == pc \in {"expire", "store"}
<1>11. \A q \in Requests : /\ q # r => (Held(q)' <=> Held(q)) /\ link'[q] = link[q]
                           /\ q = r => (Held(q)' <=> passes) /\ ~Held(q)
  BY <1>0, <1>2, <1>6 DEF Held
<1>12. \A e \in Emails : /\ e # e0 => rate'[e] = rate[e]
                         /\ \/ rate'[e] = rate[e]
                            \/ e = e0 /\ rate'[e] = key
                         /\ e = e0 /\ passes => rate'[e] = key
  BY <1>4, <1>7
<1>13. /\ key.count \in Nat /\ key.since \in Nat /\ key.expires \in Nat /\ now \in Nat
       /\ now + RateLimitWindow <= Never /\ RateLimitWindow \in Nat \ {0}
       /\ RateLimitPerDay \in Nat /\ Never \in Nat
       /\ RateLimitPerDay > 0 /\ passes => key.count <= RateLimitPerDay
  BY <1>0, <1>3, <1>4, Types, AuthConstantsOK DEF OverLimit, KeyType, Never
<1>14. KeyOK(e0) /\ rate[e0] \in KeyType
  BY <1>0, Types DEF OrderInv
\* A key that begins finds no request that was counted on another of its time.
<1>15. Begins(key, e0) => \A s \in Nat : s >= now => Passed(e0, s) = {}
  <2> SUFFICES ASSUME Begins(key, e0), NEW s \in Nat, s >= now PROVE Passed(e0, s) = {}
    OBVIOUS
  <2>1. CASE rate[e0].count > 0
    <3>1. s > rate[e0].since
      BY <1>13, <1>14, <2>1 DEF Begins, KeyOK, KeyType
    <3> QED BY <1>0, <3>1 DEF WindowInv, WindowOK
  <2>2. CASE ~(rate[e0].count > 0)
    <3>1. \A q \in Requests : CountedOK(q)
      BY <1>0 DEF OrderInv
    <3> QED BY <2>2, <3>1 DEF CountedOK, Passed
  <2> QED BY <2>1, <2>2
<1>16. ASSUME NEW e \in Emails, NEW s \in Nat PROVE WindowOK(e, s)'
  <2>1. WindowOK(e, s) /\ rate[e] \in KeyType
    BY <1>0, Types DEF WindowInv
  <2>2. CASE e = e0 /\ s = key.since /\ passes
    <3>1. Passed(e, s)' = Passed(e, s) \cup {r} /\ r \notin Passed(e, s) /\ rate'[e] = key
      <4>1. \A q \in Requests \ {r} : q \in Passed(e, s)' <=> q \in Passed(e, s)
        BY <1>11 DEF Passed
      <4>2. r \in Passed(e, s)' /\ r \notin Passed(e, s)
        BY <1>6, <1>11, <2>2 DEF Passed
      <4>3. Passed(e, s)' \subseteq Requests /\ Passed(e, s) \subseteq Requests
        BY DEF Passed
      <4> QED BY <1>12, <2>2, <4>1, <4>2, <4>3
    <3>2. Cardinality(Passed(e, s)') = Cardinality(Passed(e, s)) + 1
      BY <3>1, PassedFinite, FS_AddElement
    <3>3. CASE Continues(key, e0)
      <4>1. s = rate[e].since /\ key.count = rate[e].count + 1
        BY <2>2, <3>3 DEF Continues
      <4>2. Cardinality(Passed(e, s)) + 1 <= key.count
        BY <2>1, <4>1, PassedFinite DEF WindowOK, KeyType
      <4>3. Cardinality(Late(e, s)) < rate[e].count
        <5>1. CASE Passed(e, s) = {}
          <6>1. Late(e, s) = {} /\ Cardinality(Late(e, s)) = 0
            BY <5>1, FS_EmptySet DEF Late
          <6> QED BY <2>2, <3>3, <6>1 DEF Continues
        <5>2. CASE Passed(e, s) # {}
          BY <2>1, <4>1, <5>2 DEF WindowOK
        <5> QED BY <5>1, <5>2
      <4>4. Late(e, s)' = Late(e, s) \/ Late(e, s)' = Late(e, s) \cup {r}
        <5>1. \A q \in Passed(e, s) : link'[q].at = link[q].at
          BY <1>11, <3>1 DEF Passed
        <5> QED BY <3>1, <5>1 DEF Late
      <4>5. Cardinality(Late(e, s)') <= Cardinality(Late(e, s)) + 1
        <5>1. r \notin Late(e, s)
          BY <3>1 DEF Late
        <5> QED BY <4>4, <5>1, PassedFinite, FS_AddElement
      <4>6. Cardinality(Late(e, s)') < key.count
        BY <2>1, <4>1, <4>3, <4>5, PassedFinite DEF KeyType
      <4> QED BY <1>13, <2>2, <3>1, <3>2, <4>2, <4>6, PassedFinite DEF WindowOK
    <3>4. CASE Begins(key, e0)
      <4>1. s = now /\ key.count = 1 /\ Passed(e, s) = {}
        BY <1>13, <1>15, <2>2, <3>4 DEF Begins
      <4>2. Late(e, s)' = {}
        BY <1>2, <1>6, <1>13, <3>1, <4>1 DEF Late
      <4>3. Cardinality(Late(e, s)') = 0 /\ Cardinality(Passed(e, s)) = 0
        BY <4>1, <4>2, FS_EmptySet
      <4> QED BY <1>13, <2>2, <3>1, <3>2, <4>1, <4>3 DEF WindowOK
    <3> QED BY <1>3, <3>3, <3>4
  <2>3. CASE ~(e = e0 /\ s = key.since /\ passes)
    <3>1. Passed(e, s)' = Passed(e, s)
      <4>1. \A q \in Requests \ {r} : q \in Passed(e, s)' <=> q \in Passed(e, s)
        BY <1>11 DEF Passed
      <4>2. r \notin Passed(e, s)' /\ r \notin Passed(e, s)
        BY <1>6, <1>11, <2>3 DEF Passed
      <4>3. Passed(e, s)' \subseteq Requests /\ Passed(e, s) \subseteq Requests
        BY DEF Passed
      <4> QED BY <4>1, <4>2, <4>3
    <3>2. Late(e, s)' = Late(e, s)
      <4>1. \A q \in Passed(e, s) : link'[q].at = link[q].at
        BY <1>11 DEF Passed
      <4> QED BY <3>1, <4>1 DEF Late
    <3>3. CASE rate'[e] = rate[e]
      BY <2>1, <3>1, <3>2, <3>3 DEF WindowOK
    <3>4. CASE e = e0 /\ rate'[e] = key /\ Continues(key, e0)
      <4>1. key.since = rate[e].since /\ key.count = rate[e].count + 1 /\ rate[e].count \in Nat
        BY <2>1, <3>4 DEF Continues, KeyType
      <4>2. s = key.since => /\ Cardinality(Passed(e, s)) <= key.count
                             /\ Passed(e, s) = {} \/ Cardinality(Late(e, s)) < key.count
        BY <2>1, <4>1, PassedFinite DEF WindowOK
      <4>3. s > key.since => Passed(e, s) = {}
        BY <2>1, <4>1 DEF WindowOK
      <4>4. RateLimitPerDay > 0 => /\ Cardinality(Passed(e, s)) <= RateLimitPerDay
                                   /\ Cardinality(Late(e, s)) < RateLimitPerDay
        BY <2>1 DEF WindowOK
      <4>5. rate'[e] = key
        BY <3>4
      <4> QED BY <3>1, <3>2, <4>2, <4>3, <4>4, <4>5 DEF WindowOK
    <3>5. CASE e = e0 /\ rate'[e] = key /\ Begins(key, e0)
      <4>1. s >= key.since => Passed(e, s) = {}
        BY <1>15, <3>5 DEF Begins
      <4>2. s = key.since => Cardinality(Passed(e, s)) <= key.count
        <5>1. Passed(e, s) = {} => Cardinality(Passed(e, s)) = 0
          BY FS_EmptySet
        <5> QED BY <1>13, <4>1, <5>1
      <4>3. (s > key.since => s >= key.since) /\ (s = key.since => s >= key.since)
        BY <1>13
      <4> QED BY <2>1, <3>1, <3>2, <3>5, <4>1, <4>2, <4>3 DEF WindowOK
    <3> QED BY <1>3, <1>12, <3>3, <3>4, <3>5
  <2> QED BY <2>2, <2>3
\* What was counted on an earlier key lies before one that begins now.
<1>17. ASSUME NEW q \in Requests, Held(q), link[q].email = e0
       PROVE  /\ link[q].since <= key.since /\ link[q].at <= now
              /\ link[q].since < key.since => Before(link[q].since, link[q].at, key.since)
  <2>1. CountedOK(q) /\ link[q] \in LinkType
    BY <1>0, Types DEF OrderInv
  <2>2. CASE Continues(key, e0)
    BY <1>17, <2>1, <2>2 DEF CountedOK, Continues
  <2>3. CASE Begins(key, e0)
    <3>1. /\ link[q].since <= rate[e0].since /\ link[q].at <= now
          /\ rate[e0].since + RateLimitWindow <= now
      BY <1>13, <1>14, <1>17, <2>1, <2>3 DEF CountedOK, Begins, KeyOK, KeyType
    <3> QED BY <1>13, <1>14, <2>1, <2>3, <3>1 DEF Begins, Before, LinkType, KeyType
  <2> QED BY <1>3, <2>2, <2>3
<1>18. key.since <= now /\ key.count > 0
  BY <1>3, <1>13, <1>14 DEF Continues, Begins, KeyOK, KeyType
<1>19. OrderInv'
  <2>1. ASSUME NEW e \in Emails PROVE KeyOK(e)'
    <3>1. KeyOK(e)
      BY <1>0 DEF OrderInv
    <3>2. e = e0 => key.since + RateLimitWindow <= key.expires
      BY <1>3, <1>13, <1>14 DEF Continues, Begins, KeyOK, KeyType
    <3> QED BY <1>2, <1>12, <1>18, <3>1, <3>2 DEF KeyOK
  <2>2. ASSUME NEW q \in Requests PROVE CountedOK(q)'
    <3> SUFFICES ASSUME Held(q)' PROVE CountedOK(q)'
      BY DEF CountedOK
    <3>1. CASE q = r
      BY <1>2, <1>6, <1>11, <1>12, <1>13, <1>18, <1>0, <3>1 DEF CountedOK
    <3>2. CASE q # r
      <4>1. Held(q) /\ link'[q] = link[q] /\ CountedOK(q) /\ link[q].email \in Emails
        BY <1>0, <1>11, <3>2 DEF OrderInv, GrantInv, GrantOK, Held
      <4>2. CASE rate'[link[q].email] = rate[link[q].email]
        BY <1>2, <4>1, <4>2 DEF CountedOK
      <4>3. CASE link[q].email = e0 /\ rate'[e0] = key
        BY <1>2, <1>17, <1>18, <4>1, <4>3 DEF CountedOK
      <4> QED BY <1>12, <4>1, <4>2, <4>3
    <3> QED BY <3>1, <3>2
  <2>3. ASSUME NEW q1 \in Requests, NEW q2 \in Requests PROVE PairOK(q1, q2)'
    <3> SUFFICES ASSUME Held(q1)', Held(q2)', link'[q1].email = link'[q2].email,
                        link'[q1].since < link'[q2].since
                 PROVE  Before(link'[q1].since, link'[q1].at, link'[q2].since)
      BY DEF PairOK, Before
    <3>1. CASE q1 # r /\ q2 # r
      <4>1. PairOK(q1, q2)
        BY <1>0 DEF OrderInv
      <4> QED BY <1>11, <3>1, <4>1 DEF PairOK
    <3>2. CASE q1 # r /\ q2 = r
      BY <1>6, <1>11, <1>17, <3>2
    <3>3. CASE q1 = r
      <4>1. q2 # r
        BY <1>6, <1>13, <3>3
      <4>2. link[q2].since <= key.since /\ key.since < link[q2].since /\ link[q2] \in LinkType
        BY <1>0, <1>6, <1>11, <1>17, <3>3, <4>1, Types
      <4> QED BY <1>13, <4>2 DEF LinkType
    <3> QED BY <3>1, <3>2, <3>3
  <2> QED BY <2>1, <2>2, <2>3 DEF OrderInv
<1> QED BY <1>8, <1>9, <1>10, <1>16, <1>19 DEF IInv, WindowInv

\* Storing the token makes a request that got past the limit one that has it.
LEMMA StoreInv ==
    ASSUME IInv, NEW r \in Requests, Store(r)
    PROVE  IInv'
<1>0. /\ TypeOK /\ TokenInv /\ SingleUse /\ GrantInv /\ link[r].pc = "store"
      /\ link[r].email \in Emails /\ Invited(r) /\ r \notin issued
  BY DEF IInv, GrantInv, GrantOK, Store, LinkAt
<1>1. PICK res \in CallResults :
        /\ Call(res)
        /\ IF res = "failed" THEN UNCHANGED <<token, issued>>
           ELSE token' = [token EXCEPT ![r] = NewToken(r)] /\ issued' = issued \cup {r}
        /\ LinkGoto(r, IF res = "ok" THEN "send" ELSE "error")
  BY DEF Store
<1>2. UNCHANGED <<now, rate, session, callback, mailed>> /\ faults' \in 0 .. MaxFaults
  BY <1>0, <1>1, CallFaults DEF Store
<1>3. PICK pc \in {"send", "error"} : LinkGoto(r, pc)
  BY <1>1
<1>4. Moves(r, pc)
  BY <1>0, <1>3, GotoMoves DEF LinkPC
<1>5. /\ token' \in [Requests -> Entry(TokenTTL)]
      /\ token'[r].email \in {token[r].email, link[r].email}
      /\ \A q \in Requests \ {r} : token'[q] = token[q]
      /\ \/ issued' = issued /\ token'[r] = token[r]
         \/ issued' = issued \cup {r} /\ token'[r].email = link[r].email
  <2>1. NewToken(r) \in Entry(TokenTTL) /\ NewToken(r).email = link[r].email
    BY <1>0, AuthConstantsOK, Types DEF NewToken, Entry
  <2> HIDE DEF NewToken
  <2> QED BY <1>0, <1>1, <2>1, Types DEF TypeOK
<1>6. \A c \in Callbacks : callback[c].pc # "idle" => callback[c].token \in Requests \ {r}
  BY <1>0 DEF TokenInv, TypeOK
<1>7. \A c \in Callbacks : callback[c].email # None => callback[c].token \in Requests \ {r}
  BY <1>0, <1>6 DEF TokenInv
<1>8. TypeOK'
  BY <1>0, <1>2, <1>4, <1>5 DEF TypeOK, Moves, LinkType, Entry
<1>9. TokenInv' /\ SingleUse'
  BY <1>0, <1>2, <1>4, <1>5, <1>7 DEF TokenInv, SingleUse, TypeOK, Moves
<1>10. GrantInv'
  <2>1. ASSUME NEW q \in Requests PROVE GrantOK(q)'
    <3>1. GrantOK(q)
      BY <1>0 DEF GrantInv
    <3>2. CASE q = r
      BY <1>0, <1>4, <1>5, <3>1, <3>2 DEF GrantOK, Invited, Moves
    <3>3. CASE q # r
      BY <1>4, <1>5, <3>1, <3>3 DEF GrantOK, Invited, Moves
    <3> QED BY <3>2, <3>3
  <2>2. ASSUME NEW c \in Callbacks PROVE SessionOK(c)'
    <3>1. \A q \in issued : q \in issued' /\ link'[q].email = link[q].email
      BY <1>0, <1>4, <1>5, Types DEF Moves
    <3> QED BY <1>0, <1>2, <3>1 DEF GrantInv, SessionOK
  <2> QED BY <2>1, <2>2 DEF GrantInv
<1>11. WindowInv' /\ OrderInv'
  <2>1. Keeps
    BY <1>0, <1>2, <1>4, <1>5, Types DEF Keeps, Held, Moves
  <2> QED BY <2>1, KeepsBoth
<1> QED BY <1>8, <1>9, <1>10, <1>11 DEF IInv

-----------------------------------------------------------------------------
(* The callbacks *)

\* What callback c becomes; the others stay.
Becomes(c, cb) ==
    /\ callback' \in [Callbacks -> CallType]
    /\ callback'[c] = cb
    /\ \A d \in Callbacks \ {c} : callback'[d] = callback[d]

LEMMA BecomesType ==
    ASSUME TypeOK, NEW c \in Callbacks, NEW cb \in CallType, callback' = [callback EXCEPT ![c] = cb]
    PROVE  Becomes(c, cb)
BY Types DEF Becomes

LEMMA OpenLinkInv ==
    ASSUME IInv, NEW c \in Callbacks, OpenLink(c)
    PROVE  IInv'
<1>0. /\ TypeOK /\ TokenInv /\ SingleUse /\ GrantInv
      /\ callback[c].pc = "idle" /\ callback[c].email = None
  BY DEF IInv, TokenInv, OpenLink
<1>1. PICK r \in mailed : callback' = [callback EXCEPT ![c] =
            [pc |-> "consume", token |-> r, email |-> None]]
  BY DEF OpenLink
<1>2. UNCHANGED <<now, rate, token, session, link, mailed, issued, faults>>
  BY DEF OpenLink
<1> DEFINE cb == [pc |-> "consume", token |-> r, email |-> None]
<1>3. cb \in CallType /\ cb.pc = "consume" /\ cb.token = r /\ cb.email = None
  BY <1>0, Types DEF CallType, CallPC
<1> HIDE DEF cb
<1>4. Becomes(c, cb)
  BY <1>0, <1>1, <1>3, BecomesType DEF cb
<1>5. TypeOK'
  BY <1>0, <1>2, <1>4 DEF TypeOK, Becomes, CallType, Entry
<1>6. TokenInv' /\ SingleUse'
  BY <1>0, <1>2, <1>3, <1>4 DEF TokenInv, SingleUse, Becomes
<1>7. GrantInv'
  <2>1. ASSUME NEW d \in Callbacks PROVE SessionOK(d)'
    <3>1. SessionOK(d)
      BY <1>0 DEF GrantInv
    <3> QED BY <1>0, <1>2, <1>3, <1>4, <3>1 DEF SessionOK, Becomes
  <2> QED BY <1>0, <1>2, <2>1 DEF GrantInv, GrantOK, Invited
<1>8. WindowInv' /\ OrderInv'
  BY <1>0, <1>2, AloneKeeps
<1> QED BY <1>5, <1>6, <1>7, <1>8 DEF IInv

\* The one who gets the address out of a token deletes it in the same command.
LEMMA ConsumeInv ==
    ASSUME IInv, NEW c \in Callbacks, Consume(c)
    PROVE  IInv'
<1> DEFINE r0    == callback[c].token
           entry == token[r0]
<1>0. /\ TypeOK /\ TokenInv /\ SingleUse /\ GrantInv /\ callback[c].pc = "consume"
      /\ r0 \in mailed /\ r0 \in Requests
  BY DEF IInv, TokenInv, TypeOK, Consume
<1>1. PICK res \in CallResults :
        /\ Call(res)
        /\ token' = IF res = "failed" \/ ~Live(entry) THEN token ELSE Consumed(r0)
        /\ callback' = [callback EXCEPT
              ![c].pc = IF res # "ok" THEN "error"
                        ELSE IF Live(entry) THEN "create" ELSE "unauthorized",
              ![c].email = IF res = "ok" /\ Live(entry) THEN entry.email ELSE None]
  BY DEF Consume
<1>2. UNCHANGED <<now, rate, session, link, mailed, issued>> /\ faults' \in 0 .. MaxFaults
  BY <1>0, <1>1, CallFaults DEF Consume
<1> DEFINE pc    == IF res # "ok" THEN "error" ELSE IF Live(entry) THEN "create" ELSE "unauthorized"
           email == IF res = "ok" /\ Live(entry) THEN entry.email ELSE None
           cb    == [callback[c] EXCEPT !.pc = pc, !.email = email]
<1>3. /\ pc \in CallPC \ {"idle"}
      /\ email # None => email = entry.email /\ res = "ok" /\ Live(entry)
      /\ email \in Emails \cup {None}
  BY <1>0, Types DEF CallPC, Entry
<1>4. callback' = [callback EXCEPT ![c].pc = pc, ![c].email = email]
  BY <1>1
<1> HIDE DEF pc, email
<1>5. cb \in CallType /\ cb.pc = pc /\ cb.token = r0 /\ cb.email = email
  BY <1>0, <1>3, Types DEF CallType
<1>6. callback' = [callback EXCEPT ![c] = cb]
  BY <1>0, <1>4, Types
<1> HIDE DEF cb
<1>7. Becomes(c, cb)
  BY <1>0, <1>5, <1>6, BecomesType
<1>8. /\ token' \in [Requests -> Entry(TokenTTL)]
      /\ \A q \in Requests : token'[q] = token[q] \/ token'[q].email = None
      /\ email # None => token'[r0].email = None /\ token[r0].email # None
  <2>1. NoEntry \in Entry(TokenTTL) /\ NoEntry.email = None
    BY <1>0, AuthConstantsOK, Types DEF NoEntry, Entry
  <2>2. token' = token \/ token' = [token EXCEPT ![r0] = NoEntry]
    BY <1>1 DEF Consumed
  <2>3. email # None => token' = [token EXCEPT ![r0] = NoEntry]
    BY <1>1, <1>3 DEF Consumed
  <2> HIDE DEF NoEntry
  <2> QED BY <1>0, <1>3, <2>1, <2>2, <2>3, Types DEF Live
<1>9. \A d \in Callbacks : callback[d].email # None => callback[d].token \in Requests
  BY <1>0 DEF TokenInv, TypeOK
<1>10. TypeOK'
  BY <1>0, <1>2, <1>7, <1>8 DEF TypeOK, Becomes, CallType, Entry
<1>11. TokenInv'
  <2>1. ASSUME NEW d \in Callbacks
        PROVE  /\ callback'[d].pc \in {"idle", "consume"} => callback'[d].email = None
               /\ callback'[d].pc # "idle" => callback'[d].token \in mailed
               /\ callback'[d].email # None => token'[callback'[d].token].email = None
    <3>1. CASE d = c
      <4>1. pc = "consume" => email = None
        BY DEF pc
      <4> QED BY <1>0, <1>3, <1>5, <1>7, <1>8, <3>1, <4>1 DEF Becomes
    <3>2. CASE d # c
      <4>1. callback'[d] = callback[d]
        BY <1>7, <3>2 DEF Becomes
      <4>2. /\ callback[d].pc \in {"idle", "consume"} => callback[d].email = None
            /\ callback[d].pc # "idle" => callback[d].token \in mailed
            /\ callback[d].email # None => token[callback[d].token].email = None
        BY <1>0 DEF TokenInv
      <4>3. callback[d].email # None => token'[callback[d].token].email = None
        BY <1>8, <1>9, <4>2
      <4> QED BY <4>1, <4>2, <4>3
    <3> QED BY <3>1, <3>2
  <2> QED BY <1>0, <1>2, <2>1 DEF TokenInv
<1>12. SingleUse'
  <2>1. email # None => \A d \in Callbacks \ {c} : callback[d].email # None => callback[d].token # r0
    BY <1>0, <1>8 DEF TokenInv
  <2> QED BY <1>0, <1>5, <1>7, <2>1 DEF SingleUse, Becomes
<1>13. GrantInv'
  <2>1. ASSUME NEW q \in Requests PROVE GrantOK(q)'
    BY <1>0, <1>2, <1>8 DEF GrantInv, GrantOK, Invited
  <2>2. session[c].email = None
    BY <1>0 DEF TokenInv, GrantInv, SessionOK
  <2>3. ASSUME NEW d \in Callbacks PROVE SessionOK(d)'
    <3>1. SessionOK(d) /\ GrantOK(r0)
      BY <1>0 DEF GrantInv
    <3> QED BY <1>0, <1>2, <1>3, <1>5, <1>7, <2>2, <3>1 DEF SessionOK, GrantOK, Becomes
  <2> QED BY <2>1, <2>3 DEF GrantInv
<1>14. WindowInv' /\ OrderInv'
  BY <1>0, <1>2, AloneKeeps
<1> QED BY <1>10, <1>11, <1>12, <1>13, <1>14 DEF IInv

\* A callback that has nothing to do with a token any more: only its session and
\* its place change.
LEMMA SessionStepInv ==
    ASSUME IInv, NEW c \in Callbacks, NEW pc \in CallPC \ {"idle", "consume"},
           callback[c].pc \in {"create", "in"}, CallGoto(c, pc),
           session' \in [Callbacks -> Entry(SessionTTL)],
           session'[c].email \in {None, session[c].email, callback[c].email},
           \A d \in Callbacks \ {c} : session'[d] = session[d],
           UNCHANGED <<now, rate, token, link, mailed, issued>>, faults' \in 0 .. MaxFaults
    PROVE  IInv'
<1>0. TypeOK /\ TokenInv /\ SingleUse /\ GrantInv
  BY DEF IInv
<1> DEFINE cb == [callback[c] EXCEPT !.pc = pc]
<1>1. /\ cb \in CallType /\ cb.pc = pc
      /\ cb.token = callback[c].token /\ cb.email = callback[c].email
  BY <1>0, Types DEF CallType
<1>2. callback' = [callback EXCEPT ![c] = cb]
  BY <1>0, Types DEF CallGoto
<1> HIDE DEF cb
<1>3. Becomes(c, cb)
  BY <1>0, <1>1, <1>2, BecomesType
<1>4. TypeOK'
  BY <1>0, <1>3 DEF TypeOK, Becomes, CallType, Entry
<1>5. TokenInv'
  <2>1. \A d \in Callbacks : callback'[d].token = callback[d].token
                            /\ callback'[d].email = callback[d].email
    BY <1>1, <1>3 DEF Becomes
  <2>2. \A d \in Callbacks : callback'[d].pc \in {"idle", "consume"} => callback'[d].pc = callback[d].pc
    BY <1>1, <1>3 DEF Becomes
  <2>3. \A d \in Callbacks : callback'[d].pc # "idle" => callback[d].pc # "idle"
    BY <1>1, <1>3 DEF Becomes
  <2>4. /\ \A d \in Callbacks : callback'[d].pc \in {"idle", "consume"} => callback'[d].email = None
        /\ \A d \in Callbacks : callback'[d].pc # "idle" => callback'[d].token \in mailed
    BY <1>0, <2>1, <2>2, <2>3 DEF TokenInv
  <2>5. \A d \in Callbacks : callback'[d].email # None => token'[callback'[d].token].email = None
    BY <1>0, <2>1 DEF TokenInv
  <2>6. \A r \in mailed' : link'[r].pc = "sent"
    BY <1>0 DEF TokenInv
  <2> QED BY <2>4, <2>5, <2>6 DEF TokenInv
<1>6. SingleUse'
  BY <1>0, <1>1, <1>3 DEF SingleUse, Becomes
<1>7. GrantInv'
  <2>1. ASSUME NEW d \in Callbacks PROVE SessionOK(d)'
    <3>1. SessionOK(d)
      BY <1>0 DEF GrantInv
    <3> QED BY <1>1, <1>3, <3>1 DEF SessionOK, Becomes
  <2> QED BY <1>0, <2>1 DEF GrantInv, GrantOK, Invited
<1>8. WindowInv' /\ OrderInv'
  BY <1>0, AloneKeeps
<1> QED BY <1>4, <1>5, <1>6, <1>7, <1>8 DEF IInv

LEMMA CreateSessionInv ==
    ASSUME IInv, NEW c \in Callbacks, CreateSession(c)
    PROVE  IInv'
<1>0. TypeOK /\ callback[c].pc = "create"
  BY DEF IInv, CreateSession
<1>1. PICK res \in CallResults :
        /\ Call(res)
        /\ session' = IF res = "failed" THEN session
                      ELSE [session EXCEPT ![c] = [email |-> callback[c].email,
                                                   expires |-> now + SessionTTL]]
        /\ CallGoto(c, IF res = "ok" THEN "in" ELSE "error")
  BY DEF CreateSession
<1>2. [email |-> callback[c].email, expires |-> now + SessionTTL] \in Entry(SessionTTL)
  BY <1>0, AuthConstantsOK, Types DEF Entry, CallType
<1>3. /\ session' \in [Callbacks -> Entry(SessionTTL)]
      /\ session'[c].email \in {session[c].email, callback[c].email}
      /\ \A d \in Callbacks \ {c} : session'[d] = session[d]
  BY <1>0, <1>1, <1>2, Types
<1>4. PICK pc \in {"in", "error"} : CallGoto(c, pc)
  BY <1>1
<1>5. UNCHANGED <<now, rate, token, link, mailed, issued>> /\ faults' \in 0 .. MaxFaults
  BY <1>0, <1>1, CallFaults DEF CreateSession
<1> QED BY <1>0, <1>3, <1>4, <1>5, SessionStepInv DEF CallPC

LEMMA LogoutInv ==
    ASSUME IInv, NEW c \in Callbacks, Logout(c)
    PROVE  IInv'
<1>0. TypeOK /\ callback[c].pc = "in" /\ CallGoto(c, "out")
  BY DEF IInv, Logout
<1>1. PICK res \in CallResults :
        /\ Call(res)
        /\ session' = IF res = "failed" THEN session ELSE [session EXCEPT ![c] = NoEntry]
  BY DEF Logout
<1>2. NoEntry \in Entry(SessionTTL) /\ NoEntry.email = None
  BY <1>0, AuthConstantsOK, Types DEF NoEntry, Entry
<1> HIDE DEF NoEntry
<1>3. /\ session' \in [Callbacks -> Entry(SessionTTL)]
      /\ session'[c].email \in {None, session[c].email}
      /\ \A d \in Callbacks \ {c} : session'[d] = session[d]
  BY <1>0, <1>1, <1>2, Types
<1>4. UNCHANGED <<now, rate, token, link, mailed, issued>> /\ faults' \in 0 .. MaxFaults
  BY <1>0, <1>1, CallFaults DEF Logout
<1> QED BY <1>0, <1>3, <1>4, SessionStepInv DEF CallPC

-----------------------------------------------------------------------------
(* The clock, and the whole system *)

LEMMA TickInv ==
    ASSUME IInv, Tick
    PROVE  IInv'
<1>0. TypeOK /\ TokenInv /\ SingleUse /\ GrantInv
  BY DEF IInv
<1>1. now < MaxTime /\ now' = now + 1
      /\ UNCHANGED <<rate, token, session, link, callback, mailed, issued, faults>>
  BY DEF Tick
<1>2. TypeOK'
  <2>1. ASSUME NEW ttl \in Nat PROVE Entry(ttl) \subseteq Entry(ttl)'
    BY <1>0, <1>1, Types DEF Entry
  <2>2. token' \in [Requests -> Entry(TokenTTL)'] /\ session' \in [Callbacks -> Entry(SessionTTL)']
    BY <1>0, <1>1, <2>1, Types, AuthConstantsOK
  <2>3. now' \in 0 .. MaxTime
    BY <1>0, <1>1, AuthConstantsOK DEF TypeOK
  <2> QED BY <1>0, <1>1, <2>2, <2>3 DEF TypeOK
<1>3. TokenInv' /\ SingleUse'
  BY <1>0, <1>1 DEF TokenInv, SingleUse
<1>4. GrantInv'
  BY <1>0, <1>1 DEF GrantInv, GrantOK, SessionOK, Invited
<1>5. WindowInv' /\ OrderInv'
  BY <1>0, <1>1, AloneKeeps
<1> QED BY <1>2, <1>3, <1>4, <1>5 DEF IInv

LEMMA InitInv == Init => IInv
<1> SUFFICES ASSUME Init PROVE IInv
  OBVIOUS
<1>1. TypeOK
  <2>1. Never \in 0 .. Never /\ now = 0
    BY AuthConstantsOK DEF Never, Init
  <2>2. NoEntry \in Entry(TokenTTL) /\ NoEntry \in Entry(SessionTTL)
    BY <2>1, AuthConstantsOK DEF NoEntry, Entry
  <2>3. token \in [Requests -> Entry(TokenTTL)] /\ session \in [Callbacks -> Entry(SessionTTL)]
    BY <2>2 DEF Init
  <2> QED BY <2>1, <2>3, AuthConstantsOK DEF Init, TypeOK, LinkPC, CallPC
<1>2. TokenInv /\ SingleUse
  BY DEF Init, TokenInv, SingleUse
<1>3. GrantInv
  BY DEF Init, GrantInv, GrantOK, SessionOK, NoEntry
<1>4. ASSUME NEW e \in Emails, NEW s \in Nat PROVE WindowOK(e, s)
  <2>1. Passed(e, s) = {} /\ Late(e, s) = {}
    BY DEF Init, Passed, Late, Held
  <2>2. Cardinality(Passed(e, s)) = 0 /\ Cardinality(Late(e, s)) = 0
    BY <2>1, FS_EmptySet
  <2> QED BY <2>1, <2>2, AuthConstantsOK DEF WindowOK, Init
<1>5. OrderInv
  BY DEF Init, OrderInv, KeyOK, CountedOK, PairOK, Held
<1> QED BY <1>1, <1>2, <1>3, <1>4, <1>5 DEF IInv, WindowInv

LEMMA StepInv == IInv /\ [Next]_vars => IInv'
<1> SUFFICES ASSUME IInv, [Next]_vars PROVE IInv'
  OBVIOUS
<1>1. ASSUME NEW r \in Requests, RequestMagicLink(r) \/ IssueTestToken(r) PROVE IInv'
  BY <1>1, BeginInv
<1>2. ASSUME NEW r \in Requests, Incr(r) PROVE IInv'
  BY <1>2, IncrInv
<1>3. ASSUME NEW r \in Requests, Expire(r) PROVE IInv'
  BY <1>3, ExpireInv
<1>4. ASSUME NEW r \in Requests, Store(r) PROVE IInv'
  BY <1>4, StoreInv
<1>5. ASSUME NEW r \in Requests, SendMagicLink(r) PROVE IInv'
  BY <1>5, SendInv
<1>6. ASSUME NEW c \in Callbacks, OpenLink(c) PROVE IInv'
  BY <1>6, OpenLinkInv
<1>7. ASSUME NEW c \in Callbacks, Consume(c) PROVE IInv'
  BY <1>7, ConsumeInv
<1>8. ASSUME NEW c \in Callbacks, CreateSession(c) PROVE IInv'
  BY <1>8, CreateSessionInv
<1>9. ASSUME NEW c \in Callbacks, Logout(c) PROVE IInv'
  BY <1>9, LogoutInv
<1>10. CASE Tick
  BY <1>10, TickInv
<1>11. CASE UNCHANGED vars
  <2>1. UNCHANGED <<now, rate, token, session, link, callback, mailed, issued, faults>>
    BY <1>11 DEF vars
  <2>2. TypeOK'
    BY <2>1 DEF IInv, TypeOK, Entry
  <2>3. TokenInv' /\ SingleUse'
    BY <2>1 DEF IInv, TokenInv, SingleUse
  <2>4. GrantInv'
    BY <2>1 DEF IInv, GrantInv, GrantOK, SessionOK, Invited
  <2>5. WindowInv' /\ OrderInv'
    BY <2>1, AloneKeeps
  <2> QED BY <2>2, <2>3, <2>4, <2>5 DEF IInv
<1> QED BY <1>1, <1>2, <1>3, <1>4, <1>5, <1>6, <1>7, <1>8, <1>9, <1>10, <1>11 DEF Next

LEMMA Invariant == Spec => []IInv
BY InitInv, StepInv, PTL DEF Spec

-----------------------------------------------------------------------------
(* The results *)

\* Every variable has its type; no token and no session is stored beyond the
\* time to live its SET gives it.
THEOREM TypeCorrect == Spec => []TypeOK
<1>1. IInv => TypeOK
  BY DEF IInv
<1> QED BY <1>1, Invariant, PTL

\* consumeScript lets one callback at most have a token's address, however many
\* open the link at once and whatever is lost.
THEOREM TokensSingleUse == Spec => []SingleUse
<1>1. IInv => SingleUse
  BY DEF IInv
<1> QED BY <1>1, Invariant, PTL

\* Who has a session was sent the link for it and, unless the test endpoint issued
\* the token, is on the allowlist: the address is never mixed up on the way.
THEOREM SessionsAreInvited == Spec => []SessionsInvited
<1>1. IInv => SessionsInvited
  <2> SUFFICES ASSUME IInv, NEW c \in Callbacks, session[c].email # None
               PROVE  /\ session[c].email = link[callback[c].token].email
                      /\ link[callback[c].token].test \/ session[c].email \in Allowed
    BY DEF SessionsInvited
  <2>1. /\ callback[c].token \in issued
        /\ session[c].email = link[callback[c].token].email
    BY DEF IInv, GrantInv, SessionOK
  <2>2. callback[c].token \in Requests
    BY <2>1 DEF IInv, TypeOK
  <2>3. GrantOK(callback[c].token)
    BY <2>2 DEF IInv, GrantInv
  <2> QED BY <2>1, <2>3 DEF GrantOK, Invited
<1> QED BY <1>1, Invariant, PTL

\* A window meets two keys of one address at most.  If it meets two, it begins after
\* the first moment of the earlier, so that one of the requests counted on that is
\* outside.
LEMMA TwoKeys ==
    ASSUME IInv, RateLimitPerDay > 0, NEW e \in Emails, NEW t \in 0 .. MaxTime
    PROVE  Cardinality(IssuedIn(e, t)) < 2 * RateLimitPerDay
<1> DEFINE S == IssuedIn(e, t)
<1>0. /\ TypeOK /\ WindowInv /\ OrderInv /\ RateLimitPerDay \in Nat
      /\ RateLimitWindow \in Nat \ {0} /\ t \in Nat
  BY AuthConstantsOK DEF IInv
<1>1. ASSUME NEW r \in S
      PROVE  /\ r \in Requests /\ Held(r) /\ link[r].email = e
             /\ link[r].since \in Nat /\ link[r].at \in Nat
             /\ t <= link[r].at /\ link[r].at < t + RateLimitWindow
             /\ link[r].since <= link[r].at
  <2>1. /\ r \in Requests /\ Held(r) /\ link[r].email = e
        /\ link[r].at \in t .. t + RateLimitWindow - 1
    BY <1>0, Types DEF IssuedIn, Held
  <2>2. CountedOK(r) /\ link[r] \in LinkType
    BY <1>0, <2>1, Types DEF OrderInv
  <2> QED BY <1>0, <2>1, <2>2 DEF CountedOK, LinkType
<1>2. ASSUME NEW r \in S, NEW q \in S, link[r].since < link[q].since
      PROVE  Before(link[r].since, link[r].at, link[q].since)
  <2>1. PairOK(r, q)
    BY <1>0, <1>1 DEF OrderInv
  <2> QED BY <1>1, <1>2, <2>1 DEF PairOK
<1>3. ASSUME NEW a \in Nat
      PROVE  /\ Cardinality(Passed(e, a)) <= RateLimitPerDay
             /\ Cardinality(Late(e, a)) < RateLimitPerDay
  BY <1>0 DEF WindowInv, WindowOK
<1> HIDE DEF S
<1>4. CASE \E a \in Nat : \A r \in S : link[r].since = a
  <2>1. PICK a \in Nat : \A r \in S : link[r].since = a
    BY <1>4
  <2>2. S \subseteq Passed(e, a)
    BY <1>1, <2>1 DEF Passed
  <2>3. Cardinality(S) <= Cardinality(Passed(e, a)) /\ Cardinality(S) \in Nat
    BY <2>2, PassedFinite, FS_Subset, FS_CardinalityType
  <2> QED BY <1>0, <1>3, <2>3, PassedFinite DEF S
<1>5. CASE \E r, q \in S : link[r].since < link[q].since
  <2>1. PICK r \in S, q \in S : link[r].since < link[q].since
    BY <1>5
  <2> DEFINE a == link[r].since
             b == link[q].since
  <2>2. a \in Nat /\ b \in Nat /\ a < b
    BY <1>1, <2>1
  <2> HIDE DEF a, b
  <2>3. ASSUME NEW u \in S PROVE link[u].since \in {a, b}
    <3>1. link[u].since \in Nat /\ link[u].at \in Nat
      BY <1>1
    <3>2. CASE link[u].since < a
      <4>1. Before(link[u].since, link[u].at, a) /\ Before(a, link[r].at, b)
        BY <1>2, <2>1, <3>2 DEF a, b
      <4> QED BY <1>0, <1>1, <2>2, <3>1, <4>1 DEF Before, b
    <3>3. CASE a < link[u].since /\ link[u].since < b
      <4>1. Before(a, link[r].at, link[u].since) /\ Before(link[u].since, link[u].at, b)
        BY <1>2, <3>3 DEF a, b
      <4> QED BY <1>0, <1>1, <2>2, <3>1, <4>1 DEF Before, b
    <3>4. CASE b < link[u].since
      <4>1. Before(a, link[r].at, b) /\ Before(b, link[q].at, link[u].since)
        BY <1>2, <2>1, <3>4 DEF a, b
      <4> QED BY <1>0, <1>1, <2>2, <3>1, <4>1 DEF Before
    <3> QED BY <2>2, <3>1, <3>2, <3>3, <3>4
  <2>4. \A u \in S : link[u].since = a => link[u].at > a
    <3>1. Before(a, link[r].at, b) /\ b < t + RateLimitWindow
      BY <1>0, <1>1, <1>2, <2>1 DEF a, b
    <3>2. a < t
      BY <1>0, <2>2, <3>1 DEF Before
    <3> QED BY <1>0, <1>1, <2>2, <3>2
  <2>5. S \subseteq Late(e, a) \cup Passed(e, b)
    BY <1>1, <2>3, <2>4 DEF Late, Passed
  <2>6. /\ IsFiniteSet(Late(e, a) \cup Passed(e, b))
        /\ Cardinality(Late(e, a) \cup Passed(e, b)) <= Cardinality(Late(e, a)) + Cardinality(Passed(e, b))
    <3>1. /\ IsFiniteSet(Late(e, a) \cap Passed(e, b))
          /\ Cardinality(Late(e, a) \cap Passed(e, b)) \in Nat
      BY PassedFinite, FS_Subset, FS_CardinalityType
    <3>2. Cardinality(Late(e, a) \cup Passed(e, b))
            = Cardinality(Late(e, a)) + Cardinality(Passed(e, b)) - Cardinality(Late(e, a) \cap Passed(e, b))
      BY PassedFinite, FS_Union
    <3> QED BY <3>1, <3>2, PassedFinite, FS_Union
  <2>7. /\ Cardinality(S) \in Nat /\ Cardinality(Late(e, a) \cup Passed(e, b)) \in Nat
        /\ Cardinality(S) <= Cardinality(Late(e, a) \cup Passed(e, b))
    BY <2>5, <2>6, FS_Subset, FS_CardinalityType
  <2> QED BY <1>0, <1>3, <2>2, <2>6, <2>7, PassedFinite DEF S
<1>6. (\E a \in Nat : \A r \in S : link[r].since = a) \/ \E r, q \in S : link[r].since < link[q].since
  <2>1. CASE S = {}
    BY <2>1
  <2>2. CASE S # {}
    <3>1. PICK r \in S : TRUE
      BY <2>2
    <3>2. link[r].since \in Nat /\ \A q \in S : link[q].since \in Nat
      BY <1>1
    <3>3. CASE \A q \in S : link[q].since = link[r].since
      BY <3>2, <3>3
    <3>4. CASE \E q \in S : link[q].since # link[r].since
      BY <3>2, <3>4
    <3> QED BY <3>3, <3>4
  <2> QED BY <2>1, <2>2
<1> QED BY <1>4, <1>5, <1>6

\* However requests for an address interleave, wait, fail and outlive their key,
\* Issue grants it less than twice the limit in any window.
THEOREM RollingIsBounded == Spec => []RollingBound
<1>1. IInv => RollingBound
  BY TwoKeys DEF RollingBound
<1> QED BY <1>1, Invariant, PTL

-----------------------------------------------------------------------------
(* The time to live of a rate key *)

\* The request that is to set the key's time to live, or failed to.
Owes(q) == link[q].pc \in {"expire", "error"}

\* What is owed on a key stays owed as long as the key is without a time to live.
LEMMA OwesFrame ==
    ASSUME OnlyErrorsLockOut, UNCHANGED rate,
           \A q \in Requests : Owes(q) => /\ Owes(q)' /\ link'[q].email = link[q].email
                                          /\ link'[q].since = link[q].since
    PROVE  OnlyErrorsLockOut'
BY DEF OnlyErrorsLockOut, Owes

LEMMA IncrOwes ==
    ASSUME IInv, OnlyErrorsLockOut, NEW r \in Requests, Incr(r)
    PROVE  OnlyErrorsLockOut'
<1> DEFINE e0  == link[r].email
           key == Bumped(rate[e0])
<1>0. TypeOK /\ link[r].pc = "incr" /\ e0 \in Emails /\ r \in Requests
  BY DEF IInv, GrantInv, GrantOK, Incr, LinkAt
<1>1. PICK res \in CallResults :
        /\ rate' = IF res = "failed" THEN rate ELSE [rate EXCEPT ![e0] = key]
        /\ link' = [link EXCEPT
              ![r].pc = IF res = "ok" THEN NextAfterIncr(key.count) ELSE "error",
              ![r].since = key.since, ![r].at = now]
  BY DEF Incr
<1>2. /\ \/ key.since = rate[e0].since /\ key.expires = rate[e0].expires /\ rate[e0].count > 0
         \/ key.count = 1
  <2>1. rate[e0] \in KeyType
    BY <1>0, Types
  <2> QED BY <2>1 DEF Bumped, KeyType
<1> HIDE DEF key
<1>3. /\ link'[r].email = e0 /\ link'[r].since = key.since
      /\ res # "failed" /\ key.count = 1 => link'[r].pc \in {"expire", "error"}
      /\ \A q \in Requests \ {r} : link'[q] = link[q]
  BY <1>0, <1>1, Types DEF NextAfterIncr, CallResults, LinkType
<1>4. \A e \in Emails : rate'[e] = IF e = e0 /\ res # "failed" THEN key ELSE rate[e]
  BY <1>0, <1>1, Types
<1> SUFFICES ASSUME NEW e \in Emails, rate'[e].count > 0, rate'[e].expires = Never
             PROVE  \E q \in Requests : /\ link'[q].email = e /\ link'[q].since = rate'[e].since
                                        /\ link'[q].pc \in {"expire", "error"}
  BY DEF OnlyErrorsLockOut, Never
<1>5. CASE rate[e].count > 0 /\ rate[e].expires = Never /\ rate'[e].since = rate[e].since
  <2>1. PICK q \in Requests : /\ link[q].email = e /\ link[q].since = rate[e].since
                              /\ link[q].pc \in {"expire", "error"}
    BY <1>5 DEF OnlyErrorsLockOut
  <2>2. q # r
    BY <1>0, <2>1
  <2> QED BY <1>3, <1>5, <2>1, <2>2
<1>6. CASE e = e0 /\ res # "failed" /\ key.count = 1
  BY <1>0, <1>3, <1>4, <1>6
<1> QED BY <1>2, <1>4, <1>5, <1>6

LEMMA ExpireOwes ==
    ASSUME IInv, OnlyErrorsLockOut, NEW r \in Requests, Expire(r)
    PROVE  OnlyErrorsLockOut'
<1>0. TypeOK /\ link[r].pc = "expire" /\ link[r].email \in Emails
  BY DEF IInv, GrantInv, GrantOK, Expire, LinkAt
<1>1. PICK res \in CallResults :
        /\ rate' = IF res = "failed" THEN rate
                   ELSE [rate EXCEPT ![link[r].email].expires = now + RateLimitWindow]
        /\ LinkGoto(r, IF res # "ok" THEN "error" ELSE IF OverLimit(1) THEN "limited" ELSE "store")
  BY DEF Expire
<1>2. PICK pc \in {"error", "limited", "store"} : LinkGoto(r, pc) /\ (res = "failed" => pc = "error")
  BY <1>1
<1>3. Moves(r, pc)
  BY <1>0, <1>2, GotoMoves DEF LinkPC
<1>4. CASE res = "failed"
  <2>1. UNCHANGED rate
    BY <1>1, <1>4
  <2>2. \A q \in Requests : Owes(q) => /\ Owes(q)' /\ link'[q].email = link[q].email
                                       /\ link'[q].since = link[q].since
    BY <1>2, <1>3, <1>4 DEF Owes, Moves
  <2> QED BY <2>1, <2>2, OwesFrame
<1>5. CASE res # "failed"
  <2>1. \A e \in Emails : /\ e = link[r].email => rate'[e].expires = now + RateLimitWindow
                          /\ e # link[r].email => rate'[e] = rate[e]
    BY <1>0, <1>1, <1>5, Types DEF KeyType
  <2>2. now + RateLimitWindow # Never
    BY <1>0, Types, AuthConstantsOK DEF Never
  <2>3. \A q \in Requests : q # r => link'[q] = link[q]
    BY <1>3 DEF Moves
  <2> SUFFICES ASSUME NEW e \in Emails, rate'[e].count > 0, rate'[e].expires = Never
               PROVE  \E q \in Requests : /\ link'[q].email = e /\ link'[q].since = rate'[e].since
                                          /\ link'[q].pc \in {"expire", "error"}
    BY DEF OnlyErrorsLockOut, Never
  <2>4. e # link[r].email /\ rate'[e] = rate[e]
    BY <2>1, <2>2
  <2>5. PICK q \in Requests : /\ link[q].email = e /\ link[q].since = rate[e].since
                              /\ link[q].pc \in {"expire", "error"}
    BY <2>4 DEF OnlyErrorsLockOut
  <2> QED BY <2>3, <2>4, <2>5
<1> QED BY <1>4, <1>5

\* The other steps change no rate key, and no request that owes.
LEMMA OtherOwes ==
    ASSUME IInv, OnlyErrorsLockOut, UNCHANGED rate, NEW r \in Requests, ~Owes(r),
           \A q \in Requests \ {r} : link'[q] = link[q]
    PROVE  OnlyErrorsLockOut'
<1>1. \A q \in Requests : Owes(q) => /\ Owes(q)' /\ link'[q].email = link[q].email
                                     /\ link'[q].since = link[q].since
  BY DEF Owes
<1> QED BY <1>1, OwesFrame

LEMMA StepOwes == IInv /\ OnlyErrorsLockOut /\ [Next]_vars => OnlyErrorsLockOut'
<1> SUFFICES ASSUME IInv, OnlyErrorsLockOut, [Next]_vars PROVE OnlyErrorsLockOut'
  OBVIOUS
<1>1. ASSUME NEW r \in Requests,
             RequestMagicLink(r) \/ IssueTestToken(r) \/ Store(r) \/ SendMagicLink(r)
      PROVE  OnlyErrorsLockOut'
  <2>1. UNCHANGED rate /\ ~Owes(r)
    BY <1>1 DEF RequestMagicLink, IssueTestToken, Store, SendMagicLink, LinkAt, Owes
  <2>2. \A q \in Requests \ {r} : link'[q] = link[q]
    BY <1>1, Types DEF IInv, RequestMagicLink, IssueTestToken, Store, SendMagicLink, Begin, LinkGoto
  <2> QED BY <2>1, <2>2, OtherOwes
<1>2. ASSUME NEW r \in Requests, Incr(r) PROVE OnlyErrorsLockOut'
  BY <1>2, IncrOwes
<1>3. ASSUME NEW r \in Requests, Expire(r) PROVE OnlyErrorsLockOut'
  BY <1>3, ExpireOwes
<1>4. ASSUME UNCHANGED <<rate, link>> PROVE OnlyErrorsLockOut'
  BY <1>4, OwesFrame DEF Owes
<1>5. ASSUME NEW c \in Callbacks, OpenLink(c) \/ Consume(c) \/ CreateSession(c) \/ Logout(c)
      PROVE  OnlyErrorsLockOut'
  BY <1>4, <1>5 DEF OpenLink, Consume, CreateSession, Logout
<1>6. CASE Tick \/ UNCHANGED vars
  BY <1>4, <1>6 DEF Tick, vars
<1> QED BY <1>1, <1>2, <1>3, <1>5, <1>6 DEF Next

\* A rate key is left without a time to live by nothing but a request that ended in
\* an error after it was counted.
THEOREM LockOutIsByError == Spec => []OnlyErrorsLockOut
<1>1. Init => OnlyErrorsLockOut
  BY DEF Init, OnlyErrorsLockOut
<1> QED BY <1>1, StepOwes, Invariant, PTL DEF Spec
=============================================================================
