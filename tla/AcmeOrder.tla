----------------------------- MODULE AcmeOrder -----------------------------
(***************************************************************************)
(* The ACME order client of src/acme/src/lib.rs: several `Order` handles  *)
(* created from one `Account` (they share the account key and `Client`,   *)
(* each keeps its own replay-nonce slot and cached `OrderState`), driven  *)
(* by a caller that may call any public method in any order, against a    *)
(* certificate authority (CA) that issues and consumes nonces, validates  *)
(* challenges, issues certificates and lets orders and nonces expire.     *)
(*                                                                         *)
(* One call of an `async fn` on a handle is one step, except the two      *)
(* calls that await several requests: `authorizations()` (one step per    *)
(* authorization fetched) and `certificate()` (poll, then download).      *)
(* A handle is `&mut`, so its calls never overlap; calls on different     *)
(* handles and CA steps interleave freely.                                *)
(***************************************************************************)
EXTENDS Naturals, FiniteSets

CONSTANTS
    Handles,        \* the Order values created from the one Account
    Authzs,         \* authorization URLs of an order, one per identifier
    Nonces,         \* replay nonces the CA can hand out
    NoNonce,        \* Option::None in a nonce slot
    EmptyNonce,     \* "" : what nonce_from_response yields for a header that is not visible ASCII
    HeadNonce,      \* the nonce a HEAD to newNonce returned inside Client::nonce
    MalformedNonceHeader,  \* the CA may send a Replay-Nonce that to_str() rejects
    MissingNonceHeader,    \* the CA may omit Replay-Nonce from a reply
    MissingLocation        \* the CA may omit Location from a newOrder reply

ASSUME /\ Authzs # {} /\ Cardinality(Nonces) > Cardinality(Handles)
       /\ {NoNonce, EmptyNonce, HeadNonce} \cap Nonces = {}
       /\ MalformedNonceHeader \in BOOLEAN /\ MissingNonceHeader \in BOOLEAN
       /\ MissingLocation \in BOOLEAN

VARIABLES
    order,      \* CA side: status of the order resource behind each handle
    challenge,  \* CA side: status of the challenge of each authorization
    valid,      \* CA side: nonces issued and neither consumed nor expired
    expired,    \* CA side: nonces issued, never consumed, expired by the CA
    nonce,      \* Order.nonce
    state,      \* Order.state.status ("none": new_order has not produced the handle)
    pc,         \* the multi-request call in progress on the handle
    left,       \* authorizations still to fetch in authorizations()
    ret         \* what the last call on the handle returned

vars == <<order, challenge, valid, expired, nonce, state, pc, left, ret>>

OrderStatus == {"pending", "ready", "processing", "valid", "invalid"}
ChallengeStatus == {"pending", "processing", "valid", "invalid"}
Slot == Nonces \cup {NoNonce, EmptyNonce}
Returns == {"none", "Ok", "Err", "NoUrl", "NotReady", "Cert", "InvalidState"}

TypeOK ==
    /\ order \in [Handles -> {"none"} \cup OrderStatus]
    /\ challenge \in [Handles -> [Authzs -> ChallengeStatus]]
    /\ valid \subseteq Nonces /\ expired \subseteq Nonces
    /\ nonce \in [Handles -> Slot]
    /\ state \in [Handles -> {"none"} \cup OrderStatus]
    /\ pc \in [Handles -> {"idle", "authz", "cert"}]
    /\ left \in [Handles -> 0..Cardinality(Authzs)]
    /\ ret \in [Handles -> Returns]

Init ==
    /\ order = [h \in Handles |-> "none"]
    /\ challenge = [h \in Handles |-> [a \in Authzs |-> "pending"]]
    /\ valid = {} /\ expired = {}
    /\ nonce = [h \in Handles |-> NoNonce]
    /\ state = [h \in Handles |-> "none"]
    /\ pc = [h \in Handles |-> "idle"]
    /\ left = [h \in Handles |-> 0]
    /\ ret = [h \in Handles |-> "none"]

-----------------------------------------------------------------------------
(* Requests.                                                               *)

\* A Replay-Nonce header that to_str() rejects becomes "" (unwrap_or_default)
Malformed == IF MalformedNonceHeader THEN {EmptyNonce} ELSE {}

\* Client::nonce: the nonce a request of h goes out with. A cached nonce is
\* reused; otherwise a HEAD to newNonce supplies one.
OutgoingNonce(h) ==
    IF nonce[h] # NoNonce THEN {nonce[h]} ELSE {HeadNonce} \cup Malformed

\* Client::nonce fails (non-200 or no Replay-Nonce on the HEAD reply): the
\* call returns the error before any POST, its nonce slot already taken.
NonceFetchFails(h) ==
    /\ nonce[h] = NoNonce
    /\ ret' = [ret EXCEPT ![h] = "Err"]
    /\ pc' = [pc EXCEPT ![h] = "idle"]
    /\ left' = [left EXCEPT ![h] = 0]
    /\ UNCHANGED <<order, challenge, valid, expired, nonce, state>>

\* nonce_from_response on a reply to h: a nonce the CA issues (one no other
\* handle holds), "" for a malformed header, None for a missing one.
ReplyNonces(h) ==
    (Nonces \ {nonce[g] : g \in Handles \ {h}})
        \cup Malformed \cup (IF MissingNonceHeader THEN {NoNonce} ELSE {})

\* The CA accepts a request whose nonce it issued and has not consumed.
Accepts(u) == u = HeadNonce \/ u \in valid

\* Client::post: a request with nonce u is lost before the CA sees it, or
\* reaches the CA and its reply is lost, or is answered. ok: the CA performed
\* the operation, possible only when it accepts the nonce and pre holds.
Outcomes(h, u, pre) ==
    {[d |-> "lost", ok |-> FALSE, rn |-> NoNonce]}
    \cup {[d |-> "unanswered", ok |-> ok, rn |-> NoNonce] :
              ok \in IF Accepts(u) /\ pre THEN BOOLEAN ELSE {FALSE}}
    \cup {[d |-> "answered", ok |-> ok, rn |-> rn] :
              ok \in IF Accepts(u) /\ pre THEN BOOLEAN ELSE {FALSE},
              rn \in ReplyNonces(h)}

\* Problem::check: the reply is a resource (not a problem document)
Success(r) == r.d = "answered" /\ r.ok

\* CA nonce bookkeeping: a request that reached the CA consumes its nonce,
\* and its reply carries a fresh one.
SpendNonce(u, r) ==
    IF r.d = "lost" THEN UNCHANGED <<valid, expired>>
    ELSE /\ valid' = (valid \ {u}) \cup ({r.rn} \cap Nonces)
         /\ expired' = expired \ {u, r.rn}

Idle(h) == pc[h] = "idle" /\ state[h] # "none"

\* OrderState fields the CA fills in: an error on an invalid order, a
\* certificate URL on a valid one.
HasError(s) == s = "invalid"
HasCertUrl(s) == s = "valid"

-----------------------------------------------------------------------------
(* Account::new_order: POST to newOrder with no cached nonce; the handle   *)
(* exists only if Problem::check accepts the reply.                        *)

\* Whether the reply carries a Location header (a usable order URL)
Locations == IF MissingLocation THEN BOOLEAN ELSE {TRUE}

\* Mutant of NewOrderVerdict: the order URL is checked before Problem::check
NewOrderVerdictUrlFirst(r, loc) ==
    IF ~loc THEN "NoUrl" ELSE IF ~Success(r) THEN "Err" ELSE "Ok"

\* The Order literal: Problem::check::<OrderState>(rsp)? is evaluated
\* before order_url.ok_or("no order URL found")?
NewOrderVerdict(r, loc) ==
    IF ~Success(r) THEN "Err" ELSE IF ~loc THEN "NoUrl" ELSE "Ok"

NewOrder(h) ==
    /\ state[h] = "none"
    /\ \/ NonceFetchFails(h)
       \/ \E u \in OutgoingNonce(h) : \E r \in Outcomes(h, u, TRUE) : \E loc \in Locations :
            LET v == NewOrderVerdict(r, loc) IN
            /\ SpendNonce(u, r)
            /\ order' = IF r.ok THEN [order EXCEPT ![h] = "pending"] ELSE order
            /\ challenge' = IF r.ok THEN [challenge EXCEPT ![h] = [a \in Authzs |-> "pending"]]
                            ELSE challenge
            /\ state' = IF v = "Ok" THEN [state EXCEPT ![h] = "pending"] ELSE state
            /\ nonce' = IF v = "Ok" THEN [nonce EXCEPT ![h] = r.rn] ELSE nonce
            /\ ret' = [ret EXCEPT ![h] = v]
            /\ UNCHANGED <<pc, left>>

-----------------------------------------------------------------------------
(* Order methods that send one POST-as-GET or one POST and thread the     *)
(* nonce: take it, send, store the reply's nonce, then Problem::check.     *)

\* AccountInner::get of a resource the CA only reads
Get(h, u, r) ==
    /\ SpendNonce(u, r)
    /\ nonce' = [nonce EXCEPT ![h] = r.rn]
    /\ UNCHANGED <<order, challenge>>

\* Order::authorizations: fetch each authorization in turn
AuthorizationsStart(h) ==
    /\ Idle(h)
    /\ pc' = [pc EXCEPT ![h] = "authz"]
    /\ left' = [left EXCEPT ![h] = Cardinality(Authzs)]
    /\ UNCHANGED <<order, challenge, valid, expired, nonce, state, ret>>

\* Mutant of AuthorizationGet: the loop runs once past the last authorization
AuthorizationGetOffByOne(h) ==
    /\ pc[h] = "authz"
    /\ \/ NonceFetchFails(h)
       \/ \E u \in OutgoingNonce(h) : \E r \in Outcomes(h, u, TRUE) :
            /\ Get(h, u, r)
            /\ UNCHANGED state
            /\ left' = [left EXCEPT ![h] = IF Success(r) THEN @ - 1 ELSE 0]
            /\ pc' = [pc EXCEPT ![h] = IF Success(r) /\ left[h] > 0 THEN "authz" ELSE "idle"]
            /\ ret' = [ret EXCEPT ![h] = IF ~Success(r) THEN "Err"
                                          ELSE IF left[h] > 0 THEN @ ELSE "Ok"]

AuthorizationGet(h) ==
    /\ pc[h] = "authz"
    /\ \/ NonceFetchFails(h)
       \/ \E u \in OutgoingNonce(h) : \E r \in Outcomes(h, u, TRUE) :
            /\ Get(h, u, r)
            /\ UNCHANGED state
            /\ left' = [left EXCEPT ![h] = IF Success(r) THEN @ - 1 ELSE 0]
            /\ pc' = [pc EXCEPT ![h] = IF Success(r) /\ left[h] > 1 THEN "authz" ELSE "idle"]
            /\ ret' = [ret EXCEPT ![h] = IF ~Success(r) THEN "Err"
                                          ELSE IF left[h] > 1 THEN @ ELSE "Ok"]

\* Order::challenge
Challenge(h) ==
    /\ Idle(h)
    /\ \/ NonceFetchFails(h)
       \/ \E u \in OutgoingNonce(h) : \E r \in Outcomes(h, u, TRUE) :
            /\ Get(h, u, r)
            /\ ret' = [ret EXCEPT ![h] = IF Success(r) THEN "Ok" ELSE "Err"]
            /\ UNCHANGED <<state, pc, left>>

\* Order::set_challenge_ready: the CA starts validating a pending challenge
SetChallengeReady(h, a) ==
    /\ Idle(h)
    /\ \/ NonceFetchFails(h)
       \/ \E u \in OutgoingNonce(h) : \E r \in Outcomes(h, u, TRUE) :
            /\ SpendNonce(u, r)
            /\ challenge' = IF r.ok /\ challenge[h][a] = "pending"
                            THEN [challenge EXCEPT ![h][a] = "processing"]
                            ELSE challenge
            /\ nonce' = [nonce EXCEPT ![h] = r.rn]
            /\ ret' = [ret EXCEPT ![h] = IF Success(r) THEN "Ok" ELSE "Err"]
            /\ UNCHANGED <<order, state, pc, left>>

\* Mutant of Finalize: the cached status is set to processing once the CA
\* answered, before (without) Problem::check.
FinalizeOptimistic(h) ==
    /\ Idle(h)
    /\ \/ NonceFetchFails(h)
       \/ \E u \in OutgoingNonce(h) : \E r \in Outcomes(h, u, order[h] = "ready") :
            /\ SpendNonce(u, r)
            /\ order' = IF r.ok THEN [order EXCEPT ![h] = "processing"] ELSE order
            /\ nonce' = [nonce EXCEPT ![h] = r.rn]
            /\ state' = IF r.d = "answered" THEN [state EXCEPT ![h] = "processing"] ELSE state
            /\ ret' = [ret EXCEPT ![h] = IF Success(r) THEN "Ok" ELSE "Err"]
            /\ UNCHANGED <<challenge, pc, left>>

\* Mutant of Finalize: the state stored after a successful finalize is the
\* status read before the request
FinalizeStaleState(h) ==
    /\ Idle(h)
    /\ \/ NonceFetchFails(h)
       \/ \E u \in OutgoingNonce(h) : \E r \in Outcomes(h, u, order[h] = "ready") :
            /\ SpendNonce(u, r)
            /\ order' = IF r.ok THEN [order EXCEPT ![h] = "processing"] ELSE order
            /\ nonce' = [nonce EXCEPT ![h] = r.rn]
            /\ state' = IF Success(r) THEN [state EXCEPT ![h] = order[h]] ELSE state
            /\ ret' = [ret EXCEPT ![h] = IF Success(r) THEN "Ok" ELSE "Err"]
            /\ UNCHANGED <<challenge, pc, left>>

\* Order::finalize: the CA takes the CSR of a ready order only
Finalize(h) ==
    /\ Idle(h)
    /\ \/ NonceFetchFails(h)
       \/ \E u \in OutgoingNonce(h) : \E r \in Outcomes(h, u, order[h] = "ready") :
            /\ SpendNonce(u, r)
            /\ order' = IF r.ok THEN [order EXCEPT ![h] = "processing"] ELSE order
            /\ nonce' = [nonce EXCEPT ![h] = r.rn]
            /\ state' = IF Success(r) THEN [state EXCEPT ![h] = order'[h]] ELSE state
            /\ ret' = [ret EXCEPT ![h] = IF Success(r) THEN "Ok" ELSE "Err"]
            /\ UNCHANGED <<challenge, pc, left>>

\* Order::refresh
Refresh(h) ==
    /\ Idle(h)
    /\ \/ NonceFetchFails(h)
       \/ \E u \in OutgoingNonce(h) : \E r \in Outcomes(h, u, TRUE) :
            /\ Get(h, u, r)
            /\ state' = IF Success(r) THEN [state EXCEPT ![h] = order[h]] ELSE state
            /\ ret' = [ret EXCEPT ![h] = IF Success(r) THEN "Ok" ELSE "Err"]
            /\ UNCHANGED <<pc, left>>

-----------------------------------------------------------------------------
(* Order::certificate: poll the order if the cached state is processing,   *)
(* judge the (possibly refreshed) state, then download the certificate.    *)

\* The checks certificate() makes on the order state s, in the code's order
CertificateVerdict(s) ==
    CASE HasError(s)      -> "Err"
      [] s = "processing" -> "NotReady"
      [] s # "valid"      -> "InvalidState"
      [] ~HasCertUrl(s)   -> "Err"
      [] OTHER            -> "Fetch"

\* certificate() goes on after judging state s
Judge(h, s) ==
    /\ pc' = [pc EXCEPT ![h] = IF CertificateVerdict(s) = "Fetch" THEN "cert" ELSE "idle"]
    /\ ret' = [ret EXCEPT ![h] = IF CertificateVerdict(s) = "Fetch" THEN @
                                  ELSE CertificateVerdict(s)]

\* Mutant of Certificate: the cached state is judged without polling
CertificateNoPoll(h) ==
    /\ Idle(h)
    /\ Judge(h, state[h])
    /\ UNCHANGED <<order, challenge, valid, expired, nonce, state, left>>

Certificate(h) ==
    /\ Idle(h)
    /\ IF state[h] = "processing"
       THEN \/ NonceFetchFails(h)
            \/ \E u \in OutgoingNonce(h) : \E r \in Outcomes(h, u, TRUE) :
                 /\ Get(h, u, r)
                 /\ UNCHANGED left
                 /\ IF Success(r)
                    THEN /\ state' = [state EXCEPT ![h] = order[h]]
                         /\ Judge(h, order[h])
                    ELSE /\ ret' = [ret EXCEPT ![h] = "Err"]
                         /\ UNCHANGED <<state, pc>>
       ELSE /\ Judge(h, state[h])
            /\ UNCHANGED <<order, challenge, valid, expired, nonce, state, left>>

\* Mutant of CertificateFetch: the nonce is cloned instead of taken
CertificateFetchKeepsNonce(h) ==
    /\ pc[h] = "cert"
    /\ \/ NonceFetchFails(h)
       \/ \E u \in OutgoingNonce(h) : \E r \in Outcomes(h, u, order[h] = "valid") :
            /\ SpendNonce(u, r)
            /\ pc' = [pc EXCEPT ![h] = "idle"]
            /\ ret' = [ret EXCEPT ![h] = IF Success(r) THEN "Cert" ELSE "Err"]
            /\ UNCHANGED <<order, challenge, state, left, nonce>>

\* The download: the nonce is taken and the reply's nonce is not kept
CertificateFetch(h) ==
    /\ pc[h] = "cert"
    /\ \/ NonceFetchFails(h)
       \/ \E u \in OutgoingNonce(h) : \E r \in Outcomes(h, u, order[h] = "valid") :
            /\ SpendNonce(u, r)
            /\ nonce' = [nonce EXCEPT ![h] = NoNonce]
            /\ pc' = [pc EXCEPT ![h] = "idle"]
            /\ ret' = [ret EXCEPT ![h] = IF Success(r) THEN "Cert" ELSE "Err"]
            /\ UNCHANGED <<order, challenge, state, left>>

-----------------------------------------------------------------------------
(* The CA (RFC 8555), the environment of the client.                       *)

\* The CA validates a challenge the client declared ready; the order becomes
\* ready when all its authorizations are valid, invalid when one fails.
CAValidate(h, a) ==
    /\ challenge[h][a] = "processing"
    /\ \E res \in {"valid", "invalid"} :
         LET ch == [challenge[h] EXCEPT ![a] = res] IN
         /\ challenge' = [challenge EXCEPT ![h] = ch]
         /\ order' = [order EXCEPT ![h] =
                        IF @ # "pending" THEN @
                        ELSE IF res = "invalid" THEN "invalid"
                        ELSE IF \A b \in Authzs : ch[b] = "valid" THEN "ready"
                        ELSE @]
    /\ UNCHANGED <<valid, expired, nonce, state, pc, left, ret>>

\* The CA issues the certificate of a processing order, or fails it
CAIssue(h) ==
    /\ order[h] = "processing"
    /\ \E res \in {"valid", "invalid"} : order' = [order EXCEPT ![h] = res]
    /\ UNCHANGED <<challenge, valid, expired, nonce, state, pc, left, ret>>

\* An order not yet finalized expires
CAExpireOrder(h) ==
    /\ order[h] \in {"pending", "ready"}
    /\ order' = [order EXCEPT ![h] = "invalid"]
    /\ UNCHANGED <<challenge, valid, expired, nonce, state, pc, left, ret>>

\* The CA forgets a nonce it issued (badNonce if it is sent later)
CAExpireNonce(n) ==
    /\ n \in valid
    /\ valid' = valid \ {n}
    /\ expired' = expired \cup {n}
    /\ UNCHANGED <<order, challenge, nonce, state, pc, left, ret>>

-----------------------------------------------------------------------------

Client(h) ==
    \/ NewOrder(h)
    \/ AuthorizationsStart(h) \/ AuthorizationGet(h)
    \/ Challenge(h)
    \/ \E a \in Authzs : SetChallengeReady(h, a)
    \/ Finalize(h)
    \/ Refresh(h)
    \/ Certificate(h) \/ CertificateFetch(h)

CA ==
    \/ \E h \in Handles :
         \/ \E a \in Authzs : CAValidate(h, a)
         \/ CAIssue(h)
         \/ CAExpireOrder(h)
    \/ \E n \in Nonces : CAExpireNonce(n)

Next == (\E h \in Handles : Client(h)) \/ CA

Spec == Init /\ [][Next]_vars

\* The caller awaits the calls it has started and keeps coming back to
\* certificate() whatever else it calls in between (strong fairness: the
\* call is disabled while another call of the handle is in progress); the
\* CA eventually finishes processing an order.
FairSpec ==
    /\ Spec
    /\ \A h \in Handles :
         /\ WF_vars(AuthorizationGet(h))
         /\ WF_vars(CertificateFetch(h))
         /\ SF_vars(Certificate(h))
         /\ WF_vars(CAIssue(h))

-----------------------------------------------------------------------------
(* Properties.                                                             *)

\* Nonce threading (Order.nonce, Client::nonce, nonce_from_response): a
\* nonce slot only ever holds a nonce the CA issued and has not yet consumed,
\* so no request replays a nonce, across all handles of the account and
\* whatever request failed or reply was lost.
NonceSlotsUnspent ==
    \A h \in Handles : nonce[h] \in {NoNonce} \cup valid \cup expired

\* new_order reports the missing order URL only for a reply that
\* Problem::check accepted, so "no order URL found" always means that the
\* CA created an order the caller holds no handle for (the next new_order
\* makes another one); a refused request reports its problem instead.
NoUrlMeansOrphan ==
    \A h \in Handles : ret[h] = "NoUrl" => state[h] = "none" /\ order[h] # "none"

\* Lifecycle rank; "invalid" is reachable from every status
Rank(s) ==
    CASE s = "pending" -> 0 [] s = "ready" -> 1 [] s = "processing" -> 2
      [] s = "valid" -> 3 [] s = "invalid" -> 4

\* The cached OrderState (refresh, finalize, certificate) never runs ahead
\* of the CA's order: it is the CA's status or one the order has left.
CacheNeverAhead ==
    \A h \in Handles :
        state[h] # "none" =>
            \/ state[h] = order[h]
            \/ state[h] # "invalid" /\ Rank(state[h]) < Rank(order[h])

\* Polling: once certificate() has said "not ready yet", a caller that keeps
\* calling it gets the certificate or an error, because certificate()
\* re-reads a processing order before judging it.
PollingEnds ==
    \A h \in Handles :
        ret[h] = "NotReady" ~> ret[h] \in {"Cert", "Err", "InvalidState"}

\* Doc comment of Order::certificate: "If the cached order state is in
\* `ready` or `processing` state, this will poll the server". A call that
\* polled a ready order reports "invalid order state" only if the CA's order
\* is still ready (or has since expired), never while the CA is processing
\* it or has issued the certificate.
ReadyIsPolled ==
    \A h \in Handles :
        ret[h] = "InvalidState" /\ state[h] = "ready" =>
            order[h] \in {"ready", "invalid"}

-----------------------------------------------------------------------------
(* Refinement.                                                             *)

Lifecycle == INSTANCE AcmeOrderLifecycle WITH order <- order, state <- state

\* AcmeOrder implements AcmeOrderLifecycle with order and state as they
\* are: whatever the caller and the CA interleave, every step moves at most
\* one handle's order one RFC 8555 lifecycle step, and a cached state is
\* only ever overwritten with the CA's status of that moment (by
\* new_order, finalize, refresh or certificate's poll), never with a
\* status read earlier or guessed.
LifecycleSpec == Lifecycle!Spec

=============================================================================
