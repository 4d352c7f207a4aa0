# TLA+ models of pingooio/stdx

This directory holds TLA+ models of the parts of this repository that have
state, concurrency or failure handling, the TLC configurations that check
them, and `PROJECT.json`, which lists every component, every run, the
mutants that show each property can catch a bug, the source lines every
definition models, the findings and the hazards.

## 1. Inventory

The tree is a set of independent vendored crates. Only the ACME client has
protocol state; the rest are parsers, iterators and thin wrappers.

| Component | Source | State | Operations | Interacts with |
|---|---|---|---|---|
| acme `Order` | `src/acme/src/lib.rs` 47-184 | nonce slot `Option<String>`, cached `OrderState` (status, authorization URLs, finalize URL, certificate URL, error), order URL | `authorizations`, `challenge`, `set_challenge_ready`, `finalize`, `refresh`, `certificate` (state-changing); `key_authorization`, `state`, `url` (pure) | the shared `AccountInner` (`Arc`), through which every request is signed and sent |
| acme `Account` / `AccountInner` | lib.rs 186-419 | key, account URL (`id`), `Client`; never mutated | `new_order`, `create*`, `from_credentials*`, `from_parts`, `get`, `post`, `Signer::header/sign` | `Client`, `Key`, every `Order` made from it |
| acme `Client` | lib.rs 421-483 | HTTP client, directory URLs (fixed after `new`) | `new` (GET directory), `post` (nonce, JWS, POST), `nonce` (HEAD newNonce) | the CA over HTTP |
| acme `Key`, `ExternalAccountKey`, signers | lib.rs 494-550, 594-628 | keypair, thumbprint; HMAC key | `generate`, `from_pkcs8_der`, `header`, `sign` | `Client::post`, `create_inner` |
| acme `KeyAuthorization` | lib.rs 552-592 | a string | `new`, `as_str`, `digest`, `dns_value` | none (pure) |
| anyerr `Chain` | `src/anyerr/src/chain.rs` | `Linked{next}` or `Buffered{rest}` | `next`, `next_back`, `len`, `default` | the `source()` links of errors |
| anyerr wrappers | `src/anyerr/src/wrapper.rs` | the wrapped value | Display/Debug/source delegation | `Chain`, through `source()` |
| thiserror attributes | `src/thiserror/impl/src/attr.rs` | `Attrs` being filled | `get`, `parse_error_attribute`, `parse_token_expr` | syn's parser |
| ryu exhaustive test | `src/ryu/tests/exhaustive.rs` | atomic `counter`, `finished`; worker threads | claim batch, format batch, add to `finished` | threads share the two atomics |
| uuid serde | `src/uuid/src/serde.rs` | none (visitors) | serialize, deserialize str/bytes/seq | serde |
| cron `Seconds` | `src/cron/src/time_unit/seconds.rs` | optional ordinal set | `ordinals`, `eq` | none |
| crypto wrappers | `src/crypto/src/**` | a hash/HMAC context | `new`, `write`, `sum`, one-shot hashes | aws-lc-rs, sha2 |
| crypto hash and HMAC wrappers | `new`/`write`/`sum` forward to sha2 and aws-lc-rs, and `sum` takes `self`; the wrappers hold no state of their own and only choose the algorithm constant and the output array, which the `hello_world` tests check. A model keeps the library's context and the bytes written in step by the same assignments, so it could only compare two tables of constants. `hash::Sha512::hash`/`sum` panic on a caller slice that is not 64 bytes long (hazard, no property) |
| docker example | `src/docker/src/*.rs` | none | one request | Docker daemon |

**What is hard.** In the ACME client: the replay-nonce is threaded by hand
through every call (take, send, store the reply's nonce), across requests that
can be lost, replies that can be lost, problem replies, missing or malformed
`Replay-Nonce` headers and nonces the CA lets expire; several `Order`s of one
account run concurrently; the cached `OrderState` goes stale whenever a reply is
lost; polling for the certificate is left to the caller. In `Chain`: mixing
`next` and `next_back` switches representation mid-iteration. In the ryu test:
threads race on one counter, and the last batch ends at `u32::MAX`. In
`attr::get`: duplicate-attribute detection with a `continue` that skips some
attributes.

**What makes each correct.**
- `Order`/`Client`: a nonce slot only ever holds a nonce the CA issued and has
  not consumed (no replay), whatever fails; the cache never claims progress the
  CA has not made; a caller polling `certificate()` eventually gets an answer;
  `certificate()` behaves as its doc comment says.
- `Account`: credentials restore through the directory URL when present and the
  legacy snapshot otherwise; the account key signs with a nonce, the EAB key
  without; problem documents are reported before missing-header errors.
- `Chain`: every cause is yielded exactly once, front items in order, back
  items in reverse order, and `len` is the number not yet yielded.
- ryu test: every value is formatted exactly once and every worker stops.
- `attr::get`: an attribute list is accepted iff it has no duplicate of a kind
  that is checked.
- uuid serde: a Uuid written in one mode and read in either never comes back
  as a different Uuid; a short sequence is reported with its true length.

## 2. Plan

Ordered by importance. Done in sitting 1: steps 1 to 6; sitting 2: step 7, the `new_order` missing-Location path of step 1 and the anyerr wrappers in step 4. Sitting 3: `Display::to_tokens` in step 6. Sitting 4: termination checked in the same run as the safety of step 5; the crypto wrappers were modelled and then dropped (see Not modelled); the `Key::from_pkcs8_der` failure of `from_credentials`.

1. **AcmeOrder** (done): the `Order` methods, `Account::new_order`,
   `Client::post`/`nonce`, `nonce_from_response`, against a CA environment.
2. **AcmeAccount** (done): `create_inner`, `from_credentials`, `from_parts`,
   `Client::new`; properties: restoration rule of `AccountCredentials`, error
   precedence, credentials name registered accounts. Left: compose the
   restored account with AcmeOrder (an account restored from a stale URL
   snapshot posting to old endpoints).
3. **AcmeOrderLifecycle** and a refinement (done): the abstract order
   lifecycle (RFC 8555 transitions, the cache only takes the CA's current
   status), `AcmeOrder!Lifecycle` instantiates it and `LifecycleSpec` is
   checked as a PROPERTY.
4. **ErrorChain** (done): `Chain` as a state machine over every acyclic
   cause list of up to four errors, every interleaving of `next`/`next_back`,
   `len` in every state, against the reference cause list.
5. **ExhaustiveBatches** (done): the ryu worker threads with a scaled-down
   width (`% 2^w`); exactly-once coverage and termination.
6. **ThiserrorAttrs / ThiserrorTokenExpr** (done): `attr::get` as one action
   per branch of its loop, `parse_token_expr` as a RECURSIVE operator, each
   checked against a reference definition over bounded inputs.
7. **UuidSerde** (done): serialize in both modes, both visitors, `visit_seq`
   element by element; round trip across modes and a reference reader.
8. **Next candidates**: the AcmeAccount–AcmeOrder composition (step 2:
   what an account restored from a URL snapshot does is already fixed by
   `RestoreUsesCurrentDirectory`; composing adds only the CA's treatment of
   retired endpoints, which is not code of this repository);
   cron `Seconds::eq` (`None` and the full set are
   equal).

## 3. AcmeOrder

`AcmeOrder.tla` models one `Account` with a set `Handles` of `Order` values.
State:

| Variable | Code |
|---|---|
| `nonce[h]` | `Order.nonce`; `NoNonce` is `None`, `EmptyNonce` is `Some("")` |
| `state[h]` | `Order.state.status` (`"none"` before `new_order` returned it); the error and certificate fields are functions of it (`HasError`, `HasCertUrl`) as a conformant CA fills them |
| `pc[h]`, `left[h]` | where a multi-request call is: the `authorizations()` loop, or `certificate()` between its poll and its download |
| `ret[h]` | what the last call returned (`Ok`, `Err`, `Ok(None)` = `NotReady`, `Ok(Some)` = `Cert`, `Err("invalid order state")` = `InvalidState`) |
| `order`, `challenge`, `valid`, `expired` | the CA: order and challenge statuses, nonces issued and unspent, nonces it expired |

Actions: `NewOrder`, `AuthorizationsStart`/`AuthorizationGet`, `Challenge`,
`SetChallengeReady`, `Finalize`, `Refresh`, `Certificate`/`CertificateFetch`
(one per method; a call is one step because a handle is `&mut` and its calls
never overlap; only the calls that await several requests are split). Every
request goes through `OutgoingNonce` (`Client::nonce`: reuse the slot or HEAD
newNonce, which may fail: `NonceFetchFails`) and `Outcomes` (`Client::post`:
lost before the CA, reply lost after the CA acted, or answered with a resource
or a problem document; the reply's nonce from `ReplyNonces` =
`nonce_from_response`). The CA actions (`CAValidate`, `CAIssue`,
`CAExpireOrder`, `CAExpireNonce`) are the environment and model no code of this
repository. A HEAD nonce is consumed by the request it was fetched for in the
same step, so it is the constant `HeadNonce`; the CA's pool of nonces is
recycled (a nonce no handle holds may be handed out again), which keeps the
state space finite without a counter.

### Runs

| Run | cfg | Checks | Shows |
|---|---|---|---|
| acme_orders | `MCAcmeOrder.cfg` | `TypeOK`, `NonceSlotsUnspent`, `CacheNeverAhead`, `NoUrlMeansOrphan`, PROPERTY `LifecycleSpec` | two handles, one authorization each, three nonces, missing Replay-Nonce and Location headers allowed, symmetry over handles and nonces: no spent nonce is ever held, the cache never runs ahead, "no order URL found" is reported only for an order the CA created, and AcmeOrder implements AcmeOrderLifecycle (≈351k states, about a minute) |
| acme_polling | `MCAcmeOrder_live.cfg` | `PollingEnds` | one handle, two authorizations (the loop runs twice), two nonces, `FairSpec`: polling terminates |
| acme_malformed_nonce | `MCAcmeOrder_malformed.cfg` | `NonceSlotsUnspent` | violation: a malformed `Replay-Nonce` becomes `""` in the slot (lib.rs:639) |
| acme_ready_polled | `MCAcmeOrder_ready.cfg` | `ReadyIsPolled` | violation: finalize's reply lost, `certificate()` on cached `ready` says "invalid order state" while the CA is processing (lib.rs:117 vs the doc comment at lib.rs:111) |

**new_order.** The reply of newOrder may lack a `Location` header
(`MissingLocation`). `NewOrderVerdict` follows the field order of the `Order`
literal (lib.rs:339-347): `Problem::check` first, the order URL second. A reply
without Location after the CA created the order leaves an orphan order at the
CA and no handle (`NoUrlMeansOrphan`; the mutant checks the URL first).

**Refinement.** `AcmeOrderLifecycle.tla` is what the client promises
about an order, with no nonces, requests or challenges: per handle the CA's
`order` and the cached `state`, and three steps. `Create` (newOrder while no
handle exists: a fresh pending order replaces an orphan of an unanswered
request, the handle may come with it), `Step` (one RFC 8555 transition of the
CA's order, the cache of the handle possibly taking the new status at once, as
`finalize` does), `Observe` (the cache takes the CA's current status, as
`refresh` and `certificate()`'s poll do). The mapping is the identity on
`order` and `state`; the other variables are hidden. `LifecycleSpec` is
stronger than `CacheNeverAhead`: a cache that goes back to a status the order
has left (the mutant `FinalizeStaleState` stores the status read before
`finalize`) keeps the invariant but breaks the refinement.

**Bounds.** Two handles are enough for the one interaction between orders (the
nonce pool); three nonces leave one free whatever the two handles hold. One
authorization per order in the safety run keeps it under a minute; the liveness
run uses two so that the `authorizations()` loop iterates. Statuses and
outcomes are enumerated completely.

**Fairness.** `FairSpec` assumes the caller awaits calls it started
(`WF` on `AuthorizationGet`, `CertificateFetch`), keeps coming back to
`certificate()` whatever else it calls (`SF` on `Certificate`, since other
calls of the handle disable it for a while), and that the CA finishes
processing (`WF` on `CAIssue`). The code has no timer or retry of its own
(spec §5), so nothing stronger is justified; transport failures need no
fairness because every failure ends the call with an error.

**Not modelled here.** Error kinds beyond the outcomes above; expiry of a HEAD
nonce between the HEAD and the POST (same effect as a problem reply, which is
modelled); a CA that omits the certificate URL; UTF-8
decoding of the certificate; the content of authorizations and challenges
(only their statuses matter to the properties).

## 4. AcmeAccount

`AcmeAccount.tla` models the calls that make an `Account`, against a CA that
may require external account binding (EAB) and may publish a new directory
document. State:

| Variable | Code |
|---|---|
| `stored` | the `AccountCredentials` the caller persisted: `directory` (server URL present), `urls` (0 = `None`, v = snapshot of directory version v); `by` is a history variable naming the code that wrote them |
| `account` | the `AccountInner` the caller holds: id, key, and the directory version its `Client` fetched (`DirectoryUrls` never changes afterwards) |
| `last`, `ret` | the last call and the kind of its result (`Api` = `Error::Api`, `NoUrl` = "failed to get account URL", `NoServerUrls`, `Nonce` = the newNonce errors, `Transport`, `Crypto`) |
| `reply` | the newAccount reply the last create received (status and whether it had `Location`) |
| `directory`, `registered`, `generated` | the CA's directory version and registered keys; the keys `Key::generate` returned |

Actions: `CreateWithHttp(eab)` (`Client::new` then `CreateInner`: key
generation, EAB JWS, `Client::post`, `CreateVerdict`, `NewCredentials`),
`FromCredentials` (`Key::from_pkcs8_der` failing with `Error::CryptoKey`,
then the three arms of the `match` at lib.rs:379), `FromParts`,
and the CA's `CAPublishDirectory`. The caller may start with credentials an
older version wrote or that it deserialized from any file (`LegacyCreds`: all
four combinations of the two optional fields).

| Run | cfg | Checks | Shows |
|---|---|---|---|
| acme_accounts | `MCAcmeAccount.cfg` | `TypeOK`, `CredentialsRegistered`, `ErrorPrecedence`, `RestoreUsesCurrentDirectory` | two keys (two creates), EAB required, `Location` may be missing, two directory versions: persisted credentials and the held account always name an account the CA registered; a problem document is reported before a missing `Location`; credentials written by `create` restore onto the directory the CA serves at restore time (3,818 states) |
| acme_credentials_exactly_one | `MCAcmeAccount_exactlyone.cfg` | `RestoreNeedsExactlyOne` | violation: credentials with both fields restore through the server URL (lib.rs:380), while spec §3 says exactly one must be present |

**Bounds.** Two keys allow a failed create followed by a successful one; two
directory versions are the least that makes a snapshot stale. No fairness:
every property is a safety property.

## 5. ErrorChain

`ErrorChain.tla` models `Chain` of `src/anyerr/src/chain.rs` (std build).
`chain` is `ChainState` (`Linked(next)` or `Buffered(rest)`); `source` is the
`source()` link of every error, chosen in `Init` among all acyclic link
functions over four errors and never changed, so one run covers every shape of
cause list of length 0 to 4. `Init` is `Chain::new(head)` or
`Chain::default()`. `ChainNext` and `NextBack` are the two methods; `Collect`
is the `while let` loop both `next_back` and `len` run; `LenOf` is `len` (and
`size_hint`). The history variables `front` and `back` record what each end
returned.

The wrappers of `src/anyerr/src/wrapper.rs` take part as errors: `Messages`
are `MessageError`/`DisplayError` values, whose `source()` is the default
`None` (`DefaultSource`); the head may be `Boxed(e)`, a `BoxedError`, whose
`source()` is `e`'s (`Source`) and whose Display and Debug are `e`'s (`Shown`).

| Run | cfg | Checks | Shows |
|---|---|---|---|
| error_chain | `MCErrorChain.cfg` | `TypeOK`, `YieldsEachCauseOnce`, `NoneOnlyWhenExhausted`, `LenIsRemaining` | any mix of `next`/`next_back`, across the switch from Linked to Buffered, yields the reference cause list (`CauseList`, defined by its links without recursion) exactly once, front in order and back reversed; `None` only at the end; `len` is always what is left; a chain made from a `BoxedError` is checked by the same properties through `Source` (796 states, symmetry over the three errors that are not message wrappers) |

Not modelled: a cyclic `source()` (it breaks the `Error` contract; `len` and
`next_back` would loop), and the no-std build, which has no `next_back`.

## 6. ExhaustiveBatches

`ExhaustiveBatches.tla` models the worker threads of `test_exhaustive`
(`src/ryu/tests/exhaustive.rs`). `Claim(w)` is `counter.fetch_add(1) as u32`
and the return past the last batch; `RunBatch(w)` formats the batch
(`BatchValues`, `BatchMax` with the special case of the last batch ending at
`u32::MAX`) and does `finished.fetch_add`; `Joined` is the joins of the test
thread. The formatting itself (ryu) is the library under test and is reduced to
recording which bit patterns were visited. Widths are scaled: 4-bit patterns,
6-bit counters, batches of 3, so there are five full batches and a short last
one, as 2^32 is 4294 batches of 1,000,000 and a short one. Arithmetic is kept
modular (`% 2^Width`, `% 2^CounterWidth`).

| Run | cfg | Checks | Shows |
|---|---|---|---|
| exhaustive_batches | `MCExhaustiveBatches.cfg` | `TypeOK`, `EachValueOnce`, `WorkersReturn` | three threads under weak fairness per thread (the OS runs every runnable thread; no symmetry reduction, as `WorkersReturn` is temporal), 2,249 states: no bit pattern is formatted twice; when all have returned, every one was formatted and `finished` is 2^Width; every worker returns |

## 7. ThiserrorAttrs and ThiserrorTokenExpr

`ThiserrorAttrs.tla` models `attr::get` and `parse_error_attribute`
(`src/thiserror/impl/src/attr.rs`). An attribute is its path, its `Meta` form
and, for `#[error(...)]`, what its arguments are (`transparent`, a string,
a string and arguments, no string). The loop is a state machine: `i` is the
position, `attrs` the `Attrs` slots (the index of the attribute in each),
`result` what `get` returns; there is one action per branch
(`ErrorAttribute`, `PathOnlyAttribute` for `source`/`backtrace`,
`FromAttribute`, `OtherAttribute`, `Finish`). `RefResult`/`RefAttrs` state
the rules per attribute without the loop. `DisplayToTokens` is the last
step: `Display::to_tokens` turns the display slot into `write!` with the
arguments or into the `write_str` fast path, by `requires_fmt_machinery`
(`code`), which is set from the arguments alone (line 116).

`ThiserrorTokenExpr.tla` models `parse_token_expr` as the RECURSIVE operator
`ParseTokenExpr` (the loop with its `begin_expr` flag and the recursive call
for groups), over tokens abstracted to their kind. `Rewritten`/`Rejects`
state the rewriting by position: a dot starts a field access when it opens a
group or follows a token of the `begin_expr` list.

| Run | cfg | Checks | Shows |
|---|---|---|---|
| thiserror_attrs | `MCThiserrorAttrs.cfg` | `GetMatchesReference` | all 4,369 lists of up to three attributes: the first malformed or repeated attribute is the error, else each slot holds its attribute; `#[from(...)]` is ignored; the generated Display uses `write!` exactly for an attribute with arguments |
| thiserror_token_expr | `MCThiserrorTokenExpr.cfg` | `RewritesFieldAccess` | all 120,100 lists of up to three tokens with groups of up to two: exactly the field accesses at the start of an expression are rewritten, and a suffixed tuple index there is an error |

Both runs are computations that return: `CHECK_DEADLOCK FALSE`.

## 8. UuidSerde

`UuidSerde.tla` models `src/uuid/src/serde.rs`. A Uuid is a function from
`1..N` to a small set of byte values (`N` = 16 in the code, 4 in the run, as
the 16 unrolled arms of `visit_seq` are one loop). Variables: `value` (the
Uuid serialized, or `None` for data of another origin), `wmode`/`rmode`
(`is_human_readable()` of serializer and deserializer), `data` (what the
format holds: a string, a byte buffer or a sequence), `pc`, `bytes` (what
`visit_seq` has taken), `result`. Actions: `Serialize`; `Deserialize`, which
dispatches to `UuidVisit` (`deserialize_str(UuidVisitor)`: `visit_str`,
`visit_bytes`, or the start of `visit_seq`) or `UuidBytesVisit`
(`deserialize_bytes(UuidBytesVisitor)`, where serde's default `visit_str` and
`visit_seq` return `invalid_type`); `NextElement` (one `next_element()?` arm,
with its `invalid_length(k)`); `SeqDone` (`Ok(Uuid::from_bytes(bytes))`).
`Uuid::parse_str`, `encode_lower` and `Uuid::from_slice` are uuid-crate code
not in this tree: a string is a Uuid's text or garbage, and `FromSlice`
accepts exactly `N` bytes, as the crate documents.

| Run | cfg | Checks | Shows |
|---|---|---|---|
| uuid_serde | `MCUuidSerde.cfg` | `RoundTrip`, `ReadMatchesReference` | all 16 Uuids written in each mode and read in each, and all strings, buffers and sequences of up to five elements: a round trip fails only for text read compactly and never yields another Uuid; a short sequence fails with its own length, the first element that is no u8 fails the read, and elements after the N-th are not looked at (5,612 states) |

Sequences of up to `N + 1` elements cover the too-short, exact and too-long
cases. The run is a computation that returns: `CHECK_DEADLOCK FALSE`.

## 9. Findings

- `Order::certificate` polls only a cached `processing` state, while its doc
  comment promises polling for `ready` too (run acme_ready_polled).
- `from_credentials` accepts credentials holding both a server URL and a URL
  snapshot, contrary to spec §3 (run acme_credentials_exactly_one).
- A malformed `Replay-Nonce` is stored as the empty nonce and sent on the next
  request (run acme_malformed_nonce; spec §9 leaves this open).

## 10. Not modelled

| Component | Why |
|---|---|
| acme `KeyAuthorization` | `token.thumbprint` formatted once, then SHA-256 and base64url of it: pure conversions by libraries, no state or control |
| acme signer headers (`Signer::header` of `Key`, `AccountInner`, `ExternalAccountKey`) | `Client::post` always passes `Some(nonce)` and `create_inner` always `None` to the EAB signer, so the `debug_assert!`s hold by construction; the JWS contents are not what any property here is about |
| cron `Seconds` | a constant range 0..59 and an `eq` that compares `ordinals()`, so `None` equals the full set; no state |
| crypto hash and HMAC wrappers | `new`/`write`/`sum` forward to sha2 and aws-lc-rs, and `sum` takes `self`; the wrappers hold no state of their own and only choose the algorithm constant and the output array, which the `hello_world` tests check. A model keeps the library's context and the bytes written in step by the same assignments, so it could only compare two tables of constants. `hash::Sha512::hash`/`sum` panic on a caller slice that is not 64 bytes long (hazard, no property) |
| docker example | one HTTP request and a print |
