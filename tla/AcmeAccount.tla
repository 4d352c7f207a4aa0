---------------------------- MODULE AcmeAccount ----------------------------
(***************************************************************************)
(* Account creation and restoration of src/acme/src/lib.rs: Client::new,  *)
(* Account::create_with_http / create_inner (with or without an external  *)
(* account binding), AccountInner::from_credentials and                    *)
(* Account::from_parts, against a CA that may publish a new directory      *)
(* (new endpoint URLs) and may require external account binding. The       *)
(* caller persists the AccountCredentials create returns; it may start     *)
(* with credentials an older version wrote (a URL snapshot, no directory). *)
(* A directory document is named by its version; a Client holds the       *)
(* version it fetched (DirectoryUrls is fixed for the client's life).      *)
(***************************************************************************)
EXTENDS Naturals

CONSTANTS
    Keys,             \* account keys Key::generate can produce
    LegacyKey,        \* the key of the credentials an older version wrote
    MaxDirVersion,    \* how many directory documents the CA publishes in all
    EabRequired,      \* the CA refuses newAccount without external account binding
    MissingLocation,  \* the CA may omit Location from a reply
    NoAccount, NoCreds, NoReply

ASSUME /\ LegacyKey \notin Keys
       /\ MaxDirVersion \in Nat \ {0}
       /\ EabRequired \in BOOLEAN /\ MissingLocation \in BOOLEAN

VARIABLES
    directory,   \* CA: the version of the directory document it serves
    registered,  \* CA: keys of the accounts it registered (account URL = key)
    reply,       \* the newAccount reply of the last create call, if any
    generated,   \* keys Key::generate has returned
    stored,      \* the AccountCredentials the caller persisted
    account,     \* the Account the caller holds
    last,        \* the last call the caller made
    ret          \* the kind of that call's result

vars == <<directory, registered, reply, generated, stored, account, last, ret>>

AllKeys == Keys \cup {LegacyKey}
Versions == 1..MaxDirVersion
\* AccountCredentials {id, key_pkcs8, directory, urls}: directory is the
\* server URL or absent; urls = 0 is None, v > 0 a snapshot of directory v.
\* by is a history variable: which code wrote them.
Creds == [id : AllKeys, key : AllKeys, directory : BOOLEAN,
          urls : 0..MaxDirVersion, by : {"create", "legacy"}]
\* AccountInner {client, key, id}; urls is the version of the client's URLs
Accounts == [id : AllKeys, key : AllKeys, urls : Versions]
Replies == [status : {"created", "problem"}, location : BOOLEAN]
Calls == {"none", "create", "credentials", "parts"}
\* Ok, Error::Api (a problem document), Error::Str (protocol violations:
\* "failed to get account URL", "no server URLs found", the newNonce
\* errors), transport or decoding errors, Error::Crypto / CryptoKey
Results == {"none", "Ok", "Api", "NoUrl", "NoServerUrls", "Nonce",
            "Transport", "Crypto"}

TypeOK ==
    /\ directory \in Versions
    /\ registered \subseteq AllKeys
    /\ reply \in Replies \cup {NoReply}
    /\ generated \subseteq Keys
    /\ stored \in Creds \cup {NoCreds}
    /\ account \in Accounts \cup {NoAccount}
    /\ last \in Calls
    /\ ret \in Results

\* Credentials the caller deserialized from a file it did not get from this
\* version's create: serde accepts either optional field present or absent
LegacyCreds == [id : {LegacyKey}, key : {LegacyKey}, directory : BOOLEAN,
                urls : {0, 1}, by : {"legacy"}]

\* The caller starts with nothing, or with deserialized credentials of an
\* account an older version created (a snapshot of the first directory).
Init ==
    /\ directory = 1
    /\ reply = NoReply
    /\ generated = {}
    /\ account = NoAccount
    /\ last = "none"
    /\ ret = "none"
    /\ \/ stored = NoCreds /\ registered = {}
       \/ stored \in LegacyCreds /\ registered = {LegacyKey}

-----------------------------------------------------------------------------

\* Call c returns error kind; the account handle and the CA are untouched
Fail(c, kind) ==
    /\ last' = c /\ ret' = kind
    /\ UNCHANGED <<directory, registered, generated, stored, account>>

\* The replies the CA may send to a newAccount POST signed by a new key,
\* with (eab) or without an external account binding; a problem document
\* may come with or without a Location header
NewAccountReplies(eab) ==
    { r \in Replies :
        /\ r.status = "created" => (eab \/ ~EabRequired)
        /\ r.status = "created" /\ ~r.location => MissingLocation }

\* Mutant: the account URL is checked before the problem document
CreateVerdictUrlFirst(r) ==
    IF ~r.location THEN "NoUrl"
    ELSE IF r.status = "problem" THEN "Api"
    ELSE "Ok"

\* Mutant: a Location header is taken as success, the body is only read
\* when it is missing
CreateVerdictLocationIsSuccess(r) ==
    IF r.location THEN "Ok"
    ELSE IF r.status = "problem" THEN "Api"
    ELSE "NoUrl"

\* create_inner 291-299 on an answered POST: read Location, then
\* Problem::from_response (Err on a problem document), then the account URL
CreateVerdict(r) ==
    IF r.status = "problem" THEN "Api"
    ELSE IF ~r.location THEN "NoUrl"
    ELSE "Ok"

\* Mutant: credentials carry the URL snapshot, as before version 0.4
NewCredentialsSnapshot(k, v) ==
    [id |-> k, key |-> k, directory |-> FALSE, urls |-> v, by |-> "create"]

\* The AccountCredentials create_inner builds for account k: the server
\* URL, no URL snapshot (v is the client's directory, not written)
NewCredentials(k, v) ==
    [id |-> k, key |-> k, directory |-> TRUE, urls |-> 0, by |-> "create"]

\* Account::create_inner on a client holding directory version v:
\* Key::generate, the EAB JWS if eab, Client::post to newAccount
\* (Client::nonce does a HEAD to newNonce, then the POST), then the verdict
\* on the reply; on Ok the credentials are built (directory, no urls) and the
\* caller persists them.
CreateInner(v, eab) ==
    \E k \in Keys \ generated :
        /\ generated' = generated \cup {k}
        /\ last' = "create"
        /\ UNCHANGED directory
        /\ \/ /\ ret' \in {"Crypto", "Nonce", "Transport"}
              /\ reply' = NoReply
              /\ UNCHANGED <<registered, stored, account>>
           \/ \* the POST reached the CA, which registered k; the reply was lost
              /\ eab \/ ~EabRequired
              /\ registered' = registered \cup {k}
              /\ ret' = "Transport" /\ reply' = NoReply
              /\ UNCHANGED <<stored, account>>
           \/ \E r \in NewAccountReplies(eab) :
                /\ reply' = r
                /\ registered' = IF r.status = "created"
                                 THEN registered \cup {k} ELSE registered
                /\ ret' = CreateVerdict(r)
                /\ IF CreateVerdict(r) = "Ok"
                   THEN /\ stored' = NewCredentials(k, v)
                        /\ account' = [id |-> k, key |-> k, urls |-> v]
                   ELSE UNCHANGED <<stored, account>>

\* Account::create_with_http: Client::new (GET the directory; transport or
\* decoding failure), then create_inner with that client
CreateWithHttp(eab) ==
    \/ Fail("create", "Transport") /\ reply' = NoReply
    \/ CreateInner(directory, eab)

\* The account handle restored by call c, its client on directory version v
Restored(c, v) ==
    /\ account' = [id |-> stored.id, key |-> stored.key, urls |-> v]
    /\ last' = c /\ ret' = "Ok"
    /\ UNCHANGED <<directory, registered, reply, generated, stored>>

\* Mutant: (None, None) falls through to the snapshot arm
FromCredentialsNoEmptyCheck ==
    /\ stored # NoCreds
    /\ \/ Fail("credentials", "Crypto") /\ UNCHANGED reply
       \/ stored.directory /\ Fail("credentials", "Transport") /\ UNCHANGED reply
       \/ stored.directory /\ Restored("credentials", directory)
       \/ ~stored.directory /\ Restored("credentials", stored.urls)

\* AccountInner::from_credentials: Key::from_pkcs8_der on the stored key
\* bytes (Error::CryptoKey when they do not decode; the file may be of any
\* origin), then the client: fetched from the server URL when present
\* (Client::new), else the URL snapshot, else an error
FromCredentials ==
    /\ stored # NoCreds
    /\ \/ Fail("credentials", "Crypto") /\ UNCHANGED reply
       \/ stored.directory /\ Fail("credentials", "Transport") /\ UNCHANGED reply
       \/ stored.directory /\ Restored("credentials", directory)
       \/ ~stored.directory /\ stored.urls # 0 /\ Restored("credentials", stored.urls)
       \/ ~stored.directory /\ stored.urls = 0
          /\ Fail("credentials", "NoServerUrls") /\ UNCHANGED reply

\* Account::from_parts with the stored id and key and the server URL:
\* Key::from_pkcs8_der on the caller's bytes, then Client::new
FromParts ==
    /\ stored # NoCreds
    /\ \/ Fail("parts", "Crypto") /\ UNCHANGED reply
       \/ Fail("parts", "Transport") /\ UNCHANGED reply
       \/ Restored("parts", directory)

\* The CA publishes a new directory document
CAPublishDirectory ==
    /\ directory < MaxDirVersion
    /\ directory' = directory + 1
    /\ UNCHANGED <<registered, reply, generated, stored, account, last, ret>>

Next ==
    \/ \E eab \in BOOLEAN : CreateWithHttp(eab)
    \/ FromCredentials
    \/ FromParts
    \/ CAPublishDirectory

Spec == Init /\ [][Next]_vars

-----------------------------------------------------------------------------

\* Error precedence (create_inner reads the problem document before it
\* requires the Location header): when the CA refused newAccount with a
\* problem document, create returns that API error, never the secondary
\* "failed to get account URL", whatever headers the reply had.
ErrorPrecedence ==
    last = "create" /\ reply # NoReply /\ reply.status = "problem"
        => ret = "Api"

\* The credentials the caller persisted, and the account it holds, always
\* name an account the CA registered: create hands out credentials only for
\* a reply that created an account, whatever the CA answered before.
CredentialsRegistered ==
    /\ stored # NoCreds => stored.id \in registered
    /\ account # NoAccount => account.id \in registered

\* Credentials written by create are restored through the server URL, so a
\* from_credentials that succeeds gives a client on the directory the CA
\* serves now, even after the CA published a new one since create.
RestoreUsesCurrentDirectory ==
    [][ /\ last' = "credentials" /\ ret' = "Ok"
        /\ directory' = directory /\ stored.by = "create"
        => account'.urls = directory ]_vars

\* AccountCredentials as the spec describes them (section 3): exactly one of
\* directory and urls must be present when from_credentials restores an
\* account, else restoration fails.
RestoreNeedsExactlyOne ==
    [][ last' = "credentials" /\ ret' = "Ok" /\ stored' = stored
        => stored.directory # (stored.urls # 0) ]_vars

=============================================================================
