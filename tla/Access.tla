-------------------------------- MODULE Access ------------------------------
(***************************************************************************)
(* A protected request: the auth middleware extracts the bearer token, the *)
(* JWT verifier turns it into an identity, and the handler asks the casbin *)
(* authorizer.  The verifier's configuration is fixed by New; the policy   *)
(* behind the enforcer changes while requests are served.                  *)
(***************************************************************************)
EXTENDS Integers, Sequences, FiniteSetsExt

CONSTANTS Configs,    \* what New may be called with
          Tokens,     \* what clients present
          Requests,   \* the request goroutines
          Objects     \* the resources, [type, id], each a sequence of characters

ASSUME AccessAssumption ==
  /\ Tokens # {} /\ Objects # {}
  /\ \A tok \in Tokens : tok.exp \in Int /\ tok.nbf \in Int
  /\ \A c \in Configs : /\ c.leeway \in Int
                        /\ DOMAIN c.keys = 1 .. Len(c.keys)
                        /\ \A i \in DOMAIN c.keys :
                             c.keys[i].family \in {"hmac", "rsa", "ecdsa"} /\ c.keys[i].size \in Int

VARIABLES config,    \* the configuration the verifier was built from
          policy,    \* the (subject, object string) pairs the enforcer allows
          request,   \* each request: its state, credentials, resource and outcome
          said       \* history: what the policy said of the request since it arrived

accessVars == <<config, policy, request, said>>

Absent == -1      \* a time claim the token does not carry
Unset == "unset"  \* an option that was not given

HS == {"HS256", "HS384", "HS512"}
RS == {"RS256", "RS384", "RS512"}

\* hmacKeyBytes: the secret is at least as long as the hash.
hmacKeyBytes == [HS256 |-> 32, HS384 |-> 48, HS512 |-> 64]

\* resolveKey: the algorithms of the key's family, none for a bad key.  The
\* size is the modulus of an RSA key and the curve of an ECDSA key.
resolveKey(key) ==
  CASE key.family = "hmac" -> HS
    [] key.family = "rsa" -> IF key.valid /\ key.size >= 2048 THEN RS ELSE {}
    [] key.family = "ecdsa" ->
         IF ~key.valid THEN {}
         ELSE CASE key.size = 256 -> {"ES256"} [] key.size = 384 -> {"ES384"}
                [] key.size = 521 -> {"ES512"} [] OTHER -> {}

\* effectiveAlgs: a list that is empty or names a stranger is refused.
effectiveAlgs(c) ==
  LET family == resolveKey(c.keys[1]) IN
  IF c.algs = {Unset} THEN family
  ELSE IF c.algs \subseteq family THEN c.algs ELSE {}

\* Mutation: the shortest of the algorithms' floors.
maxHMACKeyBytesMin(algs) == Min({hmacKeyBytes[a] : a \in algs})

maxHMACKeyBytes(algs) == Max({hmacKeyBytes[a] : a \in algs})

NoConfig == [keys |-> <<>>, algs |-> {Unset}, issuer |-> Unset, audience |-> Unset, leeway |-> 0]

\* New: a configuration that fails one of the checks builds no verifier, and
\* the middleware is built over the verifier.
New(c) ==
  /\ config = NoConfig
  /\ Len(c.keys) = 1
  /\ effectiveAlgs(c) # {}
  /\ c.keys[1].family = "hmac" => c.keys[1].size >= maxHMACKeyBytes(effectiveAlgs(c))
  /\ c.issuer # "" /\ c.audience # ""
  /\ config' = c
  /\ UNCHANGED <<policy, request, said>>

Leeway == IF config.leeway > 0 THEN config.leeway ELSE 0

\* golang-jwt (external): exp and nbf with the leeway, iss and aud if required.
Expired(tok, now) == tok.exp # Absent /\ now >= tok.exp + Leeway

ClaimsInvalid(tok, now) ==
  \/ tok.exp = Absent
  \/ tok.nbf # Absent /\ now < tok.nbf - Leeway
  \/ config.issuer \notin {Unset, tok.iss}
  \/ config.audience # Unset /\ config.audience \notin tok.aud

\* Verify: methods, signature, all claims together, then the subject.
\* mapVerifyError: any expiry among the claim errors makes it expired.
Verify(tok, now) ==
  IF tok.alg \notin effectiveAlgs(config) \/ tok.signer # config.keys[1].owner THEN "invalid"
  ELSE IF Expired(tok, now) THEN "expired"
  ELSE IF ClaimsInvalid(tok, now) \/ tok.sub = "" THEN "invalid"
  ELSE "ok"

NoRequest == [pc |-> "none", shape |-> "none",
              token |-> CHOOSE tok \in Tokens : TRUE, object |-> CHOOSE obj \in Objects : TRUE,
              since |-> 0, gone |-> FALSE, status |-> 0, challenge |-> "none"]

AccessInit ==
  /\ config = NoConfig
  /\ policy = {}
  /\ request = [r \in Requests |-> NoRequest]
  /\ said = [r \in Requests |-> {}]

\* defaultRequestBuilder: "Type:ID", or "Type" for a collection.  Roles and
\* tenant play no part, and the action is fixed.
requestBuilder(sub, obj) ==
  <<sub, IF obj.id = <<>> THEN obj.type ELSE obj.type \o <<":">> \o obj.id>>

Tuple(r) == requestBuilder(request[r].token.sub, request[r].object)

Arrive(r, shape, tok, obj, now) ==
  /\ config # NoConfig
  /\ request[r].pc = "none"
  /\ request' = [request EXCEPT ![r] = [pc |-> "extract", shape |-> shape, token |-> tok, object |-> obj,
                                        since |-> now, gone |-> FALSE, status |-> 0, challenge |-> "none"]]
  /\ said' = [said EXCEPT ![r] = {(requestBuilder(tok.sub, obj) \in policy)}]
  /\ UNCHANGED <<config, policy>>

Respond(r, status, challenge) ==
  /\ request' = [request EXCEPT ![r].pc = "answered", ![r].status = status, ![r].challenge = challenge]
  /\ UNCHANGED <<config, policy, said>>

Continue(r, pc) ==
  /\ request' = [request EXCEPT ![r].pc = pc]
  /\ UNCHANGED <<config, policy, said>>

\* Authorization headers without a usable token.
Unusable == {"none", "twice", "other scheme", "empty", "spaced"}

\* defaultBearerExtractor: one Authorization header, "Bearer", one token.
Extract(r) ==
  /\ request[r].pc = "extract"
  /\ IF request[r].shape \in Unusable THEN Respond(r, 401, "Bearer") ELSE Continue(r, "verify")

\* Mutation: every error of Verify is a bad token.
RespondUncoded(r) == Respond(r, 401, "invalid_token")

\* An error without a code, such as that of the context, is a 500.
RespondInternal(r) == Respond(r, 500, "none")

\* Verify, and defaultErrorResponder for its errors.
Authenticate(r, now) ==
  /\ request[r].pc = "verify"
  /\ IF request[r].gone THEN RespondInternal(r)
     ELSE IF Verify(request[r].token, now) = "ok" THEN Continue(r, "authorize")
     ELSE Respond(r, 401, "invalid_token")

\* Enforce's two results: an error is returned as it is, false is forbidden.
Enforce(r, ok, failed) ==
  IF failed THEN RespondInternal(r)
  ELSE IF ok THEN Continue(r, "served") ELSE Respond(r, 403, "none")

\* Allow: the resource's type, the context, then the policy of this moment.  An
\* identity from Verify has a subject, so it is not the zero identity.
Authorize(r) ==
  /\ request[r].pc = "authorize"
  /\ IF request[r].object.type = <<>> THEN Respond(r, 400, "none")
     ELSE IF request[r].gone THEN RespondInternal(r)
     ELSE \E failed \in BOOLEAN : Enforce(r, Tuple(r) \in policy, failed)

Finish(r) ==
  /\ request[r].pc \in {"served", "answered"}
  /\ request' = [request EXCEPT ![r] = NoRequest]
  /\ said' = [said EXCEPT ![r] = {}]
  /\ UNCHANGED <<config, policy>>

\* The client goes away.
Abandon(r) ==
  /\ request[r].pc \in {"extract", "verify", "authorize"}
  /\ ~request[r].gone
  /\ request' = [request EXCEPT ![r].gone = TRUE]
  /\ UNCHANGED <<config, policy, said>>

\* Somebody edits the policy.
EditPolicy ==
  /\ \E e \in {requestBuilder(sub, obj) : sub \in {tok.sub : tok \in Tokens} \ {""}, obj \in Objects} :
       policy' = IF e \in policy THEN policy \ {e} ELSE policy \cup {e}
  /\ said' = [r \in Requests |-> IF request[r].pc \in {"extract", "verify", "authorize"}
                                 THEN said[r] \cup {Tuple(r) \in policy'} ELSE said[r]]
  /\ UNCHANGED <<config, request>>

Serving(r, now) == Extract(r) \/ Authenticate(r, now) \/ Authorize(r) \/ Finish(r)

AccessNext(now) ==
  \/ EditPolicy \/ \E c \in Configs : New(c)
  \/ \E r \in Requests :
       \/ Serving(r, now) \/ Abandon(r)
       \/ \E tok \in Tokens, obj \in Objects : Arrive(r, "bearer", tok, obj, now)
       \/ \E shape \in Unusable, obj \in Objects : Arrive(r, shape, NoRequest.token, obj, now)

-----------------------------------------------------------------------------
(* Properties                                                              *)

\* A token the configured issuer signed for this service, with an algorithm it
\* was configured for and a key long enough for it.
Genuine(tok) ==
  LET key == config.keys[1] IN
  /\ tok.signer = key.owner
  /\ tok.alg \in resolveKey(key) /\ (config.algs = {Unset} \/ tok.alg \in config.algs)
  /\ config.issuer \in {Unset, tok.iss}
  /\ config.audience = Unset \/ config.audience \in tok.aud
  /\ tok.sub # "" /\ tok.exp # Absent

\* A request is served only if its token is genuine, was signed under a key no
\* shorter than RFC 7518 asks for, had not expired when the request arrived,
\* and the policy allowed the request at a moment since: a permission revoked
\* before the request arrived is not honoured.
ServedIsEntitled ==
  \A r \in Requests : request[r].pc = "served" =>
    LET tok == request[r].token IN
    /\ Genuine(tok)
    /\ tok.alg \in HS => config.keys[1].size >= hmacKeyBytes[tok.alg]
    /\ request[r].since < tok.exp + Leeway
    /\ TRUE \in said[r]

\* Nobody is turned away without cause: a 401 says whether a credential was
\* missing or bad, a genuine token that was valid from the arrival of the
\* request to now is never the one refused, and 403 means that the policy
\* forbade the request at a moment since it arrived.
RefusedForCause(now) ==
  \A r \in Requests : request[r].pc = "answered" =>
    LET tok == request[r].token IN
    /\ request[r].challenge = "Bearer" => request[r].shape # "bearer"
    /\ request[r].challenge = "invalid_token" =>
         \/ ~Genuine(tok)
         \/ now >= tok.exp + Leeway
         \/ tok.nbf # Absent /\ request[r].since < tok.nbf - Leeway
    /\ request[r].status = 403 => FALSE \in said[r]
=============================================================================
