------------------------------ MODULE JwksCache ------------------------------
(***************************************************************************)
(* The key cache of OIDC authentication: one JwksLoader shared by the      *)
(* request threads of a process.  get_key samples the time, refreshes an   *)
(* expired cache, looks the key up and, if it is not there, refreshes once *)
(* more.  _refresh fetches the issuer's document and then assigns _keys    *)
(* and _expires_at, two assignments without a lock: any other thread may   *)
(* run between the sample, the fetch and each of them.                     *)
(*                                                                         *)
(* A document is a set of key ids (the signing keys of the response); the  *)
(* token's signature and claims are the JWT library's.                     *)
(***************************************************************************)
EXTENDS Integers, FiniteSets

CONSTANTS
  Threads,       \* request threads of the process
  Kids,          \* key ids
  FirstKids,     \* the ones published at the start
  Ttl,           \* cache_ttl_seconds
  Slowest,       \* longest time from a thread's sample to its end
  MaxJwksTime    \* bound of the model on the clock

ASSUME JwksAssumption ==
  /\ FirstKids \subseteq Kids
  /\ Ttl \in Nat \ {0}                  \* validated by the constructor
  /\ Slowest \in Nat
  /\ MaxJwksTime \in Nat

VARIABLES
  published,   \* the key ids the issuer publishes now
  withdrawn,   \* kid -> when it was withdrawn, 0 before (ghost)
  elapsed,     \* monotonic()
  keys,        \* _keys
  expiresAt,   \* _expires_at
  request      \* thread -> its get_key in progress

jwksVars == <<published, withdrawn, elapsed, keys, expiresAt, request>>

\* waiting    no request
\* testing    get_key has sampled `now`
\* fetching   _refresh is waiting for the response
\* storing    the response is parsed; expiring: _keys is assigned
\* matching   about to look the key up
Idle == [pc |-> "waiting", kid |-> "none", now |-> 0, retried |-> FALSE, parsed |-> {}]

JwksInit ==
  /\ published = FirstKids
  /\ withdrawn = [k \in Kids |-> 0]
  /\ elapsed = 0
  /\ keys = {}
  /\ expiresAt = 0
  /\ request = [t \in Threads |-> Idle]

Go(t, pc) == request' = [request EXCEPT ![t].pc = pc]
IssuerUnchanged == UNCHANGED <<published, withdrawn, elapsed>>
CacheUnchanged == UNCHANGED <<keys, expiresAt>>
-----------------------------------------------------------------------------
(* Wrong variant for a mutation run: the TTL counts from the response.      *)

ExpiryFromTheEnd(t) ==
  /\ request[t].pc = "expiring"
  /\ expiresAt' = elapsed + Slowest + Ttl
  /\ Go(t, "matching")
  /\ UNCHANGED keys /\ IssuerUnchanged
-----------------------------------------------------------------------------
(* get_key *)

GetKey(t, k) ==
  /\ request[t].pc = "waiting"
  /\ request' = [request EXCEPT ![t] =
       [Idle EXCEPT !.pc = "testing", !.kid = k, !.now = elapsed]]
  /\ CacheUnchanged /\ IssuerUnchanged

TestExpiry(t) ==
  /\ request[t].pc = "testing"
  /\ Go(t, IF request[t].now >= expiresAt THEN "fetching" ELSE "matching")
  /\ CacheUnchanged /\ IssuerUnchanged

\* The response holds what the issuer publishes when it answers.
FetchBody(t) ==
  /\ request[t].pc = "fetching" /\ published # {}
  /\ request' = [request EXCEPT ![t].pc = "storing", ![t].parsed = published]
  /\ CacheUnchanged /\ IssuerUnchanged

\* Unreachable, too large, not JSON, or a document without signing keys.
FetchFails(t) ==
  /\ request[t].pc = "fetching"
  /\ request' = [request EXCEPT ![t] = Idle]
  /\ CacheUnchanged /\ IssuerUnchanged

StoreKeys(t) ==
  /\ request[t].pc = "storing"
  /\ keys' = request[t].parsed
  /\ Go(t, "expiring")
  /\ UNCHANGED expiresAt /\ IssuerUnchanged

StoreExpiry(t) ==
  /\ request[t].pc = "expiring"
  /\ expiresAt' = request[t].now + Ttl
  /\ Go(t, "matching")
  /\ UNCHANGED keys /\ IssuerUnchanged

\* The exact match, or one more refresh from a new sample of the time.
Matches(t) == request[t].pc = "matching" /\ request[t].kid \in keys

Accept(t) ==
  /\ Matches(t)
  /\ request' = [request EXCEPT ![t] = Idle]
  /\ CacheUnchanged /\ IssuerUnchanged

RefreshForRotation(t) ==
  /\ request[t].pc = "matching" /\ ~Matches(t) /\ ~request[t].retried
  /\ request' = [request EXCEPT ![t].pc = "fetching", ![t].now = elapsed, ![t].retried = TRUE]
  /\ CacheUnchanged /\ IssuerUnchanged

Reject(t) ==
  /\ request[t].pc = "matching" /\ ~Matches(t) /\ request[t].retried
  /\ request' = [request EXCEPT ![t] = Idle]
  /\ CacheUnchanged /\ IssuerUnchanged
-----------------------------------------------------------------------------
(* The issuer and time.  Timeouts and the scheduler bound how long a       *)
(* thread may take from a sample of the time to the end of its request.    *)

Publish(k) ==
  /\ k \notin published /\ withdrawn[k] = 0
  /\ published' = published \cup {k}
  /\ UNCHANGED <<withdrawn, elapsed, request>> /\ CacheUnchanged

Withdraw(k) ==
  /\ k \in published
  /\ published' = published \ {k}
  /\ withdrawn' = [withdrawn EXCEPT ![k] = elapsed]
  /\ UNCHANGED <<elapsed, request>> /\ CacheUnchanged

JwksTick ==
  /\ elapsed < MaxJwksTime
  /\ \A t \in Threads : request[t].pc # "waiting" => elapsed < request[t].now + Slowest
  /\ elapsed' = elapsed + 1
  /\ UNCHANGED <<published, withdrawn, request>> /\ CacheUnchanged

JwksNext ==
  \/ \E t \in Threads :
       \/ \E k \in Kids : GetKey(t, k)
       \/ TestExpiry(t) \/ FetchBody(t) \/ FetchFails(t) \/ StoreKeys(t) \/ StoreExpiry(t)
       \/ Accept(t) \/ RefreshForRotation(t) \/ Reject(t)
  \/ \E k \in Kids : Publish(k) \/ Withdraw(k)
  \/ JwksTick

JwksSpec == JwksInit /\ [][JwksNext]_jwksVars
-----------------------------------------------------------------------------
\* "Bounded cache": a key the issuer has withdrawn is no longer accepted
\* once Ttl has passed, give or take the time two requests may take: a
\* refresh that fetched the old document may assign _keys after a newer
\* refresh has, and the newer one's _expires_at may then outlive it.
WithdrawnKeyIsRefused ==
  \A t \in Threads : Matches(t) =>
    \/ request[t].kid \in published
    \/ elapsed < withdrawn[request[t].kid] + Ttl + 2 * Slowest
=============================================================================
