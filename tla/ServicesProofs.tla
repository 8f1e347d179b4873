--------------------------- MODULE ServicesProofs ---------------------------
(***************************************************************************)
(* Proofs about what threads and requests of one process share: the        *)
(* artifact store, the key cache of authentication, the evidence           *)
(* snapshots, the in-process runner, the studio's client, the monitoring   *)
(* of outcomes and the rotation over tenants.  They share no state; each   *)
(* part has its own invariant.                                             *)
(***************************************************************************)
EXTENDS ArtifactStore, JwksCache, DecisionEvidence, BoundedRunner, ExperimentRun,
        OutcomeMonitoring, TenantRotation, FiniteSetLemmas

-----------------------------------------------------------------------------
(* The artifact store: a file gets its name only once its bytes are synced, *)
(* so what has the name is never torn; a writer that answers after placing  *)
(* the file has the directory on disk, and nothing takes it back.           *)

WriterState ==
  [at : {"away", "called", "verifying", "creating", "writing", "replacing", "syncing",
         "answering"},
   placed : BOOLEAN, synced : BOOLEAN]

WriterInv(w) ==
  /\ store[w].at = "replacing" => store[w].synced
  /\ store[w].at = "syncing" => entry.content = "whole"
  /\ store[w].placed => onDisk = "whole"

ArtifactInv ==
  /\ store \in [Writers -> WriterState]
  /\ entry \in [content : {"absent", "whole"}, synced : BOOLEAN] /\ entry.synced
  /\ onDisk \in {"absent", "whole"}
  /\ onDisk = "whole" => entry.content = "whole"
  /\ "placed" \in rows => onDisk = "whole"
  /\ \A w \in Writers : WriterInv(w)

\* A step of one writer that leaves the directory alone, or makes its entry whole.
LEMMA WriterTurn ==
  ASSUME ArtifactInv, NEW w \in Writers, NEW x \in WriterState,
         store' = [store EXCEPT ![w] = x],
         entry' = entry \/ (entry'.content = "whole" /\ entry'.synced
                             /\ entry' \in [content : {"absent", "whole"}, synced : BOOLEAN]),
         onDisk' = onDisk \/ (onDisk' = "whole" /\ entry'.content = "whole"),
         "placed" \in rows' => "placed" \in rows \/ onDisk' = "whole",
         x.at = "replacing" => x.synced,
         x.at = "syncing" => entry'.content = "whole",
         x.placed => onDisk' = "whole"
  PROVE  ArtifactInv'
<1>1. /\ store' \in [Writers -> WriterState] /\ store'[w] = x
      /\ \A v \in Writers \ {w} : store'[v] = store[v]
  BY DEF ArtifactInv
<1>2. /\ entry' \in [content : {"absent", "whole"}, synced : BOOLEAN] /\ entry'.synced
      /\ onDisk' \in {"absent", "whole"} /\ (onDisk' = "whole" => entry'.content = "whole")
      /\ (onDisk = "whole" => onDisk' = "whole")
      /\ (entry.content = "whole" => entry'.content = "whole")
  BY DEF ArtifactInv
<1>3. "placed" \in rows' => onDisk' = "whole"
  BY <1>2 DEF ArtifactInv
<1>4. ASSUME NEW v \in Writers PROVE WriterInv(v)'
  <2>1. CASE v = w
    BY <1>1, <2>1 DEF WriterInv
  <2>2. CASE v # w
    BY <1>1, <1>2, <2>2 DEF ArtifactInv, WriterInv
  <2> QED BY <2>1, <2>2
<1> QED
  BY <1>1, <1>2, <1>3, <1>4 DEF ArtifactInv

LEMMA ArtifactStep ==
  ASSUME ArtifactInv, [ArtifactNext]_artifactVars
  PROVE  ArtifactInv'
<1>1. ASSUME NEW w \in Writers, NEW at \in {"away", "called", "verifying", "creating", "writing", "answering"},
             StoreGoes(w, at), DirectoryUnchanged
      PROVE  ArtifactInv'
  <2>1. store[w] \in WriterState
    BY DEF ArtifactInv
  <2>2. PICK x : x = [store[w] EXCEPT !.at = at]
    OBVIOUS
  <2>3. x \in WriterState /\ x.at = at /\ x.placed = store[w].placed
    BY <2>1, <2>2 DEF WriterState
  <2>4. store' = [store EXCEPT ![w] = x]
    BY <1>1, <2>2 DEF StoreGoes
  <2> QED
    BY <1>1, <2>1, <2>3, <2>4, WriterTurn DEF DirectoryUnchanged, ArtifactInv, WriterInv
<1>2. CASE \E w \in Writers : PutJson(w)
  <2>1. PICK w \in Writers : PutJson(w)
    BY <1>2
  <2>2. PICK x : x = Call("called")
    OBVIOUS
  <2>3. x \in WriterState /\ x.at = "called" /\ ~x.placed
    BY <2>2 DEF Call, WriterState
  <2>4. store' = [store EXCEPT ![w] = x]
    BY <2>1, <2>2 DEF PutJson
  <2> QED
    BY <2>1, <2>3, <2>4, WriterTurn DEF PutJson, DirectoryUnchanged
<1>3. CASE \E w \in Writers : Exists(w) \/ VerifyExisting(w) \/ CreateTemporary(w)
  <2>1. PICK w \in Writers : Exists(w) \/ VerifyExisting(w) \/ CreateTemporary(w)
    BY <1>3
  <2>2. CASE Exists(w)
    BY <1>1, <2>2 DEF Exists
  <2>3. CASE VerifyExisting(w)
    BY <1>1, <2>3 DEF VerifyExisting
  <2>4. CASE CreateTemporary(w)
    BY <1>1, <2>4 DEF CreateTemporary
  <2> QED BY <2>1, <2>2, <2>3, <2>4
<1>4. CASE \E w \in Writers : WriteTemporary(w)
  <2>1. PICK w \in Writers : WriteTemporary(w)
    BY <1>4
  <2>2. store[w] \in WriterState /\ (store[w].placed => onDisk = "whole")
    BY DEF ArtifactInv, WriterInv
  <2>3. PICK x : x = [store[w] EXCEPT !.at = "replacing", !.synced = TRUE]
    OBVIOUS
  <2>4. x \in WriterState /\ x.at = "replacing" /\ x.synced /\ x.placed = store[w].placed
    BY <2>2, <2>3 DEF WriterState
  <2>5. store' = [store EXCEPT ![w] = x]
    BY <2>1, <2>3 DEF WriteTemporary
  <2> QED
    BY <2>1, <2>2, <2>4, <2>5, WriterTurn DEF WriteTemporary, DirectoryUnchanged
<1>5. CASE \E w \in Writers : ReplaceDestination(w)
  <2>1. PICK w \in Writers : ReplaceDestination(w)
    BY <1>5
  <2>2. store[w] \in WriterState /\ store[w].synced /\ (store[w].placed => onDisk = "whole")
    BY <2>1 DEF ArtifactInv, WriterInv, ReplaceDestination, At
  <2>3. PICK x : x = [store[w] EXCEPT !.at = "syncing"]
    OBVIOUS
  <2>4. x \in WriterState /\ x.at = "syncing" /\ x.placed = store[w].placed
    BY <2>2, <2>3 DEF WriterState
  <2>5. store' = [store EXCEPT ![w] = x]
    BY <2>1, <2>3 DEF ReplaceDestination, StoreGoes
  <2>6. entry'.content = "whole" /\ entry'.synced
        /\ entry' \in [content : {"absent", "whole"}, synced : BOOLEAN]
    BY <2>1, <2>2 DEF ReplaceDestination, WriterState
  <2> QED
    BY <2>1, <2>2, <2>4, <2>5, <2>6, WriterTurn DEF ReplaceDestination
<1>6. CASE \E w \in Writers : FsyncRoot(w)
  <2>1. PICK w \in Writers : FsyncRoot(w)
    BY <1>6
  <2>2. store[w] \in WriterState /\ entry.content = "whole"
    BY <2>1 DEF ArtifactInv, WriterInv, FsyncRoot, At
  <2>3. PICK x : x = [store[w] EXCEPT !.at = "answering", !.placed = TRUE]
    OBVIOUS
  <2>4. x \in WriterState /\ x.at = "answering"
    BY <2>2, <2>3 DEF WriterState
  <2>5. store' = [store EXCEPT ![w] = x]
    BY <2>1, <2>3 DEF FsyncRoot
  <2>6. entry' = entry /\ onDisk' = "whole" /\ rows' = rows
    BY <2>1, <2>2 DEF FsyncRoot
  <2> QED
    BY <2>2, <2>4, <2>5, <2>6, WriterTurn
<1>7. CASE \E w \in Writers : PutRaises(w) \/ ProcessDies(w)
  BY <1>1, <1>7 DEF PutRaises, ProcessDies
<1>8. CASE \E w \in Writers : CommitRow(w)
  <2>1. PICK w \in Writers : CommitRow(w)
    BY <1>8
  <2>2. store[w] \in WriterState /\ (store[w].placed => onDisk = "whole")
    BY <2>1 DEF ArtifactInv, WriterInv, CommitRow, At
  <2>3. PICK x : x = [store[w] EXCEPT !.at = "away"]
    OBVIOUS
  <2>4. x \in WriterState /\ x.at = "away" /\ x.placed = store[w].placed
    BY <2>2, <2>3 DEF WriterState
  <2>5. store' = [store EXCEPT ![w] = x]
    BY <2>1, <2>3 DEF CommitRow, StoreGoes
  <2>6. "placed" \in rows' => "placed" \in rows \/ onDisk' = "whole"
    BY <2>1, <2>2 DEF CommitRow
  <2>7. entry' = entry /\ onDisk' = onDisk
    BY <2>1 DEF CommitRow
  <2> QED
    BY <2>2, <2>4, <2>5, <2>6, <2>7, WriterTurn
<1>9. CASE PowerFails
  <2>1. \A w \in Writers : store'[w].at = "away" /\ store'[w] \in WriterState
    BY <1>9 DEF PowerFails, Call, WriterState
  <2>2. store' \in [Writers -> WriterState]
    BY <1>9, <2>1 DEF PowerFails
  <2>3. PICK kept \in {entry.content, onDisk} :
          LET found == IF kept = "whole" /\ ~entry.synced THEN "torn" ELSE kept
          IN entry' = [content |-> found, synced |-> TRUE] /\ onDisk' = found
    BY <1>9 DEF PowerFails
  <2>4. entry' = [content |-> kept, synced |-> TRUE] /\ onDisk' = kept /\ rows' = rows
    BY <1>9, <2>3 DEF ArtifactInv, PowerFails
  <2>5. kept \in {"absent", "whole"} /\ (onDisk = "whole" => kept = "whole")
    BY DEF ArtifactInv
  <2>6. \A w \in Writers : ~store'[w].placed
    BY <1>9 DEF PowerFails, Call
  <2>7. /\ entry' \in [content : {"absent", "whole"}, synced : BOOLEAN] /\ entry'.synced
        /\ entry'.content = kept
    BY <2>4, <2>5
  <2> QED
    BY <2>1, <2>2, <2>4, <2>5, <2>6, <2>7 DEF ArtifactInv, WriterInv
<1>10. CASE UNCHANGED artifactVars
  BY <1>10 DEF artifactVars, ArtifactInv, WriterInv
<1> QED
  BY <1>2, <1>3, <1>4, <1>5, <1>6, <1>7, <1>8, <1>9, <1>10 DEF ArtifactNext

\* A row that says its artifact was put there names one that power failures
\* leave whole, and no committed row names a torn one.
THEOREM CommittedArtifactsSurvive == ArtifactSpec => []CommittedArtifactSurvives
<1>1. ArtifactInit => ArtifactInv
  <2> SUFFICES ASSUME ArtifactInit PROVE ArtifactInv
    OBVIOUS
  <2>1. \A w \in Writers : store[w] \in WriterState /\ store[w].at = "away" /\ ~store[w].placed
    BY DEF ArtifactInit, Call, WriterState
  <2>2. store \in [Writers -> WriterState]
    BY <2>1 DEF ArtifactInit
  <2> QED
    BY <2>1, <2>2 DEF ArtifactInit, ArtifactInv, WriterInv
<1>2. ArtifactInv /\ [ArtifactNext]_artifactVars => ArtifactInv'
  BY ArtifactStep
<1>3. ArtifactInv => CommittedArtifactSurvives
  BY DEF ArtifactInv, CommittedArtifactSurvives
<1> QED
  BY <1>1, <1>2, <1>3, PTL DEF ArtifactSpec
-----------------------------------------------------------------------------
(* The key cache.  A key that is in the cache although the issuer withdrew  *)
(* it came from a document fetched before: the sample of the thread that    *)
(* fetched it, and with it the expiry of the cache and the sample of every  *)
(* request about to match, is not much later than the withdrawal.           *)

RequestState ==
  [pc : {"waiting", "testing", "fetching", "storing", "expiring", "matching"},
   kid : Kids \cup {"none"}, now : Nat, retried : BOOLEAN, parsed : SUBSET Kids]

IssuerState ==
  /\ published \subseteq Kids /\ keys \subseteq Kids
  /\ withdrawn \in [Kids -> Nat]
  /\ elapsed \in Nat /\ expiresAt \in Nat

\* q is a request at a time, with the keys of the cache and the issuer.
InTime(q) ==
  /\ q \in RequestState
  /\ q.now <= elapsed
  /\ q.pc # "waiting" => elapsed <= q.now + Slowest

\* A withdrawn key of the document it fetched was published at its sample.
DocumentInv(q) ==
  \A k \in Kids : q.pc \in {"storing", "expiring"} /\ k \in q.parsed /\ k \notin published
                    => q.now <= withdrawn[k]

\* A withdrawn key of the cache.
StaleKeyInv(q) ==
  \A k \in Kids : k \in keys /\ k \notin published =>
    /\ q.pc = "expiring" => q.now <= withdrawn[k] + Slowest
    /\ q.pc = "matching" => q.now < withdrawn[k] + Slowest + Ttl

ExpiryInv ==
  /\ expiresAt <= elapsed + Ttl
  /\ \A k \in Kids : k \in keys /\ k \notin published => expiresAt <= withdrawn[k] + Slowest + Ttl

RequestInv(q) == InTime(q) /\ DocumentInv(q) /\ StaleKeyInv(q)

KeyInv ==
  /\ DOMAIN request = Threads
  /\ request = [t \in Threads |-> request[t]]
  /\ IssuerState /\ ExpiryInv
  /\ \A t \in Threads : RequestInv(request[t])

\* One request changes, the cache and the issuer do not.
LEMMA RequestTurn ==
  ASSUME KeyInv, NEW t \in Threads, NEW q, request' = [request EXCEPT ![t] = q],
         UNCHANGED <<published, withdrawn, elapsed, keys, expiresAt>>,
         RequestInv(q)
  PROVE  KeyInv'
<1>1. DOMAIN request' = Threads /\ request' = [u \in Threads |-> request'[u]]
      /\ request'[t] = q /\ \A u \in Threads \ {t} : request'[u] = request[u]
  BY DEF KeyInv
<1>2. ASSUME NEW u \in Threads PROVE RequestInv(request[u])' 
  <2>1. PICK p : p = request'[u]
    OBVIOUS
  <2>2. RequestInv(p)
    BY <1>1, <2>1 DEF KeyInv
  <2>3. InTime(p)' /\ DocumentInv(p)' /\ StaleKeyInv(p)'
    BY <2>2 DEF RequestInv, InTime, DocumentInv, StaleKeyInv
  <2> QED
    BY <2>1, <2>3 DEF RequestInv, InTime, DocumentInv, StaleKeyInv
<1>3. IssuerState' /\ ExpiryInv'
  BY DEF KeyInv, IssuerState, ExpiryInv
<1> QED
  BY <1>1, <1>2, <1>3 DEF KeyInv
LEMMA RequestStep ==
  ASSUME KeyInv, NEW t \in Threads,
         \/ \E k \in Kids : GetKey(t, k)
         \/ TestExpiry(t) \/ FetchBody(t) \/ FetchFails(t)
         \/ Accept(t) \/ RefreshForRotation(t) \/ Reject(t)
  PROVE  KeyInv'
<1>1. /\ RequestInv(request[t]) /\ IssuerState /\ ExpiryInv
      /\ Ttl \in Nat /\ Ttl > 0 /\ Slowest \in Nat
  BY JwksAssumption DEF KeyInv
<1>2. CASE FetchFails(t) \/ Accept(t) \/ Reject(t)
  <2>1. PICK q : q = Idle
    OBVIOUS
  <2>2. RequestInv(q)
    BY <1>1, <2>1 DEF Idle, RequestInv, InTime, DocumentInv, StaleKeyInv, IssuerState, RequestState
  <2>3. request' = [request EXCEPT ![t] = q]
        /\ UNCHANGED <<published, withdrawn, elapsed, keys, expiresAt>>
    BY <1>2, <2>1 DEF FetchFails, Accept, Reject, CacheUnchanged, IssuerUnchanged
  <2> QED BY <2>2, <2>3, RequestTurn
<1>3. CASE \E k \in Kids : GetKey(t, k)
  <2>1. PICK k \in Kids : GetKey(t, k)
    BY <1>3
  <2>2. PICK q : q = [Idle EXCEPT !.pc = "testing", !.kid = k, !.now = elapsed]
    OBVIOUS
  <2>3. q = [pc |-> "testing", kid |-> k, now |-> elapsed, retried |-> FALSE, parsed |-> {}]
    BY <2>2 DEF Idle
  <2>4. RequestInv(q)
    BY <1>1, <2>3 DEF RequestInv, InTime, DocumentInv, StaleKeyInv, IssuerState, RequestState
  <2>5. request' = [request EXCEPT ![t] = q]
        /\ UNCHANGED <<published, withdrawn, elapsed, keys, expiresAt>>
    BY <2>1, <2>2 DEF GetKey, CacheUnchanged, IssuerUnchanged
  <2> QED BY <2>4, <2>5, RequestTurn
<1>4. CASE TestExpiry(t)
  <2>1. PICK pc \in {"fetching", "matching"} :
          pc = (IF request[t].now >= expiresAt THEN "fetching" ELSE "matching")
    OBVIOUS
  <2>2. PICK q : q = [request[t] EXCEPT !.pc = pc]
    OBVIOUS
  <2>3. /\ q \in RequestState /\ q.pc = pc /\ q.now = request[t].now
        /\ request[t].pc = "testing" /\ request[t].now \in Nat
    BY <1>1, <1>4, <2>2 DEF RequestInv, InTime, RequestState, TestExpiry
  <2>4. pc = "matching" => request[t].now < expiresAt
    BY <1>1, <2>1, <2>3 DEF IssuerState
  <2>5. InTime(q) /\ DocumentInv(q)
    BY <1>1, <2>3 DEF RequestInv, InTime, DocumentInv
  <2>6. StaleKeyInv(q)
    BY <1>1, <2>3, <2>4 DEF StaleKeyInv, ExpiryInv, IssuerState
  <2>7. request' = [request EXCEPT ![t] = q]
        /\ UNCHANGED <<published, withdrawn, elapsed, keys, expiresAt>>
    BY <1>4, <2>1, <2>2 DEF TestExpiry, Go, CacheUnchanged, IssuerUnchanged
  <2> QED BY <2>5, <2>6, <2>7, RequestTurn DEF RequestInv
<1>5. CASE FetchBody(t)
  <2>1. PICK q : q = [request[t] EXCEPT !.pc = "storing", !.parsed = published]
    OBVIOUS
  <2>2. /\ q \in RequestState /\ q.pc = "storing" /\ q.now = request[t].now
        /\ q.parsed = published /\ request[t].pc = "fetching"
    BY <1>1, <1>5, <2>1 DEF RequestInv, InTime, RequestState, FetchBody, IssuerState
  <2>3. RequestInv(q)
    BY <1>1, <2>2 DEF RequestInv, InTime, DocumentInv, StaleKeyInv
  <2>4. request' = [request EXCEPT ![t] = q]
        /\ UNCHANGED <<published, withdrawn, elapsed, keys, expiresAt>>
    BY <1>5, <2>1 DEF FetchBody, CacheUnchanged, IssuerUnchanged
  <2> QED BY <2>3, <2>4, RequestTurn
<1>6. CASE RefreshForRotation(t)
  <2>1. PICK q : q = [request[t] EXCEPT !.pc = "fetching", !.now = elapsed, !.retried = TRUE]
    OBVIOUS
  <2>2. q \in RequestState /\ q.pc = "fetching" /\ q.now = elapsed
    BY <1>1, <2>1 DEF RequestInv, InTime, RequestState, IssuerState
  <2>3. RequestInv(q)
    BY <1>1, <2>2 DEF RequestInv, InTime, DocumentInv, StaleKeyInv, IssuerState
  <2>4. request' = [request EXCEPT ![t] = q]
        /\ UNCHANGED <<published, withdrawn, elapsed, keys, expiresAt>>
    BY <1>6, <2>1 DEF RefreshForRotation, CacheUnchanged, IssuerUnchanged
  <2> QED BY <2>3, <2>4, RequestTurn
<1> QED
  BY <1>2, <1>3, <1>4, <1>5, <1>6

\* The two assignments of _refresh.
LEMMA StoreKeysStep ==
  ASSUME KeyInv, NEW t \in Threads, StoreKeys(t)
  PROVE  KeyInv'
<1>1. /\ RequestInv(request[t]) /\ IssuerState /\ ExpiryInv
      /\ Ttl \in Nat /\ Ttl > 0 /\ Slowest \in Nat
  BY JwksAssumption DEF KeyInv
<1>2. PICK q : q = [request[t] EXCEPT !.pc = "expiring"]
  OBVIOUS
<1>3. /\ request[t].pc = "storing" /\ request[t] \in RequestState
      /\ q \in RequestState /\ q.pc = "expiring" /\ q.now = request[t].now /\ q.now \in Nat
      /\ q.parsed = request[t].parsed
  BY <1>1, <1>2 DEF StoreKeys, RequestInv, InTime, RequestState
<1>4. /\ request' = [request EXCEPT ![t] = q] /\ keys' = q.parsed
      /\ UNCHANGED <<published, withdrawn, elapsed, expiresAt>>
  BY <1>2, <1>3 DEF StoreKeys, Go, IssuerUnchanged
<1>5. \A k \in Kids : k \in keys' /\ k \notin published =>
        withdrawn[k] \in Nat /\ elapsed <= withdrawn[k] + Slowest
  <2> SUFFICES ASSUME NEW k \in Kids, k \in q.parsed, k \notin published
               PROVE  withdrawn[k] \in Nat /\ elapsed <= withdrawn[k] + Slowest
    BY <1>4
  <2>1. q.now <= withdrawn[k] /\ elapsed <= q.now + Slowest /\ withdrawn[k] \in Nat
    BY <1>1, <1>3 DEF RequestInv, InTime, DocumentInv, IssuerState
  <2> QED BY <1>1, <1>3, <2>1 DEF IssuerState
<1>6. ASSUME NEW p, InTime(p), DocumentInv(p)
      PROVE  RequestInv(p)'
  <2>1. p.now \in Nat /\ p.now <= elapsed
    BY <1>6 DEF InTime, RequestState
  <2>2. ASSUME NEW k \in Kids, k \in keys', k \notin published
        PROVE  p.now <= withdrawn[k] + Slowest /\ p.now < withdrawn[k] + Slowest + Ttl
    BY <1>1, <1>5, <2>1, <2>2 DEF IssuerState
  <2>3. StaleKeyInv(p)'
    BY <1>4, <2>2 DEF StaleKeyInv
  <2>4. InTime(p)' /\ DocumentInv(p)'
    BY <1>4, <1>6 DEF InTime, DocumentInv
  <2> QED BY <2>3, <2>4 DEF RequestInv
<1>7. InTime(q) /\ DocumentInv(q)
  BY <1>1, <1>3 DEF RequestInv, InTime, DocumentInv
<1>8. DOMAIN request' = Threads /\ request' = [u \in Threads |-> request'[u]]
      /\ request'[t] = q /\ \A u \in Threads \ {t} : request'[u] = request[u]
  BY <1>4 DEF KeyInv
<1>9. ASSUME NEW u \in Threads PROVE RequestInv(request[u])'
  <2>1. PICK p : p = request'[u]
    OBVIOUS
  <2>2. InTime(p) /\ DocumentInv(p)
    BY <1>7, <1>8, <2>1 DEF KeyInv, RequestInv
  <2>3. RequestInv(p)'
    BY <1>6, <2>2
  <2> QED BY <2>1, <2>3 DEF RequestInv, InTime, DocumentInv, StaleKeyInv
<1>10. ExpiryInv'
  <2>1. ASSUME NEW k \in Kids, k \in keys', k \notin published
        PROVE  expiresAt <= withdrawn[k] + Slowest + Ttl
    BY <1>1, <1>5, <2>1 DEF ExpiryInv, IssuerState
  <2> QED BY <1>1, <1>4, <2>1 DEF ExpiryInv
<1>11. IssuerState'
  BY <1>1, <1>3, <1>4 DEF IssuerState, RequestState
<1> QED
  BY <1>8, <1>9, <1>10, <1>11 DEF KeyInv

LEMMA StoreExpiryStep ==
  ASSUME KeyInv, NEW t \in Threads, StoreExpiry(t)
  PROVE  KeyInv'
<1>1. /\ RequestInv(request[t]) /\ IssuerState /\ ExpiryInv
      /\ Ttl \in Nat /\ Ttl > 0 /\ Slowest \in Nat
  BY JwksAssumption DEF KeyInv
<1>2. PICK q : q = [request[t] EXCEPT !.pc = "matching"]
  OBVIOUS
<1>3. /\ request[t].pc = "expiring" /\ request[t] \in RequestState
      /\ q \in RequestState /\ q.pc = "matching" /\ q.now = request[t].now /\ q.now \in Nat
  BY <1>1, <1>2 DEF StoreExpiry, RequestInv, InTime, RequestState
<1>4. /\ request' = [request EXCEPT ![t] = q] /\ expiresAt' = q.now + Ttl
      /\ UNCHANGED <<published, withdrawn, elapsed, keys>>
  BY <1>2, <1>3 DEF StoreExpiry, Go, IssuerUnchanged
<1>5. ASSUME NEW k \in Kids, k \in keys, k \notin published
      PROVE  withdrawn[k] \in Nat /\ q.now <= withdrawn[k] + Slowest
  BY <1>1, <1>3, <1>5 DEF RequestInv, StaleKeyInv, IssuerState
<1>6. ASSUME NEW k \in Kids, k \in keys, k \notin published
      PROVE  q.now < withdrawn[k] + Slowest + Ttl /\ q.now + Ttl <= withdrawn[k] + Slowest + Ttl
  BY <1>1, <1>3, <1>5, <1>6
<1>7. ExpiryInv' /\ IssuerState'
  BY <1>1, <1>3, <1>4, <1>6 DEF ExpiryInv, IssuerState, RequestInv, InTime
<1>8. RequestInv(q)
  BY <1>1, <1>3, <1>6 DEF RequestInv, InTime, DocumentInv, StaleKeyInv
<1>9. DOMAIN request' = Threads /\ request' = [u \in Threads |-> request'[u]]
      /\ request'[t] = q /\ \A u \in Threads \ {t} : request'[u] = request[u]
  BY <1>4 DEF KeyInv
<1>10. ASSUME NEW u \in Threads PROVE RequestInv(request[u])'
  <2>1. PICK p : p = request'[u]
    OBVIOUS
  <2>2. RequestInv(p)
    BY <1>8, <1>9, <2>1 DEF KeyInv
  <2>3. RequestInv(p)'
    BY <1>4, <2>2 DEF RequestInv, InTime, DocumentInv, StaleKeyInv
  <2> QED BY <2>1, <2>3 DEF RequestInv, InTime, DocumentInv, StaleKeyInv
<1> QED
  BY <1>7, <1>9, <1>10 DEF KeyInv
LEMMA IssuerStep ==
  ASSUME KeyInv, (\E k \in Kids : Publish(k) \/ Withdraw(k)) \/ JwksTick
  PROVE  KeyInv'
<1>1. /\ IssuerState /\ ExpiryInv
      /\ Ttl \in Nat /\ Ttl > 0 /\ Slowest \in Nat
  BY JwksAssumption DEF KeyInv
<1>2. UNCHANGED <<keys, expiresAt, request>>
  BY DEF Publish, Withdraw, JwksTick, CacheUnchanged
<1>3. ASSUME ExpiryInv', IssuerState',
             \A t \in Threads : RequestInv(request[t])'
      PROVE  KeyInv'
  BY <1>2, <1>3 DEF KeyInv
<1>4. CASE \E k \in Kids : Publish(k)
  <2>1. PICK k \in Kids : Publish(k)
    BY <1>4
  <2>2. UNCHANGED <<withdrawn, elapsed>> /\ published \subseteq published' /\ published' \subseteq Kids
    BY <1>1, <2>1 DEF Publish, IssuerState
  <2>3. ASSUME NEW t \in Threads PROVE RequestInv(request[t])'
    <3>1. RequestInv(request[t])
      BY DEF KeyInv
    <3> QED BY <1>2, <2>2, <3>1 DEF RequestInv, InTime, DocumentInv, StaleKeyInv
  <2> QED BY <1>1, <1>2, <1>3, <2>2, <2>3 DEF ExpiryInv, IssuerState
<1>5. CASE \E k \in Kids : Withdraw(k)
  <2>1. PICK k \in Kids : Withdraw(k)
    BY <1>5
  <2>2. /\ elapsed' = elapsed /\ published' = published \ {k}
        /\ withdrawn' \in [Kids -> Nat] /\ withdrawn'[k] = elapsed
        /\ \A j \in Kids \ {k} : withdrawn'[j] = withdrawn[j]
    BY <1>1, <2>1 DEF Withdraw, IssuerState
  <2>3. ASSUME NEW t \in Threads PROVE RequestInv(request[t])'
    <3>1. PICK q : q = request[t]
      OBVIOUS
    <3>2. RequestInv(q) /\ q.now \in Nat /\ q.now <= elapsed
      BY <3>1 DEF KeyInv, RequestInv, InTime, RequestState
    <3>3. InTime(q)'
      BY <2>2, <3>2 DEF RequestInv, InTime
    <3>4. ASSUME NEW j \in Kids, j \notin published'
          PROVE  /\ q.pc \in {"storing", "expiring"} /\ j \in q.parsed => q.now <= withdrawn'[j]
                 /\ j \in keys => /\ q.pc = "expiring" => q.now <= withdrawn'[j] + Slowest
                                  /\ q.pc = "matching" => q.now < withdrawn'[j] + Slowest + Ttl
      <4>1. CASE j = k
        BY <1>1, <2>2, <3>2, <4>1 DEF IssuerState
      <4>2. CASE j # k
        BY <2>2, <3>2, <3>4, <4>2 DEF RequestInv, DocumentInv, StaleKeyInv
      <4> QED BY <4>1, <4>2
    <3>5. DocumentInv(q)' /\ StaleKeyInv(q)'
      BY <1>2, <3>4 DEF DocumentInv, StaleKeyInv
    <3> QED BY <1>2, <3>1, <3>3, <3>5 DEF RequestInv, InTime, DocumentInv, StaleKeyInv
  <2>4. ASSUME NEW j \in Kids, j \in keys, j \notin published'
        PROVE  expiresAt <= withdrawn'[j] + Slowest + Ttl
    <3>1. CASE j = k
      BY <1>1, <2>2, <3>1 DEF IssuerState, ExpiryInv
    <3>2. CASE j # k
      BY <1>1, <2>2, <2>4, <3>2 DEF ExpiryInv
    <3> QED BY <3>1, <3>2
  <2> QED BY <1>1, <1>2, <1>3, <2>2, <2>3, <2>4 DEF ExpiryInv, IssuerState
<1>6. CASE JwksTick
  <2>1. /\ elapsed' = elapsed + 1 /\ UNCHANGED <<published, withdrawn>>
        /\ \A t \in Threads : request[t].pc # "waiting" => elapsed < request[t].now + Slowest
    BY <1>6 DEF JwksTick
  <2>2. ASSUME NEW t \in Threads PROVE RequestInv(request[t])'
    <3>1. PICK q : q = request[t]
      OBVIOUS
    <3>2. RequestInv(q) /\ q.now \in Nat /\ q.now <= elapsed
          /\ (q.pc # "waiting" => elapsed < q.now + Slowest)
      BY <2>1, <3>1 DEF KeyInv, RequestInv, InTime, RequestState
    <3>3. InTime(q)'
      BY <1>1, <2>1, <3>2 DEF RequestInv, InTime, IssuerState
    <3>4. DocumentInv(q)' /\ StaleKeyInv(q)'
      BY <1>2, <2>1, <3>2 DEF RequestInv, DocumentInv, StaleKeyInv
    <3> QED BY <1>2, <3>1, <3>3, <3>4 DEF RequestInv, InTime, DocumentInv, StaleKeyInv
  <2> QED BY <1>1, <1>2, <1>3, <2>1, <2>2 DEF ExpiryInv, IssuerState
<1> QED
  BY <1>4, <1>5, <1>6

\* Two request times and one TTL after the issuer withdrew a key, no request
\* matches it, however many threads refresh the cache and in whatever order.
THEOREM WithdrawnKeysAreRefused == JwksSpec => []WithdrawnKeyIsRefused
<1>1. JwksInit => KeyInv
  <2> SUFFICES ASSUME JwksInit PROVE KeyInv
    OBVIOUS
  <2>1. Ttl \in Nat /\ Ttl > 0 /\ Slowest \in Nat /\ FirstKids \subseteq Kids
    BY JwksAssumption
  <2>2. IssuerState /\ ExpiryInv
    BY <2>1 DEF JwksInit, IssuerState, ExpiryInv
  <2>3. ASSUME NEW t \in Threads PROVE RequestInv(request[t])
    <3>1. request[t] = Idle
      BY DEF JwksInit
    <3> QED BY <2>1, <3>1 DEF JwksInit, Idle, RequestInv, InTime, DocumentInv, StaleKeyInv, RequestState
  <2> QED BY <2>2, <2>3 DEF JwksInit, KeyInv
<1>2. KeyInv /\ [JwksNext]_jwksVars => KeyInv'
  <2> SUFFICES ASSUME KeyInv, [JwksNext]_jwksVars PROVE KeyInv'
    OBVIOUS
  <2>1. CASE UNCHANGED jwksVars
    BY <2>1 DEF jwksVars, KeyInv, IssuerState, ExpiryInv, RequestInv, InTime, DocumentInv, StaleKeyInv
  <2> QED
    BY <2>1, RequestStep, StoreKeysStep, StoreExpiryStep, IssuerStep DEF JwksNext
<1>3. KeyInv => WithdrawnKeyIsRefused
  <2> SUFFICES ASSUME KeyInv, NEW t \in Threads, Matches(t), request[t].kid \notin published
               PROVE  elapsed < withdrawn[request[t].kid] + Ttl + 2 * Slowest
    BY DEF WithdrawnKeyIsRefused
  <2>1. PICK k \in Kids : k = request[t].kid
    BY DEF Matches, KeyInv, IssuerState
  <2>2. /\ request[t].now < withdrawn[k] + Slowest + Ttl
        /\ elapsed <= request[t].now + Slowest
        /\ request[t].now \in Nat
    BY <2>1 DEF Matches, KeyInv, RequestInv, InTime, StaleKeyInv, RequestState
  <2>3. withdrawn[k] \in Nat /\ elapsed \in Nat /\ Ttl \in Nat /\ Slowest \in Nat
    BY JwksAssumption DEF KeyInv, IssuerState
  <2> QED BY <2>1, <2>2, <2>3
<1> QED
  BY <1>1, <1>2, <1>3, PTL DEF JwksSpec
-----------------------------------------------------------------------------
(* Evidence snapshots.  Whoever is about to build or store a comparison     *)
(* read the row before there was one, so it is one of the early requests.   *)

ReadingInv(r) ==
  /\ reading[r].at \in {"building", "storing"} => r \in early
  /\ comparison = 0 /\ reading[r].at # "quiet" => r \in early
  /\ reading[r].at = "storing" => reading[r].holds # 0

EvidenceInv ==
  /\ DOMAIN reading = Requests
  /\ builds \in Nat
  /\ \A r \in Requests : DOMAIN reading[r] = {"at", "wants", "holds"} /\ ReadingInv(r)

LEMMA ReadingTurn ==
  ASSUME EvidenceInv, NEW r \in Requests, NEW q, reading' = [reading EXCEPT ![r] = q],
         DOMAIN q = {"at", "wants", "holds"},
         builds' \in Nat,
         comparison' = comparison \/ comparison' # 0,
         \A s \in Requests \ {r} : s \in early => s \in early',
         q.at \in {"building", "storing"} => r \in early',
         comparison' = 0 /\ q.at # "quiet" => r \in early',
         q.at = "storing" => q.holds # 0
  PROVE  EvidenceInv'
<1>1. DOMAIN reading' = Requests /\ reading'[r] = q
      /\ \A s \in Requests \ {r} : reading'[s] = reading[s]
  BY DEF EvidenceInv
<1>2. ASSUME NEW s \in Requests PROVE DOMAIN reading'[s] = {"at", "wants", "holds"} /\ ReadingInv(s)'
  <2>1. CASE s = r
    BY <1>1, <2>1 DEF ReadingInv
  <2>2. CASE s # r
    <3>1. ReadingInv(s) /\ DOMAIN reading[s] = {"at", "wants", "holds"}
      BY DEF EvidenceInv
    <3> QED BY <1>1, <2>2, <3>1 DEF ReadingInv
  <2> QED BY <2>1, <2>2
<1> QED
  BY <1>1, <1>2 DEF EvidenceInv

\* A request that is answered, or moves on with or without a comparison.
LEMMA AnswerTurn ==
  ASSUME EvidenceInv, NEW r \in Requests, Answer(r), builds' \in Nat,
         comparison' = comparison \/ comparison' # 0
  PROVE  EvidenceInv'
<1>1. PICK q : q = Quiet
  OBVIOUS
<1>2. DOMAIN q = {"at", "wants", "holds"} /\ q.at = "quiet"
  BY <1>1 DEF Quiet
<1>3. reading' = [reading EXCEPT ![r] = q] /\ early' = early \ {r}
  BY <1>1 DEF Answer
<1> QED
  BY <1>2, <1>3, ReadingTurn

LEMMA ComparisonInHand ==
  ASSUME EvidenceInv, NEW r \in Requests, NEW build, NEW wants, HoldComparison(r, build, wants),
         builds' \in Nat, comparison' # 0
  PROVE  EvidenceInv'
<1>1. DOMAIN reading[r] = {"at", "wants", "holds"}
  BY DEF EvidenceInv
<1>2. CASE wants = "comparison"
  <2>1. Answer(r)
    BY <1>2 DEF HoldComparison
  <2> QED BY <2>1, AnswerTurn
<1>3. CASE wants = "portfolio"
  <2>1. reading' = [reading EXCEPT ![r].at = "reporting", ![r].wants = "brief"] /\ early' = early
    BY <1>3 DEF HoldComparison
  <2>2. PICK q : q = [reading[r] EXCEPT !.at = "reporting", !.wants = "brief"]
    OBVIOUS
  <2>3. DOMAIN q = {"at", "wants", "holds"} /\ q.at = "reporting"
    BY <1>1, <2>2
  <2>4. reading' = [reading EXCEPT ![r] = q]
    BY <2>1, <2>2
  <2> QED BY <2>1, <2>3, <2>4, ReadingTurn
<1>4. CASE wants \notin {"comparison", "portfolio"}
  <2>1. reading' = [reading EXCEPT ![r].at = "briefing", ![r].holds = build] /\ early' = early
    BY <1>4 DEF HoldComparison
  <2>2. PICK q : q = [reading[r] EXCEPT !.at = "briefing", !.holds = build]
    OBVIOUS
  <2>3. DOMAIN q = {"at", "wants", "holds"} /\ q.at = "briefing"
    BY <1>1, <2>2
  <2>4. reading' = [reading EXCEPT ![r] = q]
    BY <2>1, <2>2
  <2> QED BY <2>1, <2>3, <2>4, ReadingTurn
<1> QED
  BY <1>2, <1>3, <1>4

\* A move that needs no early request, or is one's.
LEMMA MoveTurn ==
  ASSUME EvidenceInv, NEW r \in Requests, NEW at, Move(r, at),
         UNCHANGED <<early, builds, comparison>>,
         at # "storing", reading[r].at # "quiet",
         at = "building" => r \in early
  PROVE  EvidenceInv'
<1>1. DOMAIN reading[r] = {"at", "wants", "holds"} /\ ReadingInv(r) /\ builds \in Nat
  BY DEF EvidenceInv
<1>2. PICK q : q = [reading[r] EXCEPT !.at = at]
  OBVIOUS
<1>3. DOMAIN q = {"at", "wants", "holds"} /\ q.at = at
  BY <1>1, <1>2
<1>4. reading' = [reading EXCEPT ![r] = q]
  BY <1>2 DEF Move
<1>5. comparison = 0 => r \in early
  BY <1>1 DEF ReadingInv
<1> QED
  BY <1>1, <1>3, <1>4, <1>5, ReadingTurn
LEMMA EvidenceStep ==
  ASSUME EvidenceInv, [EvidenceNext]_evidenceVars
  PROVE  EvidenceInv'
<1>1. CASE \E which \in {"candidate", "baseline"} : CompleteExperiment(which)
  BY <1>1 DEF CompleteExperiment, EvidenceInv, ReadingInv
<1>2. CASE UNCHANGED evidenceVars
  BY <1>2 DEF evidenceVars, EvidenceInv, ReadingInv
<1>3. CASE LegacyRow
  BY <1>3 DEF LegacyRow, Is, EvidenceInv, ReadingInv
<1>4. ASSUME NEW r \in Requests, Get(r)
      PROVE  EvidenceInv'
  <2>1. PICK wants : reading' = [reading EXCEPT ![r] =
            [Quiet EXCEPT !.wants = wants, !.at = IF wants = "brief" THEN "reporting" ELSE "asking"]]
    BY <1>4 DEF Get
  <2>2. PICK q : q = [Quiet EXCEPT !.wants = wants, !.at = IF wants = "brief" THEN "reporting" ELSE "asking"]
    OBVIOUS
  <2>3. DOMAIN q = {"at", "wants", "holds"} /\ q.at \in {"reporting", "asking"}
    BY <2>2 DEF Quiet
  <2>4. /\ comparison' = comparison /\ builds' = builds
        /\ early' = IF comparison = 0 THEN early \cup {r} ELSE early
    BY <1>4 DEF Get, RowUnchanged
  <2>5. (comparison' = 0 => r \in early') /\ \A s \in early : s \in early'
    BY <2>4
  <2>6. builds' \in Nat /\ reading' = [reading EXCEPT ![r] = q]
    BY <2>1, <2>2, <2>4 DEF EvidenceInv
  <2> QED BY <2>3, <2>4, <2>5, <2>6, ReadingTurn
<1>5. ASSUME NEW r \in Requests, PortfolioFromTheRow(r) \/ BuildFails(r)
      PROVE  EvidenceInv'
  BY <1>5, AnswerTurn DEF PortfolioFromTheRow, BuildFails, RowUnchanged, EvidenceInv
<1>6. ASSUME NEW r \in Requests, AskComparison(r)
      PROVE  EvidenceInv'
  <2>1. /\ reading[r].at = "asking" /\ comparison' = comparison /\ builds' = builds
        /\ builds' \in Nat /\ (comparison = 0 => r \in early)
    BY <1>6 DEF AskComparison, Is, RowUnchanged, EvidenceInv, ReadingInv
  <2>2. \/ comparison # 0 /\ HoldComparison(r, comparison, reading[r].wants)
        \/ comparison = 0 /\ Move(r, "building") /\ early' = early
        \/ Answer(r)
    BY <1>6 DEF AskComparison
  <2>3. CASE comparison # 0 /\ HoldComparison(r, comparison, reading[r].wants)
    BY <2>1, <2>3, ComparisonInHand
  <2>4. CASE comparison = 0 /\ Move(r, "building") /\ early' = early
    BY <2>1, <2>4, MoveTurn
  <2>5. CASE Answer(r)
    BY <2>1, <2>5, AnswerTurn
  <2> QED BY <2>2, <2>3, <2>4, <2>5
<1>7. ASSUME NEW r \in Requests, BuildComparison(r)
      PROVE  EvidenceInv'
  <2>1. /\ reading[r].at = "building" /\ builds \in Nat /\ builds' = builds + 1
        /\ UNCHANGED <<comparison, early>> /\ r \in early
        /\ DOMAIN reading[r] = {"at", "wants", "holds"}
    BY <1>7 DEF BuildComparison, Is, EvidenceInv, ReadingInv
  <2>2. PICK q : q = [reading[r] EXCEPT !.at = "storing", !.holds = builds + 1]
    OBVIOUS
  <2>3. DOMAIN q = {"at", "wants", "holds"} /\ q.at = "storing" /\ q.holds = builds + 1
    BY <2>1, <2>2
  <2>4. reading' = [reading EXCEPT ![r] = q]
    BY <1>7, <2>2 DEF BuildComparison
  <2>5. builds' \in Nat /\ q.holds # 0
    BY <2>1, <2>3
  <2> QED BY <2>1, <2>3, <2>4, <2>5, ReadingTurn
<1>8. ASSUME NEW r \in Requests, StoreComparison(r)
      PROVE  EvidenceInv'
  <2>1. /\ comparison' = reading[r].holds /\ reading[r].holds # 0 /\ builds' \in Nat
        /\ HoldComparison(r, reading[r].holds, reading[r].wants)
    BY <1>8 DEF StoreComparison, Is, EvidenceInv, ReadingInv
  <2> QED BY <2>1, ComparisonInHand
<1>9. ASSUME NEW r \in Requests, AskBrief(r)
      PROVE  EvidenceInv'
  <2>1. /\ reading[r].at = "reporting" /\ comparison' = comparison /\ builds' = builds
        /\ builds' \in Nat
    BY <1>9 DEF AskBrief, Is, RowUnchanged, EvidenceInv
  <2>2. Answer(r) \/ (Move(r, "asking") /\ early' = early)
    BY <1>9 DEF AskBrief
  <2>3. CASE Answer(r)
    BY <2>1, <2>3, AnswerTurn
  <2>4. CASE Move(r, "asking") /\ early' = early
    BY <2>1, <2>4, MoveTurn
  <2> QED BY <2>2, <2>3, <2>4
<1>10. ASSUME NEW r \in Requests, StoreBrief(r)
       PROVE  EvidenceInv'
  BY <1>10, AnswerTurn DEF StoreBrief, EvidenceInv
<1> QED
  BY <1>1, <1>2, <1>3, <1>4, <1>5, <1>6, <1>7, <1>8, <1>9, <1>10 DEF EvidenceNext

\* Once the requests that began before the first comparison was stored have
\* ended, no step replaces the comparison.
THEOREM SnapshotsSettle == EvidenceSpec => SnapshotSettles
<1> DEFINE Settled == (comparison # 0 /\ early = {}) => comparison' = comparison
<1>1. EvidenceInit => EvidenceInv
  BY DEF EvidenceInit, EvidenceInv, ReadingInv, Quiet
<1>2. EvidenceInv /\ [EvidenceNext]_evidenceVars => EvidenceInv'
  BY EvidenceStep
<1>3. EvidenceInv /\ [EvidenceNext]_evidenceVars => [Settled]_evidenceVars
  <2> SUFFICES ASSUME EvidenceInv, EvidenceNext, comparison # 0, early = {}
               PROVE  comparison' = comparison
    BY DEF evidenceVars
  <2>1. ~LegacyRow
    BY DEF LegacyRow
  <2>2. \A r \in Requests : ~StoreComparison(r)
    BY DEF StoreComparison, Is, EvidenceInv, ReadingInv
  <2> QED
    BY <2>1, <2>2 DEF EvidenceNext, CompleteExperiment, Get, PortfolioFromTheRow, AskComparison,
       BuildComparison, BuildFails, AskBrief, StoreBrief, RowUnchanged
<1> QED
  BY <1>1, <1>2, <1>3, PTL DEF EvidenceSpec, SnapshotSettles
-----------------------------------------------------------------------------
(* The in-process runner.  An id is in _scheduled_ids while exactly one     *)
(* place is in charge of it: a thread on its way through submit or about to *)
(* release it, or the callback of a future that is not done.                *)

Pcs == {"away", "acquiring", "registering", "enqueueing", "tracking", "starting", "executing",
        "ending", "releasing", "returning", "querying", "choosing"}

ActorState ==
  [pc : Pcs, id : Experiments \cup {0}, should_schedule : BOOLEAN, seen : SUBSET Experiments]
FutureState == [state : {"none", "pending", "running", "done"}, callback : BOOLEAN]

Waiting == {executor[i] : i \in 1..Len(executor)}
Handles(t, e) == actor[t].pc \in {"enqueueing", "tracking", "releasing"} /\ actor[t].id = e
Runs(p, e) == actor[p].pc \in {"starting", "executing", "ending"} /\ actor[p].id = e
Attached(e) == future[e].callback /\ future[e].state \in {"pending", "running"}

RunnerTypes ==
  /\ row \in [Experiments -> {"none", "queued", "running", "over"}]
  /\ slots \in Nat
  /\ scheduled \subseteq Experiments
  /\ executor \in Seq(Experiments)
  /\ \A i, j \in 1..Len(executor) : executor[i] = executor[j] => i = j
  /\ future \in [Experiments -> FutureState]
  /\ actor \in [RunnerThreads -> ActorState]
  /\ todo \subseteq Experiments
  /\ shut \in {"boot", "no", "flagged", "down"}

ActorInv(t) ==
  /\ actor[t].pc \notin {"away", "returning", "querying", "choosing"} => actor[t].id \in Experiments
  /\ t \in Experiments /\ row[t] = "none" => actor[t].pc = "away"
  /\ shut = "boot" => actor[t].pc = "away"
  /\ shut = "no" /\ actor[t].pc = "returning" => actor[t].should_schedule

InCharge(t, e) ==
  /\ actor[t].pc = "enqueueing" => future[e] = NoFuture
  /\ actor[t].pc = "tracking" => future[e].state # "none" /\ ~future[e].callback
  /\ actor[t].pc = "releasing" => future[e].state = "done"

ItemInv(e) ==
  /\ future[e].state = "none" => ~future[e].callback
  /\ future[e].state # "none" => e \in scheduled
  /\ future[e].state = "pending" <=> e \in Waiting
  /\ future[e].state = "running" <=> \E p \in RunnerThreads : Runs(p, e)
  /\ e \in scheduled <=> Attached(e) \/ \E t \in RunnerThreads : Handles(t, e)
  /\ \A p, q \in RunnerThreads : Runs(p, e) /\ Runs(q, e) => p = q
  /\ \A t, u \in RunnerThreads : Handles(t, e) /\ Handles(u, e) => t = u
  /\ \A t \in RunnerThreads : Handles(t, e) => InCharge(t, e) /\ ~Attached(e)

\* A thread that submits, or will look at the queued rows again, e among them.
Looks(a, e) ==
  \/ a.pc \in {"acquiring", "registering", "returning", "querying"}
  \/ a.pc = "choosing" /\ e \in a.seen
WillLook(e) ==
  \/ todo # {} \/ scheduled # {}
  \/ \E t \in RunnerThreads : Looks(actor[t], e)

\* Nothing is submitted or left to submit before the recovery has read the rows.
BootInv == shut = "boot" => todo = {} /\ scheduled = {}

RunnerInv ==
  /\ RunnerTypes /\ BootInv
  /\ \A t \in RunnerThreads : ActorInv(t)
  /\ \A e \in Experiments : ItemInv(e)
  /\ SlotsAccounted
  /\ shut = "no" => \A e \in Queued : WillLook(e)
LEMMA RunnerFinite ==
  /\ IsFiniteSet(Experiments) /\ IsFiniteSet(RunnerThreads)
  /\ Capacity \in Nat /\ Capacity > 0
  /\ Experiments \subseteq Nat /\ 0 \notin Experiments
<1>1. IsFiniteSet(Experiments) /\ IsFiniteSet(PoolThreads) /\ PoolThreads # {}
      /\ Experiments \subseteq Nat /\ 0 \notin Experiments /\ QueueSize \in Nat
  BY RunnerAssumption
<1>2. IsFiniteSet({Startup})
  BY FS_Singleton
<1>3. IsFiniteSet(RunnerThreads)
  BY <1>1, <1>2, FS_Union DEF RunnerThreads
<1>4. Cardinality(PoolThreads) \in Nat /\ Cardinality(PoolThreads) # 0
  BY <1>1, FS_CardinalityType, FS_EmptySet
<1> QED
  BY <1>1, <1>3, <1>4 DEF Capacity

\* Threads that hold a permit, or have one to return.
Holders == {t \in RunnerThreads : actor[t].pc \in {"registering", "returning"}}
Holding(a) == IF a.pc \in {"registering", "returning"} THEN 1 ELSE 0

\* No thread does anything before the recovery has read the rows.
LEMMA AfterBoot ==
  ASSUME RunnerInv, NEW t \in RunnerThreads, actor[t].pc # "away"
  PROVE  shut # "boot"
BY DEF RunnerInv, ActorInv

LEMMA HoldersChange ==
  ASSUME RunnerTypes, NEW t \in RunnerThreads, NEW b, actor' = [actor EXCEPT ![t] = b]
  PROVE  /\ Cardinality(Holders) \in Nat
         /\ Cardinality(Holders') = Cardinality(Holders) - Holding(actor[t]) + Holding(b)
<1>1. actor'[t] = b /\ \A u \in RunnerThreads \ {t} : actor'[u] = actor[u]
  BY DEF RunnerTypes
<1>2. PICK H : H = Holders
  OBVIOUS
<1>3. PICK K : K = Holders'
  OBVIOUS
<1>4. IsFiniteSet(H) /\ IsFiniteSet(K)
  BY <1>2, <1>3, RunnerFinite, FS_Subset DEF Holders
<1>5. Cardinality(H) \in Nat /\ Cardinality(K) \in Nat
  BY <1>4, FS_CardinalityType
<1>6. /\ H \ {t} = K \ {t}
      /\ t \in H <=> Holding(actor[t]) = 1
      /\ t \in K <=> Holding(b) = 1
      /\ Holding(actor[t]) \in {0, 1} /\ Holding(b) \in {0, 1}
  BY <1>1, <1>2, <1>3 DEF Holders, Holding
<1>7. /\ Cardinality(H \ {t}) = Cardinality(H) - Holding(actor[t])
      /\ Cardinality(K \ {t}) = Cardinality(K) - Holding(b)
  <2>1. Cardinality(H \ {t}) = IF t \in H THEN Cardinality(H) - 1 ELSE Cardinality(H)
    BY <1>4, FS_RemoveElement
  <2>2. Cardinality(K \ {t}) = IF t \in K THEN Cardinality(K) - 1 ELSE Cardinality(K)
    BY <1>4, FS_RemoveElement
  <2> QED BY <1>5, <1>6, <2>1, <2>2
<1>8. Cardinality(K) = Cardinality(H) - Holding(actor[t]) + Holding(b)
  <2>1. Cardinality(K) - Holding(b) = Cardinality(H) - Holding(actor[t])
    BY <1>6, <1>7
  <2> QED BY <1>5, <1>6, <2>1
<1> QED
  BY <1>2, <1>3, <1>5, <1>8

\* An experiment whose handler and runner the step of t does not change.
LEMMA OtherItem ==
  ASSUME NEW e \in Experiments, ItemInv(e), NEW t \in RunnerThreads,
         \A u \in RunnerThreads \ {t} : actor'[u] = actor[u],
         ~Handles(t, e), ~Handles(t, e)', Runs(t, e)' <=> Runs(t, e),
         future'[e] = future[e],
         e \in scheduled' <=> e \in scheduled,
         e \in Waiting' <=> e \in Waiting
  PROVE  ItemInv(e)'
<1>1. \A u \in RunnerThreads : /\ Handles(u, e)' <=> Handles(u, e)
                               /\ Runs(u, e)' <=> Runs(u, e)
                               /\ Handles(u, e) => actor'[u] = actor[u]
  BY DEF Handles, Runs
<1>2. Attached(e)' <=> Attached(e)
  BY DEF Attached
<1>3. \A u \in RunnerThreads : Handles(u, e)' => InCharge(u, e)' /\ ~Attached(e)'
  BY <1>1, <1>2 DEF ItemInv, InCharge
<1> QED
  BY <1>1, <1>2, <1>3 DEF ItemInv

\* The other threads' own invariant.
LEMMA OtherActors ==
  ASSUME RunnerInv, NEW t \in RunnerThreads, NEW b, actor' = [actor EXCEPT ![t] = b],
         shut' = shut, \A e \in Experiments : row'[e] = "none" => row[e] = "none",
         ActorInv(t)'
  PROVE  \A u \in RunnerThreads : ActorInv(u)'
<1>1. actor'[t] = b /\ \A u \in RunnerThreads \ {t} : actor'[u] = actor[u]
  BY DEF RunnerInv, RunnerTypes
<1>2. ASSUME NEW u \in RunnerThreads PROVE ActorInv(u)'
  <2>1. CASE u = t
    BY <2>1
  <2>2. CASE u # t
    <3>1. ActorInv(u) /\ actor'[u] = actor[u]
      BY <1>1, <2>2 DEF RunnerInv
    <3> QED BY <3>1 DEF ActorInv
  <2> QED BY <2>1, <2>2
<1> QED
  BY <1>2
LEMMA LookTurn ==
  ASSUME RunnerTypes, NEW t \in RunnerThreads, NEW b, actor' = [actor EXCEPT ![t] = b],
         NEW e, WillLook(e),
         \/ Looks(b, e) \/ scheduled' # {} \/ todo' # {}
         \/ ~Looks(actor[t], e) /\ UNCHANGED <<scheduled, todo>>
  PROVE  WillLook(e)'
<1>1. actor'[t] = b /\ \A u \in RunnerThreads \ {t} : actor'[u] = actor[u]
  BY DEF RunnerTypes
<1>2. CASE Looks(b, e)
  <2>1. Looks(actor[t], e)'
    BY <1>1, <1>2 DEF Looks
  <2> QED BY <2>1 DEF WillLook
<1>3. CASE scheduled' # {} \/ todo' # {}
  BY <1>3 DEF WillLook
<1>4. CASE ~Looks(actor[t], e) /\ UNCHANGED <<scheduled, todo>>
  <2>1. ASSUME NEW u \in RunnerThreads, Looks(actor[u], e) PROVE Looks(actor[u], e)'
    <3>1. u # t
      BY <1>4, <2>1
    <3>2. actor'[u] = actor[u]
      BY <1>1, <3>1
    <3> QED BY <2>1, <3>2 DEF Looks
  <2> QED BY <1>4, <2>1 DEF WillLook
<1> QED
  BY <1>2, <1>3, <1>4

\* A step of one thread that leaves the scheduled ids, the queue and the futures alone.
LEMMA QuietTurn ==
  ASSUME RunnerInv, NEW t \in RunnerThreads, NEW b \in ActorState, actor' = [actor EXCEPT ![t] = b],
         UNCHANGED <<scheduled, executor, future, shut>>,
         {actor[t].pc, b.pc} \cap {"enqueueing", "tracking", "releasing"} = {},
         \/ {actor[t].pc, b.pc} \cap {"starting", "executing", "ending"} = {}
         \/ {actor[t].pc, b.pc} \subseteq {"starting", "executing", "ending"} /\ b.id = actor[t].id,
         row' \in [Experiments -> {"none", "queued", "running", "over"}],
         \A e \in Experiments : row'[e] = "none" => row[e] = "none",
         todo' \subseteq Experiments, shut = "boot" => todo' = {},
         ActorInv(t)',
         slots' \in Nat, slots' = slots + Holding(actor[t]) - Holding(b),
         shut = "no" => \A e \in Queued' : WillLook(e)'
  PROVE  RunnerInv'
<1>1. RunnerTypes /\ actor' \in [RunnerThreads -> ActorState]
      /\ actor'[t] = b /\ \A u \in RunnerThreads \ {t} : actor'[u] = actor[u]
  BY DEF RunnerInv, RunnerTypes
<1>2. RunnerTypes'
  BY <1>1 DEF RunnerTypes
<1>3. \A u \in RunnerThreads : ActorInv(u)'
  BY OtherActors
<1>4. ASSUME NEW e \in Experiments PROVE ItemInv(e)'
  <2>1. ~Handles(t, e) /\ ~Handles(t, e)' /\ (Runs(t, e)' <=> Runs(t, e))
    BY <1>1 DEF Handles, Runs
  <2>2. Waiting' = Waiting
    BY DEF Waiting
  <2>3. ItemInv(e)
    BY DEF RunnerInv
  <2> QED BY <1>1, <2>1, <2>2, <2>3, OtherItem
<1>5. SlotsAccounted'
  <2>1. Cardinality(Holders) \in Nat
        /\ Cardinality(Holders') = Cardinality(Holders) - Holding(actor[t]) + Holding(b)
    BY <1>1, HoldersChange
  <2>2. Cardinality(scheduled) \in Nat
    BY <1>1, RunnerFinite, FS_Subset, FS_CardinalityType DEF RunnerTypes
  <2>3. slots + Cardinality(scheduled) + Cardinality(Holders) = Capacity
    BY DEF RunnerInv, SlotsAccounted, Holders
  <2>4. slots' + Cardinality(scheduled) + Cardinality(Holders') = Capacity
    <3>1. slots \in Nat /\ Holding(actor[t]) \in Nat /\ Holding(b) \in Nat
      BY <1>1 DEF RunnerTypes, Holding
    <3> QED BY <2>1, <2>2, <2>3, <3>1
  <2> QED BY <2>4 DEF SlotsAccounted, Holders, Capacity
<1> QED
  BY <1>2, <1>3, <1>4, <1>5 DEF RunnerInv, BootInv

LEMMA AcquireSlotStep ==
  ASSUME RunnerInv, NEW t \in RunnerThreads, AcquireSlot(t)
  PROVE  RunnerInv'
<1>1. RunnerTypes /\ actor[t] \in ActorState /\ actor[t].pc = "acquiring" /\ ActorInv(t)
  BY DEF RunnerInv, RunnerTypes, AcquireSlot, Does
<1>2. PICK b : b = [actor[t] EXCEPT !.pc = "registering"]
  OBVIOUS
<1>3. b \in ActorState /\ b.pc = "registering" /\ b.id = actor[t].id
  BY <1>1, <1>2 DEF ActorState, Pcs
<1>4. actor' = [actor EXCEPT ![t] = b] /\ actor'[t] = b
      /\ UNCHANGED <<scheduled, executor, future, shut, row, todo>>
  BY <1>1, <1>2 DEF AcquireSlot, Then, RunnerTypes
<1>5. slots' \in Nat /\ slots' = slots + Holding(actor[t]) - Holding(b)
  BY <1>1, <1>3 DEF AcquireSlot, Holding, RunnerTypes
<1>6. ActorInv(t)'
  BY <1>1, <1>3, <1>4 DEF ActorInv
<1>7. shut = "no" => \A e \in Queued' : WillLook(e)'
  BY <1>1, <1>3, <1>4, LookTurn DEF RunnerInv, Queued, Looks
<1>8. row' \in [Experiments -> {"none", "queued", "running", "over"}] /\ todo' \subseteq Experiments
  BY <1>1, <1>4 DEF RunnerTypes
<1> QED
  BY <1>1, <1>3, <1>4, <1>5, <1>6, <1>7, <1>8, AfterBoot, QuietTurn
LEMMA FirstIsOne ==
  ASSUME NEW S \in SUBSET Experiments, S # {}
  PROVE  Min(S) \in S
<1> DEFINE R == {ss \in Nat \X Nat : ss[1] < ss[2]}
<1>1. IsWellFoundedOn(R, Nat)
  BY NatLessThanWellFounded, Zenon DEF OpToRel
<1>2. S \subseteq Nat
  BY RunnerFinite
<1>3. PICK x \in S : \A y \in S : ~(<<y, x>> \in R)
  <2> HIDE DEF R
  <2> QED BY <1>1, <1>2, WFMin, Zenon
<1>4. ASSUME NEW y \in S PROVE x <= y
  <2>1. x \in Nat /\ y \in Nat /\ ~(<<y, x>> \in R)
    BY <1>2, <1>3
  <2>2. y < x => <<y, x>> \in R
    <3>1. <<y, x>>[1] = y /\ <<y, x>>[2] = x /\ <<y, x>> \in Nat \X Nat
      BY <2>1
    <3> QED BY <3>1, <2>1
  <2> QED BY <2>1, <2>2
<1> QED
  BY <1>4 DEF Min

LEMMA AwayState ==
  Away \in ActorState /\ Away.pc = "away" /\ Holding(Away) = 0 /\ \A e : ~Looks(Away, e)
BY DEF Away, ActorState, Pcs, Holding, Looks

\* An ActorState about to acquire a slot for e.
Submitting(e) == [Away EXCEPT !.pc = "acquiring", !.id = e]
LEMMA SubmittingState ==
  ASSUME NEW e \in Experiments
  PROVE  /\ Submitting(e) \in ActorState /\ Submitting(e).pc = "acquiring" /\ Submitting(e).id = e
         /\ Holding(Submitting(e)) = 0
         /\ \A x : Looks(Submitting(e), x)
BY DEF Submitting, Away, ActorState, Pcs, Holding, Looks

LEMMA QueueFullStep ==
  ASSUME RunnerInv, NEW t \in RunnerThreads, QueueFull(t)
  PROVE  RunnerInv'
<1>1. RunnerTypes /\ actor[t] \in ActorState /\ actor[t].pc = "acquiring" /\ ActorInv(t) /\ slots = 0
  BY DEF RunnerInv, RunnerTypes, QueueFull, Does
<1>2. PICK b : b = Away
  OBVIOUS
<1>3. b \in ActorState /\ b.pc = "away" /\ Holding(b) = 0
  BY <1>2, AwayState
<1>4. /\ actor' = [actor EXCEPT ![t] = b] /\ actor'[t] = b
      /\ UNCHANGED <<scheduled, executor, future, shut, row, slots>>
      /\ todo' \subseteq Experiments
  BY <1>1, <1>2 DEF QueueFull, Return, RunnerTypes
<1>5. slots' \in Nat /\ slots' = slots + Holding(actor[t]) - Holding(b)
  BY <1>1, <1>3, <1>4 DEF Holding, RunnerTypes
<1>6. ActorInv(t)'
  BY <1>1, <1>3, <1>4 DEF ActorInv
<1>7. scheduled # {} \/ \E u \in RunnerThreads : actor[u].pc \in {"registering", "returning"}
  <2>1. SUFFICES ASSUME scheduled = {}, Holders = {} PROVE FALSE
    BY DEF Holders
  <2>2. Cardinality(scheduled) = 0 /\ Cardinality(Holders) = 0
    BY <2>1, FS_EmptySet
  <2> QED BY <1>1, <2>2, RunnerFinite DEF RunnerInv, SlotsAccounted, Holders
<1>8. ASSUME NEW e PROVE WillLook(e)'
  <2>1. CASE scheduled # {}
    BY <1>4, <2>1 DEF WillLook
  <2>2. CASE \E u \in RunnerThreads : actor[u].pc \in {"registering", "returning"}
    <3>1. PICK u \in RunnerThreads : actor[u].pc \in {"registering", "returning"}
      BY <2>2
    <3>2. u # t
      BY <1>1, <3>1
    <3>3. actor'[u] = actor[u]
      BY <1>1, <1>4, <3>2 DEF RunnerTypes
    <3>4. Looks(actor[u], e)'
      BY <3>1, <3>3 DEF Looks
    <3> QED BY <3>4 DEF WillLook
  <2> QED BY <1>7, <2>1, <2>2
<1>9. row' \in [Experiments -> {"none", "queued", "running", "over"}]
  BY <1>1, <1>4 DEF RunnerTypes
<1> QED
  BY <1>1, <1>3, <1>4, <1>5, <1>6, <1>8, <1>9, AfterBoot, QuietTurn

LEMMA DiscardStep ==
  ASSUME RunnerInv, NEW t \in RunnerThreads, Register(t), shut # "no" \/ Id(t) \in scheduled
  PROVE  RunnerInv'
<1>1. RunnerTypes /\ actor[t] \in ActorState /\ actor[t].pc = "registering" /\ ActorInv(t)
  BY DEF RunnerInv, RunnerTypes, Register, Does
<1>2. PICK b : b = Away
  OBVIOUS
<1>3. b \in ActorState /\ b.pc = "away" /\ Holding(b) = 0
  BY <1>2, AwayState
<1>4. /\ actor' = [actor EXCEPT ![t] = b] /\ actor'[t] = b
      /\ UNCHANGED <<scheduled, executor, future, shut, row, todo>> /\ slots' = slots + 1
  BY <1>1, <1>2 DEF Register, Return, RunnerTypes
<1>5. slots' \in Nat /\ slots' = slots + Holding(actor[t]) - Holding(b)
  BY <1>1, <1>3, <1>4 DEF Holding, RunnerTypes
<1>6. ActorInv(t)'
  BY <1>1, <1>3, <1>4 DEF ActorInv
<1>7. shut = "no" => \A e : WillLook(e)'
  BY <1>4 DEF WillLook
<1>8. row' \in [Experiments -> {"none", "queued", "running", "over"}] /\ todo' \subseteq Experiments
  BY <1>1, <1>4 DEF RunnerTypes
<1> QED
  BY <1>1, <1>3, <1>4, <1>5, <1>6, <1>7, <1>8, AfterBoot, QuietTurn

\* _execute up to the end of the future: the row changes, never to "none".
LEMMA ExecuteStep ==
  ASSUME RunnerInv, NEW p \in PoolThreads, StartJob(p) \/ CompleteOrFail(p)
  PROVE  RunnerInv'
<1>1. /\ p \in RunnerThreads /\ RunnerTypes /\ actor[p] \in ActorState
      /\ actor[p].pc \in {"starting", "executing"} /\ ActorInv(p)
      /\ p \notin Experiments
  BY RunnerAssumption DEF RunnerInv, RunnerTypes, StartJob, CompleteOrFail, Does, RunnerThreads
<1>2. PICK pc \in {"executing", "ending"} : actor' = [actor EXCEPT ![p].pc = pc]
  BY DEF StartJob, CompleteOrFail, Then
<1>3. PICK b : b = [actor[p] EXCEPT !.pc = pc]
  OBVIOUS
<1>4. b \in ActorState /\ b.pc = pc /\ b.id = actor[p].id /\ b.id \in Experiments
  BY <1>1, <1>3 DEF ActorState, Pcs, ActorInv
<1>5. actor' = [actor EXCEPT ![p] = b] /\ actor'[p] = b
      /\ UNCHANGED <<scheduled, executor, future, shut, slots, todo>>
  BY <1>1, <1>2, <1>3 DEF StartJob, CompleteOrFail, RunnerTypes
<1>6. PICK i \in Experiments : i = Id(p)
  BY <1>1 DEF ActorInv, Id
<1>7. /\ row' \in [Experiments -> {"none", "queued", "running", "over"}]
      /\ \A e \in Experiments : row'[e] \in {"none", "queued"} => row'[e] = row[e]
  <2>1. \/ row' = row
        \/ row' = [row EXCEPT ![i] = "running"]
        \/ row' = [row EXCEPT ![i] = "over"]
    BY <1>6 DEF StartJob, CompleteOrFail
  <2> QED BY <1>1, <2>1 DEF RunnerTypes
<1>8. slots' \in Nat /\ slots' = slots + Holding(actor[p]) - Holding(b)
  BY <1>1, <1>4, <1>5 DEF Holding, RunnerTypes
<1>9. ActorInv(p)'
  BY <1>1, <1>4, <1>5 DEF ActorInv
<1>10. shut = "no" => \A e \in Queued' : WillLook(e)'
  <2> SUFFICES ASSUME shut = "no", NEW e \in Queued' PROVE WillLook(e)'
    OBVIOUS
  <2>1. e \in Queued
    BY <1>7 DEF Queued
  <2>2. WillLook(e) /\ ~Looks(actor[p], e)
    BY <1>1, <2>1 DEF RunnerInv, Looks
  <2> QED BY <1>1, <1>5, <2>2, LookTurn
<1>11. todo' \subseteq Experiments
  BY <1>1, <1>5 DEF RunnerTypes
<1> QED
  BY <1>1, <1>4, <1>5, <1>7, <1>8, <1>9, <1>10, <1>11, AfterBoot, QuietTurn
LEMMA ReturnSlotStep ==
  ASSUME RunnerInv, NEW t \in RunnerThreads, ReturnSlot(t)
  PROVE  RunnerInv'
<1>1. RunnerTypes /\ actor[t] \in ActorState /\ actor[t].pc = "returning" /\ ActorInv(t)
  BY DEF RunnerInv, RunnerTypes, ReturnSlot, Does
<1>2. PICK b : b = IF actor[t].should_schedule THEN [actor[t] EXCEPT !.pc = "querying"] ELSE Away
  OBVIOUS
<1>3. /\ b \in ActorState /\ Holding(b) = 0
      /\ b.pc = IF actor[t].should_schedule THEN "querying" ELSE "away"
  <2>1. CASE actor[t].should_schedule
    <3>1. b = [actor[t] EXCEPT !.pc = "querying"]
      BY <1>2, <2>1
    <3> QED BY <1>1, <2>1, <3>1 DEF ActorState, Pcs, Holding
  <2>2. CASE ~actor[t].should_schedule
    BY <1>2, <2>2, AwayState
  <2> QED BY <2>1, <2>2
<1>4. /\ actor' = [actor EXCEPT ![t] = b] /\ actor'[t] = b
      /\ UNCHANGED <<scheduled, executor, future, shut, row, todo>> /\ slots' = slots + 1
  BY <1>1, <1>2 DEF ReturnSlot, Return, Then, RunnerTypes
<1>5. slots' \in Nat /\ slots' = slots + Holding(actor[t]) - Holding(b)
  BY <1>1, <1>3, <1>4 DEF Holding, RunnerTypes
<1>6. ActorInv(t)'
  BY <1>1, <1>3, <1>4 DEF ActorInv
<1>7. shut = "no" => \A e \in Queued' : WillLook(e)'
  <2>1. shut = "no" => b.pc = "querying"
    BY <1>1, <1>3 DEF ActorInv
  <2> QED BY <1>1, <1>4, <2>1, LookTurn DEF RunnerInv, Queued, Looks
<1>8. row' \in [Experiments -> {"none", "queued", "running", "over"}] /\ todo' \subseteq Experiments
  BY <1>1, <1>4 DEF RunnerTypes
<1>9. {actor[t].pc, b.pc} \cap {"enqueueing", "tracking", "releasing"} = {}
      /\ {actor[t].pc, b.pc} \cap {"starting", "executing", "ending"} = {}
  BY <1>1, <1>3
<1> QED
  BY <1>1, <1>3, <1>4, <1>5, <1>6, <1>7, <1>8, <1>9, AfterBoot, QuietTurn

LEMMA QueryPendingStep ==
  ASSUME RunnerInv, NEW t \in RunnerThreads, QueryPending(t)
  PROVE  RunnerInv'
<1>1. RunnerTypes /\ actor[t] \in ActorState /\ actor[t].pc = "querying" /\ ActorInv(t)
  BY DEF RunnerInv, RunnerTypes, QueryPending, Does
<1>2. PICK b : b = [actor[t] EXCEPT !.pc = "choosing", !.seen = Queued]
  OBVIOUS
<1>3. b \in ActorState /\ b.pc = "choosing" /\ b.seen = Queued
  BY <1>1, <1>2 DEF ActorState, Pcs, Queued
<1>4. /\ actor' = [actor EXCEPT ![t] = b] /\ actor'[t] = b
      /\ UNCHANGED <<scheduled, executor, future, shut, row, todo, slots>>
  BY <1>1, <1>2 DEF QueryPending, RunnerTypes
<1>5. slots' \in Nat /\ slots' = slots + Holding(actor[t]) - Holding(b)
  BY <1>1, <1>3, <1>4 DEF Holding, RunnerTypes
<1>6. ActorInv(t)'
  BY <1>1, <1>3, <1>4 DEF ActorInv
<1>7. shut = "no" => \A e \in Queued' : WillLook(e)'
  BY <1>1, <1>3, <1>4, LookTurn DEF RunnerInv, Queued, Looks
<1>8. row' \in [Experiments -> {"none", "queued", "running", "over"}] /\ todo' \subseteq Experiments
  BY <1>1, <1>4 DEF RunnerTypes
<1> QED
  BY <1>1, <1>3, <1>4, <1>5, <1>6, <1>7, <1>8, AfterBoot, QuietTurn

LEMMA ChooseNextStep ==
  ASSUME RunnerInv, NEW t \in RunnerThreads, ChooseNext(t)
  PROVE  RunnerInv'
<1>1. /\ RunnerTypes /\ actor[t] \in ActorState /\ actor[t].pc = "choosing" /\ ActorInv(t)
      /\ actor[t].seen \subseteq Experiments
  BY DEF RunnerInv, RunnerTypes, ChooseNext, Does, ActorState
<1>2. PICK pending : pending = actor[t].seen \ scheduled
  OBVIOUS
<1>3. PICK b : b = IF pending = {} THEN Away ELSE Submitting(Min(pending))
  OBVIOUS
<1>4. /\ b \in ActorState /\ Holding(b) = 0
      /\ \/ b.pc = "away" /\ pending = {}
         \/ b.pc = "acquiring" /\ b.id \in Experiments
  <2>1. CASE pending = {}
    BY <1>3, <2>1, AwayState
  <2>2. CASE pending # {}
    <3>1. PICK i \in Experiments : i = Min(pending)
      BY <1>1, <1>2, <2>2, FirstIsOne
    <3>2. b = Submitting(i)
      BY <1>3, <2>2, <3>1
    <3> QED BY <3>2, SubmittingState
  <2> QED BY <2>1, <2>2
<1>5. /\ actor' = [actor EXCEPT ![t] = b] /\ actor'[t] = b
      /\ UNCHANGED <<scheduled, executor, future, shut, row, todo, slots>>
  <2>1. actor' = [actor EXCEPT ![t] = b]
    BY <1>2, <1>3 DEF ChooseNext, Submitting
  <2> QED BY <1>1, <2>1 DEF ChooseNext, RunnerTypes
<1>6. slots' \in Nat /\ slots' = slots + Holding(actor[t]) - Holding(b)
  BY <1>1, <1>4, <1>5 DEF Holding, RunnerTypes
<1>7. ActorInv(t)'
  BY <1>1, <1>4, <1>5 DEF ActorInv
<1>8. shut = "no" => \A e \in Queued' : WillLook(e)'
  <2> SUFFICES ASSUME shut = "no", NEW e \in Queued PROVE WillLook(e)'
    BY <1>5 DEF Queued
  <2>1. WillLook(e)
    BY DEF RunnerInv
  <2>2. CASE b.pc = "acquiring"
    BY <1>1, <1>5, <2>1, <2>2, LookTurn DEF Looks
  <2>3. CASE pending = {}
    <3>1. scheduled # {} \/ ~Looks(actor[t], e)
      BY <1>1, <1>2, <2>3 DEF Looks
    <3> QED BY <1>1, <1>5, <2>1, <3>1, LookTurn
  <2> QED BY <1>4, <2>2, <2>3
<1>9. row' \in [Experiments -> {"none", "queued", "running", "over"}] /\ todo' \subseteq Experiments
  BY <1>1, <1>5 DEF RunnerTypes
<1>10. {actor[t].pc, b.pc} \cap {"enqueueing", "tracking", "releasing"} = {}
      /\ {actor[t].pc, b.pc} \cap {"starting", "executing", "ending"} = {}
  BY <1>1, <1>4
<1> QED
  BY <1>1, <1>4, <1>5, <1>6, <1>7, <1>8, <1>9, <1>10, AfterBoot, QuietTurn

LEMMA SubmitRecoveredStep ==
  ASSUME RunnerInv, SubmitRecovered
  PROVE  RunnerInv'
<1>1. /\ Startup \in RunnerThreads /\ Startup \notin Experiments
      /\ RunnerTypes /\ actor[Startup] \in ActorState /\ actor[Startup].pc = "away"
      /\ todo # {} /\ todo \subseteq Experiments
  BY RunnerFinite DEF RunnerInv, RunnerTypes, SubmitRecovered, Does, RunnerThreads, Startup
<1>2. PICK i \in Experiments : i = Min(todo)
  BY <1>1, FirstIsOne
<1>3. PICK b : b = Submitting(i)
  OBVIOUS
<1>4. b \in ActorState /\ b.pc = "acquiring" /\ b.id \in Experiments /\ Holding(b) = 0
      /\ \A x : Looks(b, x)
  BY <1>3, SubmittingState
<1>5. /\ actor' = [actor EXCEPT ![Startup] = b] /\ todo' \subseteq Experiments
      /\ UNCHANGED <<scheduled, executor, future, shut, row, slots>>
  BY <1>1, <1>2, <1>3 DEF SubmitRecovered, Submitting
<1>6. actor'[Startup] = b
  BY <1>1, <1>5 DEF RunnerTypes
<1>7. slots' \in Nat /\ slots' = slots + Holding(actor[Startup]) - Holding(b)
  BY <1>1, <1>4, <1>5 DEF Holding, RunnerTypes
<1>8. shut # "boot"
  BY RunnerFinite, <1>1 DEF RunnerInv, BootInv
<1>9. ActorInv(Startup)'
  BY <1>1, <1>4, <1>5, <1>6, <1>8 DEF ActorInv
<1>10. shut = "no" => \A e \in Queued' : WillLook(e)'
  BY <1>1, <1>4, <1>5, LookTurn DEF RunnerInv, Queued
<1>11. row' \in [Experiments -> {"none", "queued", "running", "over"}]
  BY <1>1, <1>5 DEF RunnerTypes
<1> QED
  BY <1>1, <1>4, <1>5, <1>6, <1>7, <1>8, <1>9, <1>10, <1>11, QuietTurn

LEMMA CreateRowStep ==
  ASSUME RunnerInv, NEW c \in Experiments, CreateRow(c)
  PROVE  RunnerInv'
<1>1. /\ c \in RunnerThreads /\ RunnerTypes /\ actor[c] \in ActorState
      /\ shut # "boot" /\ row[c] = "none"
  BY DEF RunnerInv, RunnerTypes, CreateRow, RunnerThreads
<1>2. actor[c].pc = "away"
  BY <1>1 DEF RunnerInv, ActorInv
<1>3. PICK b : b = Submitting(c)
  OBVIOUS
<1>4. b \in ActorState /\ b.pc = "acquiring" /\ b.id \in Experiments /\ Holding(b) = 0
      /\ \A x : Looks(b, x)
  BY <1>3, SubmittingState
<1>5. /\ actor' = [actor EXCEPT ![c] = b] /\ row' = [row EXCEPT ![c] = "queued"]
      /\ UNCHANGED <<scheduled, executor, future, shut, slots, todo>>
  BY <1>3 DEF CreateRow, Submitting
<1>6. actor'[c] = b /\ row'[c] = "queued"
  BY <1>1, <1>5 DEF RunnerTypes
<1>7. slots' \in Nat /\ slots' = slots + Holding(actor[c]) - Holding(b)
  BY <1>1, <1>2, <1>4, <1>5 DEF Holding, RunnerTypes
<1>8. ActorInv(c)'
  BY <1>1, <1>4, <1>5, <1>6 DEF ActorInv
<1>9. shut = "no" => \A e \in Queued' : WillLook(e)'
  <2>1. \A e : Looks(actor[c], e)'
    BY <1>4, <1>6 DEF Looks
  <2> QED BY <1>1, <2>1 DEF WillLook
<1>10. /\ row' \in [Experiments -> {"none", "queued", "running", "over"}] /\ todo' \subseteq Experiments
       /\ \A e \in Experiments : row'[e] = "none" => row[e] = "none"
  BY <1>1, <1>5 DEF RunnerTypes
<1> QED
  BY <1>1, <1>2, <1>4, <1>5, <1>6, <1>7, <1>8, <1>9, <1>10, AfterBoot, QuietTurn
\* The queue of the pool: what is appended and what is taken.
LEMMA QueueGrows ==
  ASSUME RunnerTypes, NEW i \in Experiments, i \notin Waiting, executor' = Append(executor, i)
  PROVE  /\ executor' \in Seq(Experiments) /\ Waiting' = Waiting \cup {i}
         /\ \A j, k \in 1..Len(executor') : executor'[j] = executor'[k] => j = k
<1>1. /\ executor \in Seq(Experiments) /\ Len(executor) \in Nat
      /\ \A j, k \in 1..Len(executor) : executor[j] = executor[k] => j = k
  BY DEF RunnerTypes
<1>2. /\ executor' \in Seq(Experiments) /\ Len(executor') = Len(executor) + 1
      /\ executor'[Len(executor) + 1] = i
      /\ \A j \in 1..Len(executor) : executor'[j] = executor[j]
  BY <1>1
<1>3. \A j \in 1..Len(executor') : j \in 1..Len(executor) \/ j = Len(executor) + 1
  BY <1>1, <1>2
<1>4. \A j \in 1..Len(executor) : j \in 1..Len(executor') /\ executor[j] # i
  BY <1>1, <1>2 DEF Waiting
<1>5. Waiting' = Waiting \cup {i}
  BY <1>1, <1>2, <1>3, <1>4 DEF Waiting
<1>6. ASSUME NEW j \in 1..Len(executor'), NEW k \in 1..Len(executor'), executor'[j] = executor'[k]
      PROVE  j = k
  BY <1>1, <1>2, <1>3, <1>4, <1>6
<1> QED
  BY <1>2, <1>5, <1>6

LEMMA QueueShrinks ==
  ASSUME RunnerTypes, executor # <<>>, executor' = Tail(executor)
  PROVE  /\ executor' \in Seq(Experiments) /\ Head(executor) \in Waiting
         /\ Waiting' = Waiting \ {Head(executor)}
         /\ \A j, k \in 1..Len(executor') : executor'[j] = executor'[k] => j = k
<1>1. /\ executor \in Seq(Experiments) /\ Len(executor) \in Nat /\ Len(executor) > 0
      /\ \A j, k \in 1..Len(executor) : executor[j] = executor[k] => j = k
  BY DEF RunnerTypes
<1>2. /\ executor' \in Seq(Experiments) /\ Len(executor') = Len(executor) - 1
      /\ Head(executor) = executor[1]
      /\ \A j \in 1..Len(executor') : executor'[j] = executor[j + 1]
  BY <1>1
<1>3. \A j \in 1..Len(executor') : j + 1 \in 1..Len(executor) /\ j + 1 # 1
  BY <1>1, <1>2
<1>4. \A j \in 1..Len(executor) : j = 1 \/ (j - 1 \in 1..Len(executor') /\ (j - 1) + 1 = j)
  BY <1>1, <1>2
<1>5. 1 \in 1..Len(executor)
  BY <1>1
<1>6. Waiting' = Waiting \ {Head(executor)}
  <2>1. ASSUME NEW x \in Waiting' PROVE x \in Waiting \ {Head(executor)}
    <3>1. PICK j \in 1..Len(executor') : x = executor'[j]
      BY DEF Waiting
    <3>2. x = executor[j + 1] /\ j + 1 \in 1..Len(executor) /\ j + 1 # 1
      BY <1>2, <1>3, <3>1
    <3>3. x # executor[1]
      BY <1>1, <1>5, <3>2
    <3> QED BY <1>2, <3>2, <3>3 DEF Waiting
  <2>2. ASSUME NEW x \in Waiting, x # Head(executor) PROVE x \in Waiting'
    <3>1. PICK j \in 1..Len(executor) : x = executor[j]
      BY DEF Waiting
    <3>2. j - 1 \in 1..Len(executor') /\ (j - 1) + 1 = j
      BY <1>2, <1>4, <2>2, <3>1
    <3>3. executor'[j - 1] = x
      BY <1>2, <3>1, <3>2
    <3> QED BY <3>2, <3>3 DEF Waiting
  <2> QED BY <2>1, <2>2
<1>7. ASSUME NEW j \in 1..Len(executor'), NEW k \in 1..Len(executor'), executor'[j] = executor'[k]
      PROVE  j = k
  <2>1. j + 1 = k + 1
    BY <1>1, <1>2, <1>3, <1>7
  <2> QED BY <1>2, <2>1
<1> QED
  BY <1>2, <1>5, <1>6, <1>7 DEF Waiting

\* The scheduled ids, one more or one less.
LEMMA ScheduledCount ==
  ASSUME RunnerTypes, NEW i \in Experiments
  PROVE  /\ Cardinality(scheduled) \in Nat
         /\ i \notin scheduled => Cardinality(scheduled \cup {i}) = Cardinality(scheduled) + 1
         /\ i \in scheduled => Cardinality(scheduled \ {i}) = Cardinality(scheduled) - 1
<1>1. IsFiniteSet(scheduled)
  BY RunnerFinite, FS_Subset DEF RunnerTypes
<1> QED
  BY <1>1, FS_CardinalityType, FS_AddElement, FS_RemoveElement

LEMMA Balance ==
  ASSUME NEW s \in Nat, NEW r \in Nat, NEW c \in Nat, NEW d \in Nat, NEW m \in Nat, NEW n \in Nat,
         NEW x \in Nat, NEW y \in Nat,
         n = m - x + y, r + d + y = s + c + x
  PROVE  r + d + n = s + c + m
OBVIOUS

\* Permits go from the semaphore to a thread or an id, and back.
LEMMA SlotsTurn ==
  ASSUME RunnerTypes, SlotsAccounted, NEW t \in RunnerThreads, NEW b,
         actor' = [actor EXCEPT ![t] = b], scheduled' \subseteq Experiments, slots' \in Nat,
         slots' + Cardinality(scheduled') + Holding(b)
           = slots + Cardinality(scheduled) + Holding(actor[t])
  PROVE  SlotsAccounted'
<1>1. PICK n \in Nat, m \in Nat : n = Cardinality(Holders') /\ m = Cardinality(Holders)
          /\ n = m - Holding(actor[t]) + Holding(b)
  <2>1. IsFiniteSet(Holders')
    BY RunnerFinite, FS_Subset DEF Holders
  <2> QED BY <2>1, HoldersChange, FS_CardinalityType
<1>2. PICK c \in Nat, d \in Nat : c = Cardinality(scheduled) /\ d = Cardinality(scheduled')
  BY RunnerFinite, FS_Subset, FS_CardinalityType DEF RunnerTypes
<1>3. slots \in Nat /\ Holding(actor[t]) \in Nat /\ Holding(b) \in Nat
  BY DEF RunnerTypes, Holding
<1>4. slots + c + m = Capacity
  BY <1>1, <1>2 DEF SlotsAccounted, Holders
<1>5. slots' + d + n = Capacity
  <2>1. PICK x \in Nat, y \in Nat : x = Holding(actor[t]) /\ y = Holding(b)
    BY <1>3
  <2>2. n = m - x + y /\ slots' + d + y = slots + c + x
    BY <1>1, <1>2, <2>1
  <2>3. PICK r \in Nat, s \in Nat : r = slots' /\ s = slots
    BY <1>3
  <2>4. r + d + y = s + c + x
    BY <2>2, <2>3
  <2>5. r + d + n = s + c + m
    BY <2>2, <2>4, Balance
  <2> QED BY <1>4, <2>3, <2>5
<1> QED
  BY <1>1, <1>2, <1>5 DEF SlotsAccounted, Holders, Capacity

Working == {"enqueueing", "tracking", "releasing", "starting", "executing", "ending"}

\* A step of thread t that works on the experiment i, and on no other one.
LEMMA ItemTurn ==
  ASSUME RunnerInv, NEW t \in RunnerThreads, NEW b \in ActorState, actor' = [actor EXCEPT ![t] = b],
         NEW i \in Experiments,
         UNCHANGED <<row, todo, shut>>, shut # "boot",
         actor[t].pc \in Working => actor[t].id = i,
         b.pc \in Working => b.id = i,
         scheduled' \in {scheduled, scheduled \cup {i}, scheduled \ {i}},
         executor' \in Seq(Experiments),
         \A j, k \in 1..Len(executor') : executor'[j] = executor'[k] => j = k,
         Waiting' \in {Waiting, Waiting \cup {i}, Waiting \ {i}},
         NEW f \in FutureState, future' = [future EXCEPT ![i] = f],
         ItemInv(i)', ActorInv(t)',
         slots' \in Nat,
         slots' + Cardinality(scheduled') + Holding(b)
           = slots + Cardinality(scheduled) + Holding(actor[t]),
         shut = "no" => \A e \in Queued : WillLook(e)'
  PROVE  RunnerInv'
<1>1. RunnerTypes /\ actor' \in [RunnerThreads -> ActorState]
      /\ actor'[t] = b /\ \A u \in RunnerThreads \ {t} : actor'[u] = actor[u]
  BY DEF RunnerInv, RunnerTypes
<1>2. /\ future' \in [Experiments -> FutureState]
      /\ \A e \in Experiments \ {i} : future'[e] = future[e]
  BY <1>1 DEF RunnerTypes
<1>3. RunnerTypes'
  BY <1>1, <1>2 DEF RunnerTypes
<1>4. \A u \in RunnerThreads : ActorInv(u)'
  BY OtherActors
<1>5. ASSUME NEW e \in Experiments, e # i PROVE ItemInv(e)'
  <2>1. ~Handles(t, e) /\ ~Handles(t, e)' /\ ~Runs(t, e) /\ ~Runs(t, e)'
    BY <1>1, <1>5 DEF Handles, Runs, Working
  <2>2. (e \in scheduled' <=> e \in scheduled) /\ (e \in Waiting' <=> e \in Waiting)
    BY <1>5
  <2>3. ItemInv(e)
    BY DEF RunnerInv
  <2> QED BY <1>1, <1>2, <1>5, <2>1, <2>2, <2>3, OtherItem
<1>6. SlotsAccounted'
  BY <1>1, <1>3, SlotsTurn DEF RunnerInv, RunnerTypes
<1>7. BootInv' /\ Queued' = Queued
  BY DEF BootInv, Queued
<1> QED
  BY <1>3, <1>4, <1>5, <1>6, <1>7 DEF RunnerInv
LEMMA RegisterStep ==
  ASSUME RunnerInv, NEW t \in RunnerThreads, Register(t), shut = "no", Id(t) \notin scheduled
  PROVE  RunnerInv'
<1>1. RunnerTypes /\ actor[t] \in ActorState /\ actor[t].pc = "registering" /\ ActorInv(t)
  BY DEF RunnerInv, RunnerTypes, Register, Does
<1>2. PICK i \in Experiments : i = actor[t].id
  BY <1>1 DEF ActorInv
<1>3. PICK b : b = [actor[t] EXCEPT !.pc = "enqueueing"]
  OBVIOUS
<1>4. b \in ActorState /\ b.pc = "enqueueing" /\ b.id = i
  BY <1>1, <1>2, <1>3 DEF ActorState, Pcs
<1>5. /\ actor' = [actor EXCEPT ![t] = b] /\ scheduled' = scheduled \cup {i} /\ i \notin scheduled
      /\ UNCHANGED <<executor, future, shut, row, todo, slots>>
  BY <1>2, <1>3 DEF Register, Then, Id
<1>6. actor'[t] = b /\ \A u \in RunnerThreads \ {t} : actor'[u] = actor[u]
  BY <1>1, <1>5 DEF RunnerTypes
<1>7. ActorInv(t)'
  BY <1>4, <1>5, <1>6, <1>1 DEF ActorInv
<1>8. ItemInv(i) /\ ~Attached(i) /\ (\A u \in RunnerThreads : ~Handles(u, i))
      /\ future[i].state = "none" /\ ~future[i].callback
  BY <1>5 DEF RunnerInv, ItemInv
<1>9. future[i] = NoFuture
  BY <1>1, <1>8 DEF RunnerTypes, FutureState, NoFuture
<1>10. ItemInv(i)'
  <2>1. /\ Handles(t, i)' /\ \A u \in RunnerThreads \ {t} : ~Handles(u, i)'
        /\ \A u \in RunnerThreads : Runs(u, i)' <=> Runs(u, i)
    BY <1>1, <1>4, <1>6, <1>8 DEF Handles, Runs
  <2>2. ~Attached(i)' /\ Waiting' = Waiting
    BY <1>5, <1>8 DEF Attached, Waiting
  <2>3. InCharge(t, i)'
    BY <1>4, <1>5, <1>6, <1>9 DEF InCharge
  <2> QED BY <1>5, <1>8, <2>1, <2>2, <2>3 DEF ItemInv
<1>11. PICK f \in FutureState : future' = [future EXCEPT ![i] = f]
  BY <1>1, <1>5 DEF RunnerTypes
<1>12. slots' \in Nat /\ slots' + Cardinality(scheduled') + Holding(b)
                           = slots + Cardinality(scheduled) + Holding(actor[t])
  BY <1>1, <1>4, <1>5, ScheduledCount DEF Holding, RunnerTypes
<1>13. \A e : WillLook(e)'
  BY <1>5 DEF WillLook
<1>14. /\ executor' \in Seq(Experiments) /\ Waiting' = Waiting
       /\ \A j, k \in 1..Len(executor') : executor'[j] = executor'[k] => j = k
  BY <1>1, <1>5 DEF RunnerTypes, Waiting
<1> QED
  BY <1>1, <1>2, <1>4, <1>5, <1>7, <1>10, <1>11, <1>12, <1>13, <1>14, ItemTurn

LEMMA EnqueueStep ==
  ASSUME RunnerInv, NEW t \in RunnerThreads, Enqueue(t)
  PROVE  RunnerInv'
<1>1. RunnerTypes /\ actor[t] \in ActorState /\ actor[t].pc = "enqueueing" /\ ActorInv(t)
  BY DEF RunnerInv, RunnerTypes, Enqueue, Does
<1>2. PICK i \in Experiments : i = actor[t].id
  BY <1>1 DEF ActorInv
<1>3. PICK b : b = [actor[t] EXCEPT !.pc = "tracking"]
  OBVIOUS
<1>4. b \in ActorState /\ b.pc = "tracking" /\ b.id = i
  BY <1>1, <1>2, <1>3 DEF ActorState, Pcs
<1>5. PICK f : f = [state |-> "pending", callback |-> FALSE]
  OBVIOUS
<1>6. f \in FutureState /\ f.state = "pending" /\ ~f.callback
  BY <1>5 DEF FutureState
<1>7. /\ actor' = [actor EXCEPT ![t] = b] /\ executor' = Append(executor, i)
      /\ future' = [future EXCEPT ![i] = f]
      /\ UNCHANGED <<shut, row, todo, slots, scheduled>>
  BY <1>2, <1>3, <1>5 DEF Enqueue, Then, Id
<1>8. actor'[t] = b /\ (\A u \in RunnerThreads \ {t} : actor'[u] = actor[u]) /\ future'[i] = f
  BY <1>1, <1>7 DEF RunnerTypes
<1>9. ActorInv(t)'
  BY <1>1, <1>4, <1>7, <1>8 DEF ActorInv
<1>10. /\ ItemInv(i) /\ Handles(t, i) /\ future[i] = NoFuture /\ i \in scheduled /\ i \notin Waiting
       /\ \A u \in RunnerThreads : Handles(u, i) => u = t
       /\ \A u \in RunnerThreads : ~Runs(u, i)
  <2>1. Handles(t, i) /\ ItemInv(i)
    BY <1>1, <1>2 DEF Handles, RunnerInv
  <2>2. InCharge(t, i)
    BY <2>1 DEF ItemInv
  <2>3. future[i] = NoFuture /\ future[i].state = "none"
    BY <1>1, <2>2 DEF InCharge, NoFuture
  <2> QED BY <2>1, <2>3 DEF ItemInv
<1>11. /\ executor' \in Seq(Experiments) /\ Waiting' = Waiting \cup {i}
       /\ \A j, k \in 1..Len(executor') : executor'[j] = executor'[k] => j = k
  BY <1>1, <1>7, <1>10, QueueGrows
<1>12. ItemInv(i)'
  <2>1. /\ Handles(t, i)' /\ \A u \in RunnerThreads \ {t} : ~Handles(u, i)'
        /\ \A u \in RunnerThreads : ~Runs(u, i)'
    BY <1>4, <1>8, <1>10 DEF Handles, Runs
  <2>2. ~Attached(i)' /\ InCharge(t, i)'
    BY <1>4, <1>6, <1>8 DEF Attached, InCharge
  <2> QED BY <1>6, <1>7, <1>8, <1>10, <1>11, <2>1, <2>2 DEF ItemInv
<1>13. slots' \in Nat /\ slots' + Cardinality(scheduled') + Holding(b)
                           = slots + Cardinality(scheduled) + Holding(actor[t])
  BY <1>1, <1>4, <1>7 DEF Holding, RunnerTypes
<1>14. \A e : WillLook(e)'
  BY <1>7, <1>10 DEF WillLook
<1>15. shut # "boot"
  BY <1>1, AfterBoot
<1> QED
  BY <1>1, <1>2, <1>4, <1>6, <1>7, <1>9, <1>11, <1>12, <1>13, <1>14, <1>15, ItemTurn

LEMMA ExecutorRefusesStep ==
  ASSUME RunnerInv, NEW t \in RunnerThreads, ExecutorRefuses(t)
  PROVE  RunnerInv'
<1>1. /\ RunnerTypes /\ actor[t] \in ActorState /\ actor[t].pc = "enqueueing" /\ ActorInv(t)
      /\ shut = "down"
  BY DEF RunnerInv, RunnerTypes, ExecutorRefuses, Does
<1>2. PICK i \in Experiments : i = actor[t].id
  BY <1>1 DEF ActorInv
<1>3. PICK b : b = [actor[t] EXCEPT !.pc = "returning"]
  OBVIOUS
<1>4. b \in ActorState /\ b.pc = "returning" /\ b.id = i
  BY <1>1, <1>2, <1>3 DEF ActorState, Pcs
<1>5. /\ actor' = [actor EXCEPT ![t] = b] /\ scheduled' = scheduled \ {i}
      /\ UNCHANGED <<executor, future, shut, row, todo, slots>>
  BY <1>2, <1>3 DEF ExecutorRefuses, Then, Id
<1>6. actor'[t] = b /\ \A u \in RunnerThreads \ {t} : actor'[u] = actor[u]
  BY <1>1, <1>5 DEF RunnerTypes
<1>7. ActorInv(t)'
  BY <1>1, <1>4, <1>5, <1>6 DEF ActorInv
<1>8. /\ ItemInv(i) /\ Handles(t, i) /\ future[i] = NoFuture /\ i \in scheduled
      /\ \A u \in RunnerThreads : Handles(u, i) => u = t
  BY <1>1, <1>2 DEF Handles, RunnerInv, ItemInv, InCharge
<1>9. future[i].state = "none" /\ ~future[i].callback
  BY <1>8 DEF NoFuture
<1>10. ItemInv(i)'
  <2>1. /\ \A u \in RunnerThreads : ~Handles(u, i)'
        /\ \A u \in RunnerThreads : Runs(u, i)' <=> Runs(u, i)
    BY <1>1, <1>4, <1>6, <1>8 DEF Handles, Runs
  <2>2. ~Attached(i)' /\ Waiting' = Waiting
    BY <1>5, <1>9 DEF Attached, Waiting
  <2> QED BY <1>5, <1>8, <1>9, <2>1, <2>2 DEF ItemInv
<1>11. PICK f \in FutureState : future' = [future EXCEPT ![i] = f]
  BY <1>1, <1>5 DEF RunnerTypes
<1>12. slots' \in Nat /\ slots' + Cardinality(scheduled') + Holding(b)
                           = slots + Cardinality(scheduled) + Holding(actor[t])
  BY <1>1, <1>4, <1>5, <1>8, ScheduledCount DEF Holding, RunnerTypes
<1>13. /\ executor' \in Seq(Experiments) /\ Waiting' = Waiting
       /\ \A j, k \in 1..Len(executor') : executor'[j] = executor'[k] => j = k
  BY <1>1, <1>5 DEF RunnerTypes, Waiting
<1> QED
  BY <1>1, <1>2, <1>4, <1>5, <1>7, <1>10, <1>11, <1>12, <1>13, ItemTurn
\* The future is done already: the thread that submitted releases the slot.
LEMMA CallbackRunsHere ==
  ASSUME RunnerInv, NEW t \in RunnerThreads, AddCallback(t), future[Id(t)].state = "done"
  PROVE  RunnerInv'
<1>1. RunnerTypes /\ actor[t] \in ActorState /\ actor[t].pc = "tracking" /\ ActorInv(t)
  BY DEF RunnerInv, RunnerTypes, AddCallback, Does
<1>2. PICK i \in Experiments : i = actor[t].id
  BY <1>1 DEF ActorInv
<1>3. PICK b : b = [actor[t] EXCEPT !.pc = "releasing"]
  OBVIOUS
<1>4. b \in ActorState /\ b.pc = "releasing" /\ b.id = i
  BY <1>1, <1>2, <1>3 DEF ActorState, Pcs
<1>5. /\ actor' = [actor EXCEPT ![t] = b] /\ future[i].state = "done"
      /\ UNCHANGED <<executor, future, shut, row, todo, slots, scheduled>>
  BY <1>2, <1>3 DEF AddCallback, Then, Id
<1>6. actor'[t] = b /\ \A u \in RunnerThreads \ {t} : actor'[u] = actor[u]
  BY <1>1, <1>5 DEF RunnerTypes
<1>7. ActorInv(t)'
  BY <1>1, <1>4, <1>5, <1>6 DEF ActorInv
<1>8. /\ ItemInv(i) /\ Handles(t, i) /\ i \in scheduled
      /\ \A u \in RunnerThreads : Handles(u, i) => u = t
  BY <1>1, <1>2 DEF Handles, RunnerInv, ItemInv
<1>9. ItemInv(i)'
  <2>1. /\ Handles(t, i)' /\ \A u \in RunnerThreads \ {t} : ~Handles(u, i)'
        /\ \A u \in RunnerThreads : Runs(u, i)' <=> Runs(u, i)
    BY <1>1, <1>4, <1>6, <1>8 DEF Handles, Runs
  <2>2. ~Attached(i)' /\ Waiting' = Waiting /\ InCharge(t, i)'
    BY <1>4, <1>5, <1>6 DEF Attached, Waiting, InCharge
  <2> QED BY <1>5, <1>8, <2>1, <2>2 DEF ItemInv
<1>10. PICK f \in FutureState : future' = [future EXCEPT ![i] = f]
  BY <1>1, <1>5 DEF RunnerTypes
<1>11. slots' \in Nat /\ slots' + Cardinality(scheduled') + Holding(b)
                           = slots + Cardinality(scheduled) + Holding(actor[t])
  BY <1>1, <1>4, <1>5 DEF Holding, RunnerTypes
<1>12. \A e : WillLook(e)'
  BY <1>5, <1>8 DEF WillLook
<1>13. /\ executor' \in Seq(Experiments) /\ Waiting' = Waiting
       /\ \A j, k \in 1..Len(executor') : executor'[j] = executor'[k] => j = k
  BY <1>1, <1>5 DEF RunnerTypes, Waiting
<1>14. shut # "boot"
  BY <1>1, AfterBoot
<1> QED
  BY <1>1, <1>2, <1>4, <1>5, <1>7, <1>9, <1>10, <1>11, <1>12, <1>13, <1>14, ItemTurn

LEMMA CallbackAdded ==
  ASSUME RunnerInv, NEW t \in RunnerThreads, AddCallback(t), future[Id(t)].state # "done"
  PROVE  RunnerInv'
<1>1. RunnerTypes /\ actor[t] \in ActorState /\ actor[t].pc = "tracking" /\ ActorInv(t)
  BY DEF RunnerInv, RunnerTypes, AddCallback, Does
<1>2. PICK i \in Experiments : i = actor[t].id
  BY <1>1 DEF ActorInv
<1>3. PICK b : b = Away
  OBVIOUS
<1>4. b \in ActorState /\ b.pc = "away" /\ Holding(b) = 0
  BY <1>3, AwayState
<1>5. PICK f : f = [future[i] EXCEPT !.callback = TRUE]
  OBVIOUS
<1>6. /\ actor' = [actor EXCEPT ![t] = b] /\ future' = [future EXCEPT ![i] = f]
      /\ UNCHANGED <<executor, shut, row, todo, slots, scheduled>> /\ future[i].state # "done"
  BY <1>2, <1>3, <1>5 DEF AddCallback, Return, Id
<1>7. actor'[t] = b /\ (\A u \in RunnerThreads \ {t} : actor'[u] = actor[u]) /\ future'[i] = f
  BY <1>1, <1>6 DEF RunnerTypes
<1>8. ActorInv(t)'
  BY <1>1, <1>4, <1>6, <1>7 DEF ActorInv
<1>9. /\ ItemInv(i) /\ Handles(t, i) /\ i \in scheduled /\ future[i].state # "none"
      /\ \A u \in RunnerThreads : Handles(u, i) => u = t
  BY <1>1, <1>2 DEF Handles, RunnerInv, ItemInv, InCharge
<1>10. /\ f \in FutureState /\ f.state = future[i].state /\ f.callback
       /\ f.state \in {"pending", "running"}
  BY <1>1, <1>5, <1>6, <1>9 DEF RunnerTypes, FutureState
<1>11. ItemInv(i)'
  <2>1. /\ \A u \in RunnerThreads : ~Handles(u, i)'
        /\ \A u \in RunnerThreads : Runs(u, i)' <=> Runs(u, i)
    BY <1>1, <1>4, <1>7, <1>9 DEF Handles, Runs
  <2>2. Attached(i)' /\ Waiting' = Waiting
    BY <1>6, <1>7, <1>10 DEF Attached, Waiting
  <2> QED BY <1>6, <1>7, <1>9, <1>10, <2>1, <2>2 DEF ItemInv
<1>12. slots' \in Nat /\ slots' + Cardinality(scheduled') + Holding(b)
                           = slots + Cardinality(scheduled) + Holding(actor[t])
  BY <1>1, <1>4, <1>6 DEF Holding, RunnerTypes
<1>13. \A e : WillLook(e)'
  BY <1>6, <1>9 DEF WillLook
<1>14. /\ executor' \in Seq(Experiments) /\ Waiting' = Waiting
       /\ \A j, k \in 1..Len(executor') : executor'[j] = executor'[k] => j = k
  BY <1>1, <1>6 DEF RunnerTypes, Waiting
<1>15. shut # "boot"
  BY <1>1, AfterBoot
<1> QED
  BY <1>1, <1>2, <1>4, <1>6, <1>8, <1>10, <1>11, <1>12, <1>13, <1>14, <1>15, ItemTurn DEF Working

LEMMA TakeWorkStep ==
  ASSUME RunnerInv, NEW p \in PoolThreads, TakeWork(p)
  PROVE  RunnerInv'
<1>1. /\ p \in RunnerThreads /\ p \notin Experiments /\ RunnerTypes
      /\ actor[p] \in ActorState /\ actor[p].pc = "away" /\ ActorInv(p)
      /\ executor # <<>>
  BY RunnerAssumption DEF RunnerInv, RunnerTypes, TakeWork, Does, RunnerThreads
<1>2. PICK i : i = Head(executor)
  OBVIOUS
<1>3. /\ executor' \in Seq(Experiments) /\ i \in Waiting /\ Waiting' = Waiting \ {i}
      /\ \A j, k \in 1..Len(executor') : executor'[j] = executor'[k] => j = k
  BY <1>1, <1>2, QueueShrinks DEF TakeWork
<1>4. i \in Experiments
  BY <1>1, <1>3 DEF Waiting, RunnerTypes
<1>5. PICK b : b = [Away EXCEPT !.pc = "starting", !.id = i]
  OBVIOUS
<1>6. b \in ActorState /\ b.pc = "starting" /\ b.id = i
  BY <1>4, <1>5 DEF Away, ActorState, Pcs
<1>7. PICK f : f = [future[i] EXCEPT !.state = "running"]
  OBVIOUS
<1>8. /\ ItemInv(i) /\ future[i].state = "pending" /\ i \in scheduled
      /\ \A u \in RunnerThreads : ~Runs(u, i)
  BY <1>3, <1>4 DEF RunnerInv, ItemInv
<1>9. f \in FutureState /\ f.state = "running" /\ f.callback = future[i].callback
  BY <1>1, <1>4, <1>7 DEF RunnerTypes, FutureState
<1>10. /\ actor' = [actor EXCEPT ![p] = b] /\ future' = [future EXCEPT ![i] = f]
       /\ UNCHANGED <<shut, row, todo, slots, scheduled>>
  BY <1>2, <1>5, <1>7 DEF TakeWork
<1>11. actor'[p] = b /\ (\A u \in RunnerThreads \ {p} : actor'[u] = actor[u]) /\ future'[i] = f
  BY <1>1, <1>4, <1>10 DEF RunnerTypes
<1>12. shut # "boot"
  BY <1>8 DEF RunnerInv, BootInv
<1>13. ActorInv(p)'
  BY <1>1, <1>4, <1>6, <1>10, <1>11, <1>12 DEF ActorInv
<1>14. ItemInv(i)'
  <2>1. /\ \A u \in RunnerThreads : Handles(u, i)' <=> Handles(u, i)
        /\ \A u \in RunnerThreads : Handles(u, i) => actor'[u] = actor[u]
        /\ \A u \in RunnerThreads : Runs(u, i)' <=> u = p
    BY <1>1, <1>6, <1>8, <1>11 DEF Handles, Runs
  <2>2. (Attached(i)' <=> Attached(i)) /\ i \notin Waiting'
    BY <1>3, <1>8, <1>9, <1>11 DEF Attached
  <2>3. \A u \in RunnerThreads : Handles(u, i) => InCharge(u, i)'
    BY <1>8, <1>9, <1>11, <2>1 DEF ItemInv, InCharge, NoFuture
  <2> QED BY <1>1, <1>8, <1>9, <1>10, <1>11, <2>1, <2>2, <2>3 DEF ItemInv
<1>15. slots' \in Nat /\ slots' + Cardinality(scheduled') + Holding(b)
                           = slots + Cardinality(scheduled) + Holding(actor[p])
  BY <1>1, <1>6, <1>10 DEF Holding, RunnerTypes
<1>16. \A e : WillLook(e)'
  BY <1>8, <1>10 DEF WillLook
<1> QED
  BY <1>1, <1>3, <1>4, <1>6, <1>9, <1>10, <1>12, <1>13, <1>14, <1>15, <1>16, ItemTurn DEF Working
LEMMA EndFutureStep ==
  ASSUME RunnerInv, NEW p \in PoolThreads, EndFuture(p)
  PROVE  RunnerInv'
<1>1. /\ p \in RunnerThreads /\ p \notin Experiments /\ RunnerTypes
      /\ actor[p] \in ActorState /\ actor[p].pc = "ending" /\ ActorInv(p)
  BY RunnerAssumption DEF RunnerInv, RunnerTypes, EndFuture, Does, RunnerThreads
<1>2. PICK i \in Experiments : i = actor[p].id
  BY <1>1 DEF ActorInv
<1>3. PICK b : b = IF future[i].callback THEN [actor[p] EXCEPT !.pc = "releasing"] ELSE Away
  OBVIOUS
<1>4. /\ b \in ActorState /\ Holding(b) = 0
      /\ future[i].callback => b.pc = "releasing" /\ b.id = i
      /\ ~future[i].callback => b.pc = "away"
  <2>1. CASE future[i].callback
    <3>1. b = [actor[p] EXCEPT !.pc = "releasing"]
      BY <1>3, <2>1
    <3> QED BY <1>1, <1>2, <2>1, <3>1 DEF ActorState, Pcs, Holding
  <2>2. CASE ~future[i].callback
    BY <1>3, <2>2, AwayState
  <2> QED BY <2>1, <2>2
<1>5. PICK f : f = [future[i] EXCEPT !.state = "done"]
  OBVIOUS
<1>6. f \in FutureState /\ f.state = "done" /\ f.callback = future[i].callback
  BY <1>1, <1>5 DEF RunnerTypes, FutureState
<1>7. /\ actor' = [actor EXCEPT ![p] = b] /\ future' = [future EXCEPT ![i] = f]
      /\ UNCHANGED <<executor, shut, row, todo, slots, scheduled>>
  BY <1>2, <1>3, <1>5 DEF EndFuture, Then, Return, Id
<1>8. actor'[p] = b /\ (\A u \in RunnerThreads \ {p} : actor'[u] = actor[u]) /\ future'[i] = f
  BY <1>1, <1>7 DEF RunnerTypes
<1>9. ActorInv(p)'
  BY <1>1, <1>2, <1>4, <1>7, <1>8 DEF ActorInv
<1>10. /\ ItemInv(i) /\ Runs(p, i) /\ future[i].state = "running" /\ i \in scheduled
       /\ \A u \in RunnerThreads : Runs(u, i) => u = p
       /\ ~Handles(p, i) /\ i \notin Waiting
       /\ Attached(i) <=> future[i].callback
  <2>1. Runs(p, i) /\ ItemInv(i) /\ ~Handles(p, i)
    BY <1>1, <1>2 DEF Runs, Handles, RunnerInv
  <2>2. future[i].state = "running"
    BY <1>1, <2>1 DEF ItemInv
  <2> QED BY <1>1, <2>1, <2>2 DEF ItemInv, Attached, RunnerTypes, FutureState
<1>11. ItemInv(i)'
  <2>1. /\ \A u \in RunnerThreads \ {p} : (Handles(u, i)' <=> Handles(u, i)) /\ actor'[u] = actor[u]
        /\ Handles(p, i)' <=> future[i].callback
        /\ \A u \in RunnerThreads : ~Runs(u, i)'
    BY <1>1, <1>4, <1>8, <1>10 DEF Handles, Runs
  <2>2. ~Attached(i)' /\ Waiting' = Waiting
    BY <1>6, <1>7, <1>8 DEF Attached, Waiting
  <2>3. \E u \in RunnerThreads : Handles(u, i)'
    <3>1. CASE future[i].callback
      BY <1>1, <2>1, <3>1
    <3>2. CASE ~future[i].callback
      <4>1. PICK u \in RunnerThreads : Handles(u, i)
        BY <1>10, <3>2 DEF ItemInv
      <4>2. Handles(u, i)'
        BY <1>10, <2>1, <4>1
      <4> QED BY <4>2
    <3> QED BY <3>1, <3>2
  <2>4. \A u, v \in RunnerThreads : Handles(u, i)' /\ Handles(v, i)' => u = v
    BY <1>10, <2>1 DEF ItemInv
  <2>5. ASSUME NEW u \in RunnerThreads, Handles(u, i)' PROVE InCharge(u, i)'
    <3>1. CASE u = p
      BY <1>4, <1>6, <1>8, <2>1, <2>5, <3>1 DEF InCharge
    <3>2. CASE u # p
      <4>1. InCharge(u, i) /\ ~future[i].callback /\ actor'[u] = actor[u]
        BY <1>10, <2>1, <2>5, <3>2 DEF ItemInv
      <4>2. future[i] # NoFuture
        BY <1>10 DEF NoFuture
      <4> QED BY <1>6, <1>8, <1>10, <4>1, <4>2 DEF InCharge
    <3> QED BY <3>1, <3>2
  <2> QED BY <1>6, <1>7, <1>8, <1>10, <2>1, <2>2, <2>3, <2>4, <2>5 DEF ItemInv
<1>12. slots' \in Nat /\ slots' + Cardinality(scheduled') + Holding(b)
                           = slots + Cardinality(scheduled) + Holding(actor[p])
  BY <1>1, <1>4, <1>7 DEF Holding, RunnerTypes
<1>13. \A e : WillLook(e)'
  BY <1>7, <1>10 DEF WillLook
<1>14. /\ executor' \in Seq(Experiments) /\ Waiting' = Waiting
       /\ \A j, k \in 1..Len(executor') : executor'[j] = executor'[k] => j = k
  BY <1>1, <1>7 DEF RunnerTypes, Waiting
<1>15. shut # "boot" /\ (b.pc \in Working => b.id = i)
  BY <1>1, <1>4, AfterBoot DEF Working
<1> QED
  BY <1>1, <1>2, <1>4, <1>6, <1>7, <1>9, <1>11, <1>12, <1>13, <1>14, <1>15, ItemTurn

LEMMA ReleaseStep ==
  ASSUME RunnerInv, NEW t \in RunnerThreads, Release(t)
  PROVE  RunnerInv'
<1>1. RunnerTypes /\ actor[t] \in ActorState /\ actor[t].pc = "releasing" /\ ActorInv(t)
  BY DEF RunnerInv, RunnerTypes, Release, Does
<1>2. PICK i \in Experiments : i = actor[t].id
  BY <1>1 DEF ActorInv
<1>3. PICK b : b = [actor[t] EXCEPT !.pc = "returning", !.should_schedule = (shut = "no")]
  OBVIOUS
<1>4. b \in ActorState /\ b.pc = "returning" /\ b.id = i /\ (b.should_schedule <=> shut = "no")
  BY <1>1, <1>2, <1>3 DEF ActorState, Pcs
<1>5. /\ actor' = [actor EXCEPT ![t] = b] /\ scheduled' = scheduled \ {i}
      /\ future' = [future EXCEPT ![i] = NoFuture]
      /\ UNCHANGED <<executor, shut, row, todo, slots>>
  BY <1>2, <1>3 DEF Release, Id
<1>6. actor'[t] = b /\ (\A u \in RunnerThreads \ {t} : actor'[u] = actor[u]) /\ future'[i] = NoFuture
  BY <1>1, <1>5 DEF RunnerTypes
<1>7. NoFuture \in FutureState /\ NoFuture.state = "none" /\ ~NoFuture.callback
  BY DEF FutureState, NoFuture
<1>8. ActorInv(t)'
  BY <1>1, <1>4, <1>5, <1>6 DEF ActorInv
<1>9. /\ ItemInv(i) /\ Handles(t, i) /\ i \in scheduled
      /\ future[i].state = "done" /\ i \notin Waiting
      /\ \A u \in RunnerThreads : ~Runs(u, i)
      /\ \A u \in RunnerThreads : Handles(u, i) => u = t
  <2>1. Handles(t, i) /\ ItemInv(i)
    BY <1>1, <1>2 DEF Handles, RunnerInv
  <2>2. future[i].state = "done"
    BY <1>1, <2>1 DEF ItemInv, InCharge
  <2> QED BY <2>1, <2>2 DEF ItemInv
<1>10. ItemInv(i)'
  <2>1. \A u \in RunnerThreads : ~Handles(u, i)' /\ ~Runs(u, i)'
    BY <1>1, <1>4, <1>6, <1>9 DEF Handles, Runs
  <2>2. ~Attached(i)' /\ Waiting' = Waiting
    BY <1>5, <1>6, <1>7 DEF Attached, Waiting
  <2> QED BY <1>5, <1>6, <1>7, <1>9, <2>1, <2>2 DEF ItemInv
<1>11. slots' \in Nat /\ slots' + Cardinality(scheduled') + Holding(b)
                           = slots + Cardinality(scheduled) + Holding(actor[t])
  BY <1>1, <1>4, <1>5, <1>9, ScheduledCount DEF Holding, RunnerTypes
<1>12. \A e : WillLook(e)'
  <2>1. \A e : Looks(actor[t], e)'
    BY <1>4, <1>6 DEF Looks
  <2> QED BY <2>1 DEF WillLook
<1>13. /\ executor' \in Seq(Experiments) /\ Waiting' = Waiting
       /\ \A j, k \in 1..Len(executor') : executor'[j] = executor'[k] => j = k
  BY <1>1, <1>5 DEF RunnerTypes, Waiting
<1>14. shut # "boot"
  BY <1>1, AfterBoot
<1> QED
  BY <1>1, <1>2, <1>4, <1>5, <1>7, <1>8, <1>10, <1>11, <1>12, <1>13, <1>14, ItemTurn
\* A cancelled future had its callback, which releases the slot, or its
\* submitter is still to add it, and will find it done.
LEMMA CancelPendingStep ==
  ASSUME RunnerInv, CancelPending
  PROVE  RunnerInv'
<1>1. RunnerTypes /\ executor # <<>> /\ shut # "no" /\ UNCHANGED <<row, actor, todo, shut>>
  BY DEF RunnerInv, CancelPending
<1>2. PICK i : i = Head(executor)
  OBVIOUS
<1>3. /\ executor' \in Seq(Experiments) /\ i \in Waiting /\ Waiting' = Waiting \ {i}
      /\ \A j, k \in 1..Len(executor') : executor'[j] = executor'[k] => j = k
  BY <1>1, <1>2, QueueShrinks DEF CancelPending
<1>4. i \in Experiments
  BY <1>1, <1>3 DEF Waiting, RunnerTypes
<1>5. /\ ItemInv(i) /\ future[i].state = "pending" /\ i \in scheduled
      /\ \A u \in RunnerThreads : ~Runs(u, i)
      /\ Attached(i) <=> future[i].callback
  BY <1>1, <1>3, <1>4 DEF RunnerInv, ItemInv, Attached
<1>6. PICK f \in FutureState :
         /\ future' = [future EXCEPT ![i] = f]
         /\ future[i].callback => /\ f = NoFuture /\ scheduled' = scheduled \ {i}
                                  /\ slots' = slots + 1
         /\ ~future[i].callback => /\ f.state = "done" /\ ~f.callback
                                   /\ scheduled' = scheduled /\ slots' = slots
  <2>1. CASE future[i].callback
    <3>1. NoFuture \in FutureState
      BY DEF NoFuture, FutureState
    <3> QED BY <1>2, <2>1, <3>1 DEF CancelPending
  <2>2. CASE ~future[i].callback
    <3>1. PICK f : f = [future[i] EXCEPT !.state = "done"]
      OBVIOUS
    <3>2. f \in FutureState /\ f.state = "done" /\ ~f.callback
      BY <1>1, <1>4, <2>2, <3>1 DEF RunnerTypes, FutureState
    <3> QED BY <1>2, <2>2, <3>1, <3>2 DEF CancelPending
  <2> QED BY <2>1, <2>2
<1>7. future' \in [Experiments -> FutureState] /\ future'[i] = f
      /\ \A e \in Experiments \ {i} : future'[e] = future[e]
  BY <1>1, <1>4, <1>6 DEF RunnerTypes
<1>8. RunnerTypes'
  BY <1>1, <1>3, <1>6, <1>7 DEF RunnerTypes
<1>9. \A u \in RunnerThreads : ActorInv(u)'
  BY <1>1 DEF RunnerInv, ActorInv
<1>10. \A e \in Experiments, u \in RunnerThreads : (Handles(u, e)' <=> Handles(u, e)) /\ (Runs(u, e)' <=> Runs(u, e))
  BY <1>1 DEF Handles, Runs
<1>11. ASSUME NEW e \in Experiments, e # i PROVE ItemInv(e)'
  <2>1. /\ Attached(e)' <=> Attached(e)
        /\ e \in scheduled' <=> e \in scheduled
        /\ e \in Waiting' <=> e \in Waiting
        /\ future'[e] = future[e]
    BY <1>3, <1>6, <1>7, <1>11 DEF Attached
  <2>2. ItemInv(e)
    BY DEF RunnerInv
  <2>3. \A u \in RunnerThreads : InCharge(u, e)' <=> InCharge(u, e)
    BY <1>1, <2>1 DEF InCharge
  <2> QED BY <1>10, <2>1, <2>2, <2>3 DEF ItemInv
<1>12. ItemInv(i)'
  <2>1. ~Attached(i)' /\ i \notin Waiting' /\ f.state # "running" /\ f.state # "pending" /\ ~f.callback
    BY <1>3, <1>6, <1>7 DEF Attached, NoFuture
  <2>2. CASE future[i].callback
    <3>1. \A u \in RunnerThreads : ~Handles(u, i)
      BY <1>5, <2>2 DEF ItemInv
    <3>2. f.state = "none"
      BY <1>6, <2>2 DEF NoFuture
    <3> QED BY <1>5, <1>6, <1>7, <1>10, <2>1, <2>2, <3>1, <3>2 DEF ItemInv
  <2>3. CASE ~future[i].callback
    <3>1. \A u \in RunnerThreads : Handles(u, i) => InCharge(u, i)'
      <4>1. future[i] # NoFuture
        BY <1>5 DEF NoFuture
      <4> QED BY <1>1, <1>5, <1>6, <1>7, <2>1, <2>3, <4>1 DEF ItemInv, InCharge
    <3>2. \E u \in RunnerThreads : Handles(u, i)
      BY <1>5, <2>3 DEF ItemInv
    <3> QED BY <1>5, <1>6, <1>7, <1>10, <2>1, <2>3, <3>1, <3>2 DEF ItemInv
  <2> QED BY <2>2, <2>3
<1>13. SlotsAccounted'
  <2>1. PICK n : n = Cardinality({t \in RunnerThreads : actor[t].pc \in {"registering", "returning"}})
    OBVIOUS
  <2>2. n \in Nat
    <3>1. IsFiniteSet({t \in RunnerThreads : actor[t].pc \in {"registering", "returning"}})
      BY RunnerFinite, FS_Subset
    <3> QED BY <2>1, <3>1, FS_CardinalityType
  <2>3. PICK c : c = Cardinality(scheduled)
    OBVIOUS
  <2>4. c \in Nat /\ (future[i].callback => Cardinality(scheduled') = c - 1)
        /\ (~future[i].callback => Cardinality(scheduled') = c)
    BY <1>1, <1>4, <1>5, <1>6, <2>3, ScheduledCount
  <2>5. slots + c + n = Capacity /\ slots \in Nat
    BY <1>1, <2>1, <2>3 DEF RunnerInv, SlotsAccounted, RunnerTypes
  <2>6. slots' + Cardinality(scheduled') + n = Capacity
    <3>1. CASE future[i].callback
      BY <1>6, <2>2, <2>4, <2>5, <3>1
    <3>2. CASE ~future[i].callback
      BY <1>6, <2>2, <2>4, <2>5, <3>2
    <3> QED BY <3>1, <3>2
  <2> QED BY <1>1, <2>1, <2>6 DEF SlotsAccounted, Capacity
<1>14. BootInv' /\ (shut' = "no" => FALSE)
  BY <1>1, <1>5 DEF RunnerInv, BootInv
<1> QED
  BY <1>8, <1>9, <1>11, <1>12, <1>13, <1>14 DEF RunnerInv

\* The recovery at startup and the flags of shutdown: nobody's actor moves.
LEMMA BootAndShutdownStep ==
  ASSUME RunnerInv, RecoverPending \/ FlagShutdown \/ ExecutorDown
  PROVE  RunnerInv'
<1>1. UNCHANGED <<slots, scheduled, executor, future, actor>> /\ RunnerTypes
  BY DEF RecoverPending, FlagShutdown, ExecutorDown, RunnerInv
<1>2. RunnerTypes'
  <2>1. CASE RecoverPending
    <3>1. PICK left \in SUBSET Experiments :
            /\ row' = [e \in Experiments |-> IF e \in left THEN "queued" ELSE "none"]
            /\ todo' = left
      BY <2>1 DEF RecoverPending
    <3>2. row' \in [Experiments -> {"none", "queued", "running", "over"}] /\ todo' \subseteq Experiments
          /\ shut' = "no"
      BY <2>1, <3>1 DEF RecoverPending
    <3> QED BY <1>1, <3>2 DEF RunnerTypes
  <2>2. CASE FlagShutdown \/ ExecutorDown
    BY <1>1, <2>2 DEF FlagShutdown, ExecutorDown, RunnerTypes
  <2> QED BY <2>1, <2>2
<1>3. \A u \in RunnerThreads : ActorInv(u)'
  <2>1. CASE RecoverPending
    <3>1. shut = "boot" /\ shut' = "no"
      BY <2>1 DEF RecoverPending
    <3>2. \A u \in RunnerThreads : actor[u].pc = "away"
      BY <3>1 DEF RunnerInv, ActorInv
    <3> QED BY <1>1, <3>1, <3>2 DEF ActorInv
  <2>2. CASE FlagShutdown \/ ExecutorDown
    BY <1>1, <2>2 DEF FlagShutdown, ExecutorDown, RunnerInv, ActorInv
  <2> QED BY <2>1, <2>2
<1>4. ASSUME NEW e \in Experiments PROVE ItemInv(e)'
  <2>1. ItemInv(e)
    BY DEF RunnerInv
  <2> QED BY <1>1, <2>1 DEF ItemInv, Attached, Handles, Runs, Waiting, InCharge
<1>5. SlotsAccounted'
  BY <1>1 DEF RunnerInv, SlotsAccounted, Capacity
<1>6. BootInv' /\ (shut' = "no" => \A e \in Queued' : WillLook(e)')
  <2>1. CASE RecoverPending
    <3>1. PICK left \in SUBSET Experiments :
            /\ row' = [e \in Experiments |-> IF e \in left THEN "queued" ELSE "none"]
            /\ todo' = left
      BY <2>1 DEF RecoverPending
    <3>2. \A e \in Queued' : e \in todo'
      BY <3>1 DEF Queued
    <3>3. shut' = "no"
      BY <2>1 DEF RecoverPending
    <3> QED BY <3>2, <3>3 DEF BootInv, WillLook
  <2>2. CASE FlagShutdown \/ ExecutorDown
    BY <2>2 DEF FlagShutdown, ExecutorDown, BootInv
  <2> QED BY <2>1, <2>2
<1> QED
  BY <1>2, <1>3, <1>4, <1>5, <1>6 DEF RunnerInv
LEMMA RunnerStarts ==
  ASSUME RunnerInit
  PROVE  RunnerInv
<1>1. NoFuture \in FutureState /\ NoFuture.state = "none" /\ ~NoFuture.callback
  BY DEF NoFuture, FutureState
<1>2. /\ \A e \in Experiments : future[e] = NoFuture
      /\ \A t \in RunnerThreads : actor[t].pc = "away"
      /\ scheduled = {} /\ todo = {} /\ shut = "boot" /\ executor = <<>>
  BY AwayState DEF RunnerInit
<1>3. RunnerTypes
  <2>1. executor \in Seq(Experiments) /\ Len(executor) = 0
    BY <1>2
  <2>2. actor \in [RunnerThreads -> ActorState]
    BY AwayState DEF RunnerInit
  <2>3. future \in [Experiments -> FutureState]
    BY <1>1 DEF RunnerInit
  <2>4. row \in [Experiments -> {"none", "queued", "running", "over"}] /\ slots \in Nat
    BY RunnerFinite DEF RunnerInit
  <2>5. \A i, j \in 1..Len(executor) : executor[i] = executor[j] => i = j
    BY <2>1
  <2>6. scheduled \subseteq Experiments /\ todo \subseteq Experiments
        /\ shut \in {"boot", "no", "flagged", "down"}
    BY <1>2
  <2> QED BY <2>1, <2>2, <2>3, <2>4, <2>5, <2>6 DEF RunnerTypes
<1>4. \A t \in RunnerThreads : ActorInv(t)
  BY <1>2 DEF ActorInv
<1>5. ASSUME NEW e \in Experiments PROVE ItemInv(e)
  <2>1. /\ ~Attached(e) /\ \A t \in RunnerThreads : ~Handles(t, e) /\ ~Runs(t, e)
        /\ e \notin Waiting
    BY <1>1, <1>2 DEF Attached, Handles, Runs, Waiting
  <2> QED BY <1>1, <1>2, <2>1 DEF ItemInv
<1>6. SlotsAccounted
  <2>1. {t \in RunnerThreads : actor[t].pc \in {"registering", "returning"}} = {}
    BY <1>2
  <2>2. Cardinality(scheduled) = 0 /\ Cardinality({t \in RunnerThreads : actor[t].pc \in {"registering", "returning"}}) = 0
    BY <1>2, <2>1, FS_EmptySet
  <2>3. slots = Capacity /\ Capacity \in Nat
    BY RunnerFinite DEF RunnerInit
  <2> QED BY <2>2, <2>3 DEF SlotsAccounted
<1> QED
  BY <1>2, <1>3, <1>4, <1>5, <1>6 DEF RunnerInv, BootInv

LEMMA RunnerStep ==
  ASSUME RunnerInv, [RunnerNext]_runnerVars
  PROVE  RunnerInv'
<1>1. CASE UNCHANGED runnerVars
  BY <1>1 DEF runnerVars, RunnerInv, RunnerTypes, ActorInv, ItemInv, Attached, Handles, Runs,
     InCharge, Waiting, SlotsAccounted, Capacity, BootInv, Queued, WillLook, Looks
<1>2. ASSUME NEW t \in RunnerThreads, SubmitStep(t)
      PROVE  RunnerInv'
  <2>1. CASE Register(t)
    BY <2>1, DiscardStep, RegisterStep
  <2>2. CASE AddCallback(t)
    BY <2>2, CallbackRunsHere, CallbackAdded
  <2> QED
    BY <1>2, <2>1, <2>2, AcquireSlotStep, QueueFullStep, EnqueueStep, ExecutorRefusesStep
    DEF SubmitStep
<1>3. ASSUME NEW t \in RunnerThreads, CallbackStep(t)
      PROVE  RunnerInv'
  BY <1>3, ReleaseStep, ReturnSlotStep, QueryPendingStep, ChooseNextStep DEF CallbackStep
<1> QED
  BY <1>1, <1>2, <1>3, BootAndShutdownStep, SubmitRecoveredStep, CreateRowStep, TakeWorkStep,
     ExecuteStep, EndFutureStep, CancelPendingStep DEF RunnerNext

\* Permits, callbacks, rows and the futures of the executor agree at every line of the
\* runner, whatever threads submit, end, refuse or discard.
THEOREM RunnerInvariant == RunnerSpec => []RunnerInv
<1>1. RunnerInit => RunnerInv
  BY RunnerStarts
<1>2. RunnerInv /\ [RunnerNext]_runnerVars => RunnerInv'
  BY RunnerStep
<1> QED
  BY <1>1, <1>2, PTL DEF RunnerSpec

\* Permits are neither lost nor returned twice.
THEOREM SlotsAreAccounted == RunnerSpec => []SlotsAccounted
<1>1. RunnerInv => SlotsAccounted
  BY DEF RunnerInv
<1> QED
  BY <1>1, RunnerInvariant, PTL

\* When everything is at rest and the runner is not shutting down, no row is
\* queued: a row whose submission met a full queue is found by whoever
\* returns a slot later, and the queue was full because of them.
THEOREM QueuedExperimentsAreFound == RunnerSpec => []NoQueuedExperimentForgotten
<1>1. RunnerInv => NoQueuedExperimentForgotten
  <2> SUFFICES ASSUME RunnerInv, shut = "no", executor = <<>>, todo = {},
                      \A t \in RunnerThreads : actor[t].pc = "away",
                      NEW e \in Queued
               PROVE  FALSE
    BY DEF NoQueuedExperimentForgotten, Does
  <2>1. \A t \in RunnerThreads : ~Looks(actor[t], e)
    BY DEF Looks
  <2>2. scheduled # {}
    BY <2>1 DEF RunnerInv, WillLook
  <2>3. PICK i \in Experiments : i \in scheduled
    BY <2>2 DEF RunnerInv, RunnerTypes
  <2>4. /\ ItemInv(i) /\ i \notin Waiting
        /\ \A t \in RunnerThreads : ~Handles(t, i) /\ ~Runs(t, i)
    BY DEF RunnerInv, Handles, Runs, Waiting
  <2>5. Attached(i)
    BY <2>3, <2>4 DEF ItemInv
  <2> QED BY <2>4, <2>5 DEF ItemInv, Attached
<1> QED
  BY <1>1, RunnerInvariant, PTL
-----------------------------------------------------------------------------
(* The studio's client.  A failed run keeps its job on the page, marked as  *)
(* already handled, so that only a run in progress moves on; a run in       *)
(* progress without a function in progress shows a job of its own input,    *)
(* with nothing handled; and a fresh run finds an active status in the      *)
(* cache for the job it shows only, which it posted itself.                 *)

Terminal == {"succeeded", "failed"}
JobStatuses == {"none"} \cup Active \cup Terminal
ShownJobs == {NoActiveJob} \cup [key : JobKeys, status : JobStatuses]
KnownInputs == Inputs \cup {NoInput}
Steps == {"none", "baseline", "candidate"}
Phases == {"idle", "completed", "failed", "saving_baseline", "running_baseline",
           "saving_candidate", "running_candidate"}
Requesting == [by : {"runScenario", "advance"}, at : {"lookup", "create", "reread", "submit"},
               input : Inputs]

StudioTypes ==
  /\ server \in [JobKeys -> JobStatuses]
  /\ cache \in [JobKeys -> JobStatuses]
  /\ view \in [phase : Phases, step : Steps, job : ShownJobs, completed : KnownInputs]
  /\ refs \in [pending : KnownInputs, transitioning : JobKeys \cup {NoKey}]
  /\ deps \in Steps \X ShownJobs
  /\ task \in {NoTask} \cup Requesting
  /\ view.phase # "idle" => asked.input \in Inputs

\* What the page has cached the service has said, and an ended job stays ended.
CacheInv ==
  \A k \in JobKeys :
    /\ cache[k] # "none" => server[k] # "none"
    /\ cache[k] \in Terminal => server[k] = cache[k]

\* A job that is shown outside a run, or while its run makes requests, is handled.
ViewInv ==
  /\ view.job = NoActiveJob <=> view.step = "none"
  /\ view.job # NoActiveJob => cache[view.job.key] # "none"
  /\ view.phase \in {"idle", "completed"} => view.job = NoActiveJob
  /\ (task # NoTask \/ view.phase = "failed") /\ view.job # NoActiveJob
       => refs.transitioning = view.job.key
  /\ view.job = NoActiveJob => deps[1] \in {"none", "candidate"}

\* A function in progress works for the run; advance leaves a baseline that succeeded.
TaskInv ==
  task # NoTask =>
    /\ IsRunning
    /\ task.input = asked.input
    /\ task.by = "advance" =>
         /\ view.step = "baseline"
         /\ view.job.key = BaselineKey(asked.input)
         /\ cache[BaselineKey(asked.input)] = "succeeded"
         /\ refs.pending = asked.input
         /\ deps[1] = "baseline"

\* A run that waits shows a job of its own, and its effect has not handled it.
WaitInv ==
  IsRunning /\ task = NoTask =>
    /\ view.job # NoActiveJob
    /\ refs.pending = asked.input
    /\ refs.transitioning = NoKey
    /\ view.step = "baseline" => view.job.key = BaselineKey(asked.input)
    /\ view.step = "candidate" => /\ view.job.key = CandidateKey(asked.input)
                                  /\ server[BaselineKey(asked.input)] = "succeeded"

\* A fresh run meets no active entry but its own job's, and while it waits its
\* effect has never run with an ended status of the step.
FreshInv ==
  IsRunning /\ asked.how = "fresh" =>
    /\ \A k \in JobKeys : cache[k] \in Active => view.job # NoActiveJob /\ k = view.job.key
    /\ task.by = "runScenario" => view.job = NoActiveJob
    /\ task = NoTask =>
         /\ cache[view.job.key] \in Active => view.job.status \in Active
         /\ deps[1] = view.step => deps[2].status \in Active

DoneInv ==
  view.phase = "completed" =>
    /\ view.completed = asked.input
    /\ server[BaselineKey(asked.input)] = "succeeded"
    /\ server[CandidateKey(asked.input)] = "succeeded"

StudioInv == StudioTypes /\ CacheInv /\ ViewInv /\ TaskInv /\ WaitInv /\ FreshInv /\ DoneInv

LEMMA KeysDiffer ==
  /\ NoKey \notin JobKeys
  /\ \A i \in Inputs : /\ BaselineKey(i) \in JobKeys /\ CandidateKey(i) \in JobKeys
                       /\ BaselineKey(i) # CandidateKey(i)
BY DEF NoKey, JobKeys, BaselineKey, CandidateKey

LEMMA StudioStarts == StudioInit => StudioInv
<1> SUFFICES ASSUME StudioInit PROVE StudioInv OBVIOUS
<1> USE DEF StudioInit, NewView, NewRefs, NoTask, NoActiveJob, NoInput
<1>1. StudioTypes BY KeysDiffer DEF StudioTypes, JobStatuses, ShownJobs, KnownInputs, Steps, Phases
<1>2. CacheInv BY DEF CacheInv, Terminal
<1>3. ViewInv /\ TaskInv /\ WaitInv BY DEF ViewInv, TaskInv, WaitInv, IsRunning
<1>4. FreshInv /\ DoneInv BY DEF FreshInv, DoneInv, IsRunning
<1> QED BY <1>1, <1>2, <1>3, <1>4 DEF StudioInv

\* The service may only add jobs and move those that have not ended.
LEMMA ServiceMoves ==
  ASSUME StudioInv, server' \in [JobKeys -> JobStatuses],
         \A k \in JobKeys : /\ server[k] # "none" => server'[k] # "none"
                            /\ server[k] \in Terminal => server'[k] = server[k],
         UNCHANGED <<cache, view, refs, deps, task, asked>>
  PROVE  StudioInv'
<1>1. StudioTypes' BY DEF StudioInv, StudioTypes
<1>2. CacheInv' BY DEF StudioInv, CacheInv
<1>3. ViewInv' /\ TaskInv' BY DEF StudioInv, ViewInv, TaskInv, IsRunning
<1>4. WaitInv'
  <2>1. view.phase # "idle" => BaselineKey(asked.input) \in JobKeys BY KeysDiffer DEF StudioInv, StudioTypes
  <2> QED BY <2>1 DEF StudioInv, WaitInv, IsRunning, Terminal
<1>5. FreshInv' BY DEF StudioInv, FreshInv, IsRunning
<1>6. DoneInv'
  <2>1. view.phase # "idle" => BaselineKey(asked.input) \in JobKeys /\ CandidateKey(asked.input) \in JobKeys
    BY KeysDiffer DEF StudioInv, StudioTypes
  <2> QED BY <2>1 DEF StudioInv, DoneInv, Terminal
<1> QED BY <1>1, <1>2, <1>3, <1>4, <1>5, <1>6 DEF StudioInv

LEMMA ServiceSteps ==
  ASSUME StudioInv,
         \/ UNCHANGED studioVars
         \/ \E d \in Drafts : OtherCreates(d)
         \/ \E i \in Inputs : OtherSubmits(i)
         \/ \E k \in JobKeys : JobRuns(k)
  PROVE  StudioInv'
<1>1. server \in [JobKeys -> JobStatuses] BY DEF StudioInv, StudioTypes
<1>2. CASE UNCHANGED studioVars BY <1>1, <1>2, ServiceMoves DEF studioVars
<1>3. CASE \E d \in Drafts : OtherCreates(d) BY <1>1, <1>3, ServiceMoves DEF OtherCreates
<1>4. CASE \E i \in Inputs : OtherSubmits(i)
  <2> PICK i \in Inputs : OtherSubmits(i) BY <1>4
  <2> PICK k \in JobKeys : server[k] = "none" /\ server' = [server EXCEPT ![k] = "queued"]
    BY KeysDiffer DEF OtherSubmits
  <2>1. server' \in [JobKeys -> JobStatuses] BY <1>1 DEF JobStatuses, Active
  <2>2. \A j \in JobKeys : /\ server[j] # "none" => server'[j] # "none"
                           /\ server[j] \in Terminal => server'[j] = server[j]
    BY <1>1 DEF Terminal
  <2> QED BY <2>1, <2>2, ServiceMoves DEF OtherSubmits
<1>5. CASE \E k \in JobKeys : JobRuns(k)
  <2> PICK k \in JobKeys : JobRuns(k) BY <1>5
  <2> PICK s \in {"queued", "running", "succeeded", "failed"} : server' = [server EXCEPT ![k] = s]
    BY DEF JobRuns
  <2>1. server' \in [JobKeys -> JobStatuses] BY <1>1 DEF JobStatuses, Active, Terminal
  <2>2. \A j \in JobKeys : /\ server[j] # "none" => server'[j] # "none"
                           /\ server[j] \in Terminal => server'[j] = server[j]
    BY <1>1 DEF Terminal, JobRuns, Active
  <2> QED BY <2>1, <2>2, ServiceMoves DEF JobRuns
<1> QED BY <1>2, <1>3, <1>4, <1>5

LEMMA Cancellations ==
  ASSUME StudioInv, NEW k \in JobKeys, CancelElsewhere(k)
  PROVE  StudioInv'
<1> PICK s \in {"failed", "running"} :
      /\ server' = [server EXCEPT ![k] = s]
      /\ cache' = [cache EXCEPT ![k] = s]
  BY DEF CancelElsewhere, Active, StudioInv, StudioTypes
<1>1. view = NewView /\ UNCHANGED <<view, refs, deps, task, asked>> /\ server[k] \in Active
  BY DEF CancelElsewhere
<1>2. StudioTypes' BY <1>1 DEF StudioInv, StudioTypes, JobStatuses, Active, Terminal
<1>3. CacheInv' BY DEF StudioInv, StudioTypes, CacheInv
<1>4. ~IsRunning' /\ view'.phase # "completed" BY <1>1 DEF IsRunning, NewView
<1>5. ViewInv' /\ TaskInv' BY <1>1 DEF StudioInv, ViewInv, TaskInv, NewView, IsRunning
<1> QED BY <1>2, <1>3, <1>4, <1>5 DEF StudioInv, WaitInv, FreshInv, DoneInv

LEMMA Collections ==
  ASSUME StudioInv, NEW k \in JobKeys, GarbageCollect(k)
  PROVE  StudioInv'
<1>1. /\ UNCHANGED <<scenarios, server, view, refs, deps, task, asked>>
      /\ cache' = [cache EXCEPT ![k] = "none"]
      /\ view.job.key # k
  BY DEF GarbageCollect
<1>2. StudioTypes' BY <1>1 DEF StudioInv, StudioTypes, JobStatuses
<1>3. CacheInv' BY <1>1 DEF StudioInv, StudioTypes, CacheInv, Terminal
<1>4. view.job # NoActiveJob => view.job.key \in JobKeys BY DEF StudioInv, StudioTypes, ShownJobs
<1>5. ViewInv' BY <1>1, <1>4 DEF StudioInv, StudioTypes, ViewInv
<1>6. TaskInv'
  <2>1. task # NoTask /\ task.by = "advance" => BaselineKey(asked.input) # k
    BY <1>1 DEF StudioInv, TaskInv
  <2> QED BY <1>1, <2>1 DEF StudioInv, StudioTypes, TaskInv, IsRunning
<1>7. WaitInv' /\ DoneInv' BY <1>1 DEF StudioInv, WaitInv, DoneInv, IsRunning
<1>8. FreshInv'
  <2>1. IsRunning /\ task = NoTask => cache'[view.job.key] = cache[view.job.key]
    BY <1>1, <1>4 DEF StudioInv, StudioTypes, WaitInv
  <2>2. \A j \in JobKeys : cache'[j] \in Active => cache[j] \in Active
    BY <1>1 DEF StudioInv, StudioTypes, Active
  <2> QED BY <1>1, <2>1, <2>2 DEF StudioInv, FreshInv, IsRunning
<1> QED BY <1>2, <1>3, <1>5, <1>6, <1>7, <1>8 DEF StudioInv

\* Only an active job is refetched, and no function advances past one.
LEMMA Refetches ==
  ASSUME StudioInv, Refetch
  PROVE  StudioInv'
<1>1. /\ UNCHANGED <<scenarios, server, view, refs, deps, task, asked>>
      /\ cache' = [cache EXCEPT ![view.job.key] = server[view.job.key]]
      /\ view.job.status \in Active
  BY DEF Refetch, Polls
<1>2. view.job # NoActiveJob /\ cache[view.job.key] \in Active
  BY DEF Refetch, Polls, Observed, NoActiveJob, Active
<1> PICK k \in JobKeys : k = view.job.key BY <1>2 DEF StudioInv, StudioTypes, ShownJobs
<1>3. cache' = [cache EXCEPT ![k] = server[k]] /\ cache[k] \in Active BY <1>1, <1>2
<1>4. server[k] # "none" /\ server[k] \in JobStatuses
  BY <1>3 DEF StudioInv, StudioTypes, CacheInv, Active
<1>5. StudioTypes' BY <1>1, <1>3, <1>4 DEF StudioInv, StudioTypes
<1>6. CacheInv' BY <1>1, <1>3, <1>4 DEF StudioInv, StudioTypes, CacheInv
<1>7. ViewInv' BY <1>1, <1>3, <1>4 DEF StudioInv, StudioTypes, ViewInv
<1>8. TaskInv'
  <2>1. task # NoTask => task.by # "advance" BY <1>3 DEF StudioInv, TaskInv, Active
  <2> QED BY <1>1, <2>1 DEF StudioInv, TaskInv, IsRunning
<1>9. WaitInv' /\ DoneInv' BY <1>1 DEF StudioInv, WaitInv, DoneInv, IsRunning
<1>10. FreshInv'
  <2>1. \A j \in JobKeys : cache'[j] \in Active => cache[j] \in Active \/ j = k
    BY <1>3 DEF StudioInv, StudioTypes
  <2> QED BY <1>1, <1>2, <2>1 DEF StudioInv, FreshInv, IsRunning
<1> QED BY <1>5, <1>6, <1>7, <1>8, <1>9, <1>10 DEF StudioInv
\* A run starts; what is shown was handled.
LEMMA RunsStart ==
  ASSUME StudioInv, NEW i \in Inputs, RunScenario(i)
  PROVE  StudioInv'
<1> PICK how \in {"retry", "stale", "fresh"} :
      /\ asked' = [input |-> i, how |-> how]
      /\ how # "retry" => view.job = NoActiveJob
      /\ how = "fresh" => \A k \in JobKeys : cache[k] \notin Active
  <2>1. Manner \in {"retry", "stale", "fresh"} /\ (Manner # "retry" => view.job = NoActiveJob)
    BY DEF Manner
  <2>2. Manner = "fresh" => \A k \in JobKeys : cache[k] \notin Active
    BY DEF Manner
  <2> QED BY <2>1, <2>2 DEF RunScenario
<1>1. /\ ~IsRunning
      /\ UNCHANGED <<scenarios, server, cache, refs, deps>>
      /\ view' = [view EXCEPT !.phase = "saving_baseline"]
      /\ task' = [by |-> "runScenario", at |-> "lookup", input |-> i]
  BY DEF RunScenario
<1>2. /\ view' \in [phase : Phases, step : Steps, job : ShownJobs, completed : KnownInputs]
      /\ view'.phase = "saving_baseline" /\ view'.step = view.step /\ view'.job = view.job
  BY <1>1 DEF StudioInv, StudioTypes, Phases
<1>3. /\ task' \in Requesting /\ task' # NoTask
      /\ task'.by = "runScenario" /\ task'.input = i
      /\ asked'.input = i /\ asked'.how = how
  BY <1>1 DEF Requesting, NoTask
<1>4. StudioTypes' BY <1>1, <1>2, <1>3 DEF StudioInv, StudioTypes
<1>5. CacheInv' BY <1>1 DEF StudioInv, CacheInv
<1>6. ViewInv' BY <1>1, <1>2, <1>3 DEF StudioInv, StudioTypes, ViewInv, IsRunning, Phases
<1>7. TaskInv' /\ WaitInv' BY <1>2, <1>3 DEF TaskInv, WaitInv, IsRunning
<1>8. FreshInv' BY <1>1, <1>2, <1>3 DEF FreshInv
<1>9. DoneInv' BY <1>2 DEF DoneInv
<1> QED BY <1>4, <1>5, <1>6, <1>7, <1>8, <1>9 DEF StudioInv

\* A request is answered, and the next one is due in the same function.
LEMMA FunctionsGoOn ==
  ASSUME StudioInv, task # NoTask, NEW p \in {"running_baseline", "running_candidate", view.phase},
         NEW at \in {"create", "reread", "submit"},
         view' = [view EXCEPT !.phase = p], task' = [task EXCEPT !.at = at],
         UNCHANGED <<server, cache, refs, deps, asked>>
  PROVE  StudioInv'
<1>1. IsRunning BY DEF StudioInv, TaskInv
<1>2. /\ view' \in [phase : Phases, step : Steps, job : ShownJobs, completed : KnownInputs]
      /\ view'.phase = p /\ view'.step = view.step /\ view'.job = view.job
      /\ p \notin {"idle", "completed", "failed"}
  BY <1>1 DEF StudioInv, StudioTypes, Phases, IsRunning
<1>3. /\ task' \in Requesting /\ task' # NoTask
      /\ task'.by = task.by /\ task'.input = task.input
  BY DEF StudioInv, StudioTypes, Requesting, NoTask
<1>4. StudioTypes' BY <1>1, <1>2, <1>3 DEF StudioInv, StudioTypes, IsRunning
<1>5. CacheInv' BY DEF StudioInv, CacheInv
<1>6. ViewInv' BY <1>2, <1>3 DEF StudioInv, ViewInv
<1>7. TaskInv' /\ WaitInv' BY <1>2, <1>3 DEF StudioInv, TaskInv, WaitInv, IsRunning
<1>8. FreshInv' BY <1>1, <1>2, <1>3 DEF StudioInv, FreshInv
<1>9. DoneInv' BY <1>2 DEF DoneInv
<1> QED BY <1>4, <1>5, <1>6, <1>7, <1>8, <1>9 DEF StudioInv

\* A function that fails leaves what it had handled.
LEMMA FunctionsFail ==
  ASSUME StudioInv, task # NoTask, Throw, UNCHANGED <<server, cache, refs, deps, asked>>
  PROVE  StudioInv'
<1>1. IsRunning BY DEF StudioInv, TaskInv
<1>2. /\ view' \in [phase : Phases, step : Steps, job : ShownJobs, completed : KnownInputs]
      /\ view'.phase = "failed" /\ view'.step = view.step /\ view'.job = view.job
      /\ task' = NoTask
  BY DEF StudioInv, StudioTypes, Phases, Throw
<1>3. ~IsRunning' BY <1>2 DEF IsRunning
<1>4. StudioTypes' BY <1>1, <1>2 DEF StudioInv, StudioTypes, IsRunning
<1>5. CacheInv' BY DEF StudioInv, CacheInv
<1>6. ViewInv' BY <1>2 DEF StudioInv, ViewInv
<1>7. TaskInv' /\ WaitInv' /\ FreshInv' BY <1>2, <1>3 DEF TaskInv, WaitInv, FreshInv
<1>8. DoneInv' BY <1>2 DEF DoneInv
<1> QED BY <1>4, <1>5, <1>6, <1>7, <1>8 DEF StudioInv

LEMMA ScenarioSteps ==
  ASSUME StudioInv, Lookup \/ Create \/ Reread \/ RequestFails
  PROVE  StudioInv'
<1>1. task # NoTask BY DEF Lookup, Create, Reread, RequestFails, NoTask
<1>2. UNCHANGED <<server, cache, refs, deps, asked>> BY DEF Lookup, Create, Reread, RequestFails
<1>3. \/ Throw
      \/ Proceed("running_baseline") \/ Proceed("running_candidate")
      \/ \E at \in {"create", "reread"} : task' = [task EXCEPT !.at = at] /\ UNCHANGED view
  BY DEF Lookup, Create, Reread, RequestFails, Ensured
<1>4. CASE Throw BY <1>1, <1>2, <1>4, FunctionsFail
<1>5. CASE Proceed("running_baseline") BY <1>1, <1>2, <1>5, FunctionsGoOn DEF Proceed
<1>6. CASE Proceed("running_candidate") BY <1>1, <1>2, <1>6, FunctionsGoOn DEF Proceed
<1>7. CASE \E at \in {"create", "reread"} : task' = [task EXCEPT !.at = at] /\ UNCHANGED view
  <2> PICK at \in {"create", "reread"} : task' = [task EXCEPT !.at = at] /\ UNCHANGED view BY <1>7
  <2>1. view' = [view EXCEPT !.phase = view.phase] BY DEF StudioInv, StudioTypes
  <2> QED BY <1>1, <1>2, <2>1, FunctionsGoOn
<1> QED BY <1>3, <1>4, <1>5, <1>6, <1>7

\* The answer to a POST is shown: its job is new to the effect, and where the run is
\* fresh its cached status has ended or is the answer's own.
LEMMA AnswersAreShown ==
  ASSUME StudioInv, task # NoTask, NEW step \in {"baseline", "candidate"}, NEW key \in JobKeys,
         Shown(step, key), refs' = [pending |-> asked.input, transitioning |-> NoKey],
         step = "baseline" => key = BaselineKey(asked.input),
         step = "candidate" => /\ key = CandidateKey(asked.input)
                               /\ server[BaselineKey(asked.input)] = "succeeded",
         asked.how = "fresh" => deps[1] # step /\ \A k \in JobKeys : cache[k] \notin Active,
         UNCHANGED <<deps, asked>>
  PROVE  StudioInv'
<1>1. IsRunning /\ asked.input \in Inputs /\ asked.input \in KnownInputs
  BY DEF StudioInv, StudioTypes, TaskInv, IsRunning, KnownInputs
<1> PICK s \in {"queued", "running", "succeeded", "failed"} :
      /\ s = IF server[key] = "none" THEN "queued" ELSE server[key]
      /\ Posted(key) = [key |-> key, status |-> s]
  BY DEF Posted, StudioInv, StudioTypes, JobStatuses, Active, Terminal
<1> PICK c \in {"queued", "running", "succeeded", "failed"} :
      c = IF cache[key] = "none" THEN s ELSE cache[key]
  BY DEF StudioInv, StudioTypes, JobStatuses, Active, Terminal
<1>2. /\ server' = [server EXCEPT ![key] = s]
      /\ cache' = [cache EXCEPT ![key] = c]
      /\ view' = [view EXCEPT !.step = step, !.job = [key |-> key, status |-> s]]
      /\ task' = NoTask
  BY DEF Shown, StudioInv, StudioTypes
<1>3. [key |-> key, status |-> s] \in ShownJobs /\ [key |-> key, status |-> s] # NoActiveJob
  BY DEF ShownJobs, JobStatuses, Active, Terminal, NoActiveJob
<1>4. /\ view' \in [phase : Phases, step : Steps, job : ShownJobs, completed : KnownInputs]
      /\ view'.phase = view.phase /\ view'.step = step
      /\ view'.job # NoActiveJob /\ view'.job.key = key /\ view'.job.status = s
  BY <1>2, <1>3 DEF StudioInv, StudioTypes, Steps
<1>5. /\ refs' \in [pending : KnownInputs, transitioning : JobKeys \cup {NoKey}]
      /\ refs'.pending = asked.input /\ refs'.transitioning = NoKey
  BY <1>1
<1>6. StudioTypes' BY <1>1, <1>2, <1>4, <1>5 DEF StudioInv, StudioTypes, JobStatuses, Active, Terminal
<1>7. CacheInv'
  <2>1. \A k \in JobKeys : k # key => server'[k] = server[k] /\ cache'[k] = cache[k]
    BY <1>2 DEF StudioInv, StudioTypes
  <2>2. server'[key] = s /\ cache'[key] = c BY <1>2 DEF StudioInv, StudioTypes
  <2>3. c \in Terminal => s = c BY DEF StudioInv, CacheInv, Terminal
  <2> QED BY <2>1, <2>2, <2>3 DEF StudioInv, CacheInv
<1>8. ViewInv'
  <2>1. cache'[key] # "none" BY <1>2 DEF StudioInv, StudioTypes
  <2> QED BY <1>1, <1>2, <1>4, <2>1 DEF ViewInv, IsRunning
<1>9. TaskInv' BY <1>2 DEF TaskInv
<1>10. WaitInv'
  <2>1. step = "candidate" => server'[BaselineKey(asked.input)] = "succeeded"
    BY <1>1, <1>2, KeysDiffer DEF StudioInv, StudioTypes
  <2> QED BY <1>4, <1>5, <2>1 DEF WaitInv
<1>11. FreshInv'
  <2>1. asked.how = "fresh" => \A k \in JobKeys : cache'[k] \in Active => k = key
    BY <1>2 DEF StudioInv, StudioTypes
  <2>2. cache'[key] = c /\ (asked.how = "fresh" /\ c \in Active => s \in Active)
    BY <1>2 DEF StudioInv, StudioTypes
  <2>3. task'.by = "nobody" BY <1>2 DEF NoTask
  <2> QED BY <1>4, <2>1, <2>2, <2>3 DEF FreshInv
<1>12. DoneInv' BY <1>1, <1>4 DEF DoneInv, IsRunning
<1> QED BY <1>6, <1>7, <1>8, <1>9, <1>10, <1>11, <1>12 DEF StudioInv

LEMMA Submissions ==
  ASSUME StudioInv, SubmitBaseline \/ SubmitCandidate
  PROVE  StudioInv'
<1>1. task # NoTask BY DEF SubmitBaseline, SubmitCandidate, NoTask
<1>2. task.input = asked.input /\ IsRunning /\ asked.input \in Inputs
  BY <1>1 DEF StudioInv, StudioTypes, TaskInv, IsRunning
<1>3. CASE SubmitBaseline
  <2>1. asked.how = "fresh" => deps[1] # "baseline" /\ \A k \in JobKeys : cache[k] \notin Active
    BY <1>2, <1>3 DEF StudioInv, FreshInv, ViewInv, SubmitBaseline
  <2> QED BY <1>1, <1>2, <1>3, <2>1, KeysDiffer, AnswersAreShown DEF SubmitBaseline, Pending
<1>4. CASE SubmitCandidate
  <2>1. /\ view.job.key = BaselineKey(asked.input) /\ cache[BaselineKey(asked.input)] = "succeeded"
        /\ refs.pending = asked.input /\ deps[1] = "baseline"
    BY <1>1, <1>4 DEF StudioInv, TaskInv, SubmitCandidate
  <2>2. asked.how = "fresh" => \A k \in JobKeys : cache[k] \notin Active
    BY <1>2, <2>1 DEF StudioInv, FreshInv, Active
  <2>3. refs' = [pending |-> asked.input, transitioning |-> NoKey]
    BY <1>4, <2>1 DEF SubmitCandidate, StudioInv, StudioTypes
  <2> QED BY <1>1, <1>2, <1>4, <2>1, <2>2, <2>3, KeysDiffer, AnswersAreShown DEF SubmitCandidate
<1> QED BY <1>3, <1>4
LEMMA ObservedIsShown ==
  ASSUME StudioInv
  PROVE  /\ Observed \in ShownJobs
         /\ view.job = NoActiveJob <=> Observed = NoActiveJob
         /\ view.job # NoActiveJob => /\ view.job.key \in JobKeys
                                      /\ Observed.key = view.job.key
                                      /\ Observed.status = cache[view.job.key]
<1>1. view.job # NoActiveJob => view.job.key \in JobKeys /\ cache[view.job.key] \in JobStatuses
  BY DEF StudioInv, StudioTypes, ShownJobs
<1>2. view.job = NoActiveJob => Observed = NoActiveJob BY DEF Observed
<1>3. view.job # NoActiveJob =>
        /\ Observed \in [key : JobKeys, status : JobStatuses]
        /\ Observed.key = view.job.key /\ Observed.status = cache[view.job.key]
  BY <1>1 DEF Observed
<1>4. \A j \in [key : JobKeys, status : JobStatuses] : j # NoActiveJob
  BY KeysDiffer DEF NoActiveJob
<1> QED BY <1>1, <1>2, <1>3, <1>4 DEF ShownJobs

\* The effect looks and leaves everything as it is; where a run waits, the status
\* it has then seen is an active one.
LEMMA EffectsIgnore ==
  ASSUME StudioInv, Ignored, deps' = <<view.step, Observed>>,
         UNCHANGED <<server, cache, view, refs, task, asked>>
  PROVE  StudioInv'
<1>1. deps' \in Steps \X ShownJobs /\ deps'[1] = view.step /\ deps'[2] = Observed
  BY ObservedIsShown DEF StudioInv, StudioTypes
<1>2. StudioTypes' BY <1>1 DEF StudioInv, StudioTypes
<1>3. CacheInv' /\ WaitInv' /\ DoneInv' BY DEF StudioInv, CacheInv, WaitInv, DoneInv, IsRunning
<1>4. ViewInv' BY <1>1 DEF StudioInv, ViewInv
<1>5. TaskInv' BY <1>1 DEF StudioInv, TaskInv, IsRunning
<1>6. FreshInv'
  <2>1. IsRunning /\ task = NoTask => Observed.status \in Active
    BY ObservedIsShown, KeysDiffer DEF StudioInv, WaitInv, ViewInv, Ignored
  <2> QED BY <1>1, <2>1 DEF StudioInv, FreshInv, IsRunning
<1> QED BY <1>2, <1>3, <1>4, <1>5, <1>6 DEF StudioInv

\* What the effect handles is the job of a run that waits.
LEMMA EffectsHandle ==
  ASSUME StudioInv, ~Ignored
  PROVE  /\ IsRunning /\ task = NoTask /\ view.job # NoActiveJob
         /\ asked.input \in Inputs
         /\ Observed.key \in JobKeys /\ Observed.key = view.job.key
         /\ Observed.status = cache[Observed.key]
         /\ refs.pending = asked.input
         /\ view.step = "baseline" => Observed.key = BaselineKey(asked.input)
         /\ view.step = "candidate" => /\ Observed.key = CandidateKey(asked.input)
                                       /\ server[BaselineKey(asked.input)] = "succeeded"
<1>1. /\ view.job # NoActiveJob /\ Observed.key = view.job.key /\ Observed.key \in JobKeys
      /\ Observed.status = cache[Observed.key] /\ refs.transitioning # view.job.key
  BY ObservedIsShown DEF Ignored
<1>2. IsRunning /\ task = NoTask
  BY <1>1 DEF StudioInv, ViewInv, IsRunning
<1>3. asked.input \in Inputs BY <1>2 DEF StudioInv, StudioTypes, IsRunning
<1> QED BY <1>1, <1>2, <1>3 DEF StudioInv, WaitInv

LEMMA EffectsEnd ==
  ASSUME StudioInv, Effect, ~Ignored, JobFailed \/ (view.step = "candidate" /\
           Observed.status = "succeeded" /\ Complete)
  PROVE  StudioInv'
<1>1. /\ UNCHANGED <<server, cache, asked, task>> /\ task = NoTask
      /\ deps' = <<view.step, Observed>>
  BY EffectsHandle DEF Effect, JobFailed, Complete
<1>2. deps' \in Steps \X ShownJobs /\ deps'[1] = view.step
  BY <1>1, ObservedIsShown DEF StudioInv, StudioTypes
<1>3. CacheInv' BY <1>1 DEF StudioInv, CacheInv
<1>4. CASE JobFailed
  <2>1. /\ view' \in [phase : Phases, step : Steps, job : ShownJobs, completed : KnownInputs]
        /\ view'.phase = "failed" /\ view'.step = view.step /\ view'.job = view.job
    BY <1>4 DEF StudioInv, StudioTypes, Phases, JobFailed
  <2>2. /\ refs' \in [pending : KnownInputs, transitioning : JobKeys \cup {NoKey}]
        /\ refs'.transitioning = view.job.key
    BY <1>4, EffectsHandle DEF StudioInv, StudioTypes, JobFailed
  <2>3. StudioTypes' BY <1>1, <1>2, <2>1, <2>2, EffectsHandle DEF StudioInv, StudioTypes
  <2>4. ViewInv' BY <1>1, <1>2, <2>1, <2>2, EffectsHandle DEF StudioInv, ViewInv
  <2>5. ~IsRunning' BY <2>1 DEF IsRunning
  <2> QED BY <1>1, <1>3, <2>1, <2>3, <2>4, <2>5
        DEF StudioInv, TaskInv, WaitInv, FreshInv, DoneInv
<1>5. CASE view.step = "candidate" /\ Observed.status = "succeeded" /\ Complete
  <2>1. /\ view' \in [phase : Phases, step : Steps, job : ShownJobs, completed : KnownInputs]
        /\ view'.phase = "completed" /\ view'.step = "none" /\ view'.job = NoActiveJob
        /\ view'.completed = asked.input
    BY <1>5, EffectsHandle DEF StudioInv, StudioTypes, Phases, Steps, ShownJobs, Complete, KnownInputs
  <2>2. refs' \in [pending : KnownInputs, transitioning : JobKeys \cup {NoKey}]
    BY <1>5, EffectsHandle DEF KnownInputs, Complete
  <2>3. StudioTypes' BY <1>1, <1>2, <2>1, <2>2, EffectsHandle DEF StudioInv, StudioTypes
  <2>4. ViewInv' BY <1>1, <1>2, <1>5, <2>1 DEF ViewInv
  <2>5. ~IsRunning' BY <2>1 DEF IsRunning
  <2>6. DoneInv'
    <3>1. server[CandidateKey(asked.input)] = "succeeded"
      BY <1>5, EffectsHandle DEF StudioInv, CacheInv, Terminal
    <3> QED BY <1>1, <1>5, <2>1, <3>1, EffectsHandle DEF DoneInv
  <2> QED BY <1>1, <1>3, <2>3, <2>4, <2>5, <2>6 DEF StudioInv, TaskInv, WaitInv, FreshInv
<1> QED BY <1>4, <1>5

LEMMA EffectsAdvance ==
  ASSUME StudioInv, Effect, ~Ignored, view.step = "baseline", Observed.status = "succeeded", Advance
  PROVE  StudioInv'
<1>1. UNCHANGED <<server, cache, asked>> /\ deps' = <<view.step, Observed>>
  BY DEF Effect
<1>2. deps' \in Steps \X ShownJobs /\ deps'[1] = "baseline"
  BY <1>1, ObservedIsShown DEF StudioInv, StudioTypes
<1>3. /\ view' \in [phase : Phases, step : Steps, job : ShownJobs, completed : KnownInputs]
      /\ view'.phase = "saving_candidate" /\ view'.step = "baseline" /\ view'.job = view.job
  BY DEF StudioInv, StudioTypes, Phases, Advance
<1>4. /\ refs' \in [pending : KnownInputs, transitioning : JobKeys \cup {NoKey}]
      /\ refs'.transitioning = view.job.key /\ refs'.pending = asked.input
  BY EffectsHandle DEF StudioInv, StudioTypes, Advance
<1>5. /\ task' \in Requesting /\ task' # NoTask
      /\ task'.by = "advance" /\ task'.input = asked.input
  BY EffectsHandle DEF Advance, Requesting, NoTask
<1>6. StudioTypes' BY <1>1, <1>2, <1>3, <1>4, <1>5, EffectsHandle DEF StudioInv, StudioTypes
<1>7. CacheInv' BY <1>1 DEF StudioInv, CacheInv
<1>8. ViewInv' BY <1>1, <1>3, <1>4, <1>5, EffectsHandle DEF StudioInv, ViewInv
<1>9. IsRunning' BY <1>3 DEF IsRunning
<1>10. TaskInv' BY <1>1, <1>2, <1>3, <1>4, <1>5, <1>9, EffectsHandle DEF TaskInv
<1>11. WaitInv' BY <1>5 DEF WaitInv
<1>12. FreshInv' BY <1>1, <1>3, <1>5, EffectsHandle DEF StudioInv, FreshInv
<1>13. DoneInv' BY <1>3 DEF DoneInv
<1> QED BY <1>6, <1>7, <1>8, <1>10, <1>11, <1>12, <1>13 DEF StudioInv

LEMMA PagesAreLeft ==
  ASSUME StudioInv, Leave
  PROVE  StudioInv'
<1> USE DEF NewView, NewRefs, NoTask, NoActiveJob, NoInput
<1>1. /\ view' = NewView /\ refs' = NewRefs /\ task' = NoTask /\ deps' = <<"none", NoActiveJob>>
      /\ UNCHANGED <<server, cache, asked>>
  BY DEF Leave, Mounted
<1>2. StudioTypes'
  BY <1>1 DEF StudioInv, StudioTypes, ShownJobs, KnownInputs, Steps, Phases
<1>3. CacheInv' BY <1>1 DEF StudioInv, CacheInv
<1>4. ViewInv' /\ TaskInv' /\ WaitInv' /\ FreshInv' /\ DoneInv'
  BY <1>1 DEF ViewInv, TaskInv, WaitInv, FreshInv, DoneInv, IsRunning
<1> QED BY <1>2, <1>3, <1>4 DEF StudioInv

LEMMA StudioStep == StudioInv /\ [StudioNext]_studioVars => StudioInv'
<1> SUFFICES ASSUME StudioInv, [StudioNext]_studioVars PROVE StudioInv' OBVIOUS
<1>1. CASE UNCHANGED studioVars BY <1>1, ServiceSteps
<1>2. ASSUME NEW i \in Inputs, RunScenario(i) \/ OtherSubmits(i) PROVE StudioInv'
  BY <1>2, RunsStart, ServiceSteps
<1>3. CASE Lookup \/ Create \/ Reread \/ RequestFails BY <1>3, ScenarioSteps
<1>4. CASE SubmitBaseline \/ SubmitCandidate BY <1>4, Submissions
<1>5. CASE Effect
  <2>1. UNCHANGED <<server, cache, asked>> /\ deps' = <<view.step, Observed>> BY <1>5 DEF Effect
  <2>2. CASE Ignored /\ UNCHANGED <<view, refs, task>> BY <2>1, <2>2, EffectsIgnore
  <2>3. CASE ~Ignored /\ Observed.status = "failed" /\ JobFailed BY <1>5, <2>3, EffectsEnd
  <2>4. CASE ~Ignored /\ Observed.status = "succeeded" /\ view.step = "baseline" /\ Advance
    BY <1>5, <2>4, EffectsAdvance
  <2>5. CASE ~Ignored /\ Observed.status = "succeeded" /\ view.step = "candidate" /\ Complete
    BY <1>5, <2>5, EffectsEnd
  <2> QED BY <1>5, <2>2, <2>3, <2>4, <2>5 DEF Effect
<1>6. CASE Refetch BY <1>6, Refetches
<1>7. CASE Leave BY <1>7, PagesAreLeft
<1>8. ASSUME NEW k \in JobKeys, GarbageCollect(k) \/ CancelElsewhere(k) \/ JobRuns(k) PROVE StudioInv'
  BY <1>8, Collections, Cancellations, ServiceSteps
<1>9. ASSUME NEW d \in Drafts, OtherCreates(d) PROVE StudioInv' BY <1>9, ServiceSteps
<1> QED BY <1>1, <1>2, <1>3, <1>4, <1>5, <1>6, <1>7, <1>8, <1>9 DEF StudioNext

\* A fresh run that waits polls an active job, or its effect is due.
LEMMA FreshRunsAreWatched == StudioInv => RunsArrive
<1> SUFFICES ASSUME StudioInv PROVE RunsArrive OBVIOUS
<1>1. ASSUME IsRunning, asked.how = "fresh", task = NoTask, ~EffectIsDue PROVE Polls
  <2>1. view.job # NoActiveJob /\ Observed.status = cache[view.job.key]
    BY <1>1, ObservedIsShown DEF StudioInv, WaitInv
  <2>2. deps[1] = view.step /\ deps[2] = Observed BY <1>1 DEF EffectIsDue
  <2> QED BY <1>1, <2>1, <2>2 DEF StudioInv, FreshInv, Polls
<1> QED BY <1>1 DEF RunsArrive, Watched, StudioInv, DoneInv

\* A run of the studio that meets no earlier job and no stale cache entry is watched
\* until it ends, and a completed run shows the candidate that was asked for, whose
\* experiment and baseline have both succeeded: useScenarioExperiment and useJob.
THEOREM RunsAlwaysArrive == StudioSpec => []RunsArrive
<1> QED BY StudioStarts, StudioStep, FreshRunsAreWatched, PTL DEF StudioSpec
-----------------------------------------------------------------------------
(* Outcome monitoring: what a report holds depends on its batch alone, the  *)
(* alerts that are emitted depend on the ones before.                       *)

Levels == {"within_expectation", "early_warning", "material_deviation",
           "decision_review_required", "recalibration_required"}
Alerts == [kpi : DOMAIN Predictions \cup {Decision}, level : Levels, day : Nat]
Realizations == UNION {[K -> Int] : K \in SUBSET DOMAIN Predictions}
Reports == [realized : Realizations, alerts : SUBSET Alerts, recommended : Levels]

Gravest(r) ==
  IF r.alerts = {} THEN r.recommended = "within_expectation"
  ELSE \E a \in r.alerts :
         a.level = r.recommended /\ \A b \in r.alerts : Severity(b.level) <= Severity(a.level)

\* No alert is from the future; each was emitted, or one like it not long before.
MonitoringInv ==
  /\ today \in Nat
  /\ reports \in Seq(Reports)
  /\ active_alerts \subseteq Alerts
  /\ \A a \in active_alerts : a.day <= today
  /\ AlertsAreSpaced
  /\ \A i \in DOMAIN reports : Gravest(reports[i])

LEMMA PredictionFacts ==
  ASSUME NEW k \in DOMAIN Predictions
  PROVE  /\ Predictions[k].mean \in Int /\ Predictions[k].lower \in Int
         /\ Predictions[k].upper \in Int /\ Predictions[k].bound \in Int
         /\ Predictions[k].direction \in {"higher", "lower"}
         /\ Predictions[k].hard \in BOOLEAN
BY MonitoringAssumption

\* The record that counts is one of the batch's.
LEMMA RealizedIsInteger ==
  ASSUME NEW batch \in Batches, NEW k \in DOMAIN batch
  PROVE  Realized(batch[k]) \in Int
<1> DEFINE records == batch[k]
           days == {records[i].as_of : i \in DOMAIN records}
           latest == {i \in DOMAIN records : \A j \in DOMAIN records :
                                               records[j].as_of <= records[i].as_of}
<1>1. records \in Seq([as_of : Nat, value : Int]) /\ records # <<>> BY MonitoringAssumption
<1> HIDE DEF records
<1>2. /\ DOMAIN records = 1..Len(records) /\ Len(records) \in Nat \ {0}
      /\ \A i \in DOMAIN records : records[i].as_of \in Nat /\ records[i].value \in Int
  <2>1. DOMAIN records = 1..Len(records) /\ Len(records) \in Nat BY <1>1
  <2>2. Len(records) # 0 BY <1>1
  <2>3. \A i \in 1..Len(records) : records[i] \in [as_of : Nat, value : Int]
    <3> DEFINE R == [as_of : Nat, value : Int]
    <3>1. records \in Seq(R) BY <1>1
    <3> HIDE DEF R
    <3>2. \A i \in 1..Len(records) : records[i] \in R BY <3>1
    <3> QED BY <3>2 DEF R
  <2>4. \A r \in [as_of : Nat, value : Int] : r.as_of \in Nat /\ r.value \in Int OBVIOUS
  <2> QED BY <2>1, <2>2, <2>3, <2>4
<1>3. IsFiniteSet(DOMAIN records) BY <1>2, FS_Interval
<1>4. IsFiniteSet(days)
  <2> DEFINE b == [i \in DOMAIN records |-> records[i].as_of]
  <2>1. days = {b[i] : i \in DOMAIN records} OBVIOUS
  <2> HIDE DEF b, days
  <2> QED BY <1>3, <2>1, ImageIsFinite
<1>5. days \subseteq Int /\ days # {} BY <1>2
<1>6. Max(days) \in days /\ \A d \in days : Max(days) >= d
  <2> HIDE DEF days
  <2> QED BY <1>4, <1>5, MaxIsGreatest
<1>7. PICK i \in DOMAIN records : records[i].as_of = Max(days) BY <1>6
<1>8. i \in latest BY <1>2, <1>6, <1>7
<1>9. IsFiniteSet(latest) /\ latest \subseteq Int /\ latest # {} BY <1>2, <1>3, <1>8, FS_Subset
<1>10. Max(latest) \in latest
  <2> HIDE DEF latest
  <2> QED BY <1>9, MaxIsGreatest
<1>11. Realized(records) = records[Max(latest)].value BY DEF Realized
<1> QED BY <1>2, <1>10, <1>11 DEF records

LEMMA RecommendedFacts ==
  ASSUME NEW levels
  PROVE  Recommended(levels) =
           IF "decision_review_required" \in levels THEN "decision_review_required"
           ELSE IF "recalibration_required" \in levels THEN "recalibration_required"
           ELSE IF "material_deviation" \in levels THEN "material_deviation"
           ELSE IF "early_warning" \in levels THEN "early_warning"
           ELSE "within_expectation"
<1> DEFINE order == <<"decision_review_required", "recalibration_required",
                      "material_deviation", "early_warning", "within_expectation">>
           present == {n \in DOMAIN order : order[n] \in levels}
<1>1. Recommended(levels) = IF present = {} THEN "within_expectation" ELSE order[Min(present)]
  BY DEF Recommended
<1>2. DOMAIN order = 1..5 OBVIOUS
<1>3. /\ order[1] = "decision_review_required" /\ order[2] = "recalibration_required"
      /\ order[3] = "material_deviation" /\ order[4] = "early_warning"
      /\ order[5] = "within_expectation"
  OBVIOUS
<1>4. \A n : n \in present <=> n \in 1..5 /\ order[n] \in levels BY <1>2
<1>5. present # {} => Min(present) \in present /\ \A n \in present : Min(present) <= n
  <2> HIDE DEF order
  <2>0. \A n \in Int : IsFiniteSet(1..n) BY FS_Interval
  <2> PICK m \in Int : m = 5 OBVIOUS
  <2>1. IsFiniteSet(1..m) BY <2>0, Zenon
  <2>2. present \subseteq 1..m BY <1>2
  <2>3. IsFiniteSet(present) BY <2>1, <2>2, FS_Subset
  <2> HIDE DEF present
  <2>4. present \subseteq Int BY <2>2
  <2> QED BY <2>3, <2>4, MinIsLeast
<1> HIDE DEF order, present
<1>6. CASE present = {}
  <2>1. \A n \in 1..5 : order[n] \notin levels BY <1>4, <1>6
  <2> QED BY <1>1, <1>3, <1>6, <2>1
<1>7. CASE present # {}
  <2> PICK m \in 1..5 : m = Min(present) BY <1>4, <1>5, <1>7
  <2>1. order[m] \in levels /\ \A n \in 1..5 : n < m => order[n] \notin levels
    BY <1>4, <1>5, <1>7
  <2>2. Recommended(levels) = order[m] BY <1>1, <1>7
  <2>3. m = 1 \/ m = 2 \/ m = 3 \/ m = 4 \/ m = 5 OBVIOUS
  <2> QED BY <1>3, <2>1, <2>2, <2>3
<1> QED BY <1>6, <1>7

LEMMA ClassifyLevels ==
  ASSUME NEW p, NEW v
  PROVE  Classify(p, v) \in {"within_expectation", "early_warning", "material_deviation",
                             "decision_review_required"}
BY DEF Classify

LEMMA ReportFacts ==
  ASSUME NEW batch \in Batches, NEW drifted \in BOOLEAN, today \in Nat
  PROVE  /\ Report(batch, drifted) \in Reports
         /\ Gravest(Report(batch, drifted))
         /\ \A a \in Report(batch, drifted).alerts : a.day = today
<1> DEFINE K == DOMAIN batch
           realized == [k \in K |-> Realized(batch[k])]
           level == [k \in K |-> Classify(Predictions[k], realized[k])]
           recalibrate == RecalibrationRequired(realized, drifted)
           loud == {k \in K : level[k] # "within_expectation"}
           recal == [kpi |-> Decision, level |-> "recalibration_required", day |-> today]
           raised == {[kpi |-> k, level |-> level[k], day |-> today] : k \in loud}
                       \cup {a \in {recal} : recalibrate}
           levels == Range(level) \cup {l \in {"recalibration_required"} : recalibrate}
           r == Report(batch, drifted)
<1>1. r = [realized |-> realized, alerts |-> raised, recommended |-> Recommended(levels)]
  BY DEF Report
<1>2. K \subseteq DOMAIN Predictions BY MonitoringAssumption
<1>3. realized \in [K -> Int] BY RealizedIsInteger
<1>4. \A k \in K : level[k] \in {"within_expectation", "early_warning", "material_deviation",
                                 "decision_review_required"}
  BY ClassifyLevels
<1>5. \A l : l \in levels <=> (\E k \in K : l = level[k]) \/ (recalibrate /\ l = "recalibration_required")
  BY DEF Range
<1>6. Recommended(levels) \in Levels BY RecommendedFacts DEF Levels
<1> HIDE DEF recalibrate, realized, r
<1>7. raised \subseteq Alerts /\ \A a \in raised : a.day = today
  <2>1. recal \in Alerts /\ recal.day = today BY DEF Alerts, Levels
  <2>2. ASSUME NEW k \in K
        PROVE  [kpi |-> k, level |-> level[k], day |-> today] \in Alerts
    <3>1. level[k] \in Levels /\ k \in DOMAIN Predictions BY <1>2, <1>4 DEF Levels
    <3> HIDE DEF level
    <3> QED BY <3>1 DEF Alerts
  <2> HIDE DEF level, recal
  <2> QED BY <2>1, <2>2
<1>8. r.realized \in Realizations BY <1>1, <1>2, <1>3 DEF Realizations
<1>9. \A a : a \in raised <=>
        \/ \E k \in K : level[k] # "within_expectation"
                        /\ a = [kpi |-> k, level |-> level[k], day |-> today]
        \/ recalibrate /\ a = recal
  OBVIOUS
<1>10. /\ \A a \in raised : a.level \in levels /\ a.level # "within_expectation"
       /\ \A l \in levels : l # "within_expectation" => \E a \in raised : a.level = l
  <2> HIDE DEF raised, levels, level
  <2>1. recal.level = "recalibration_required" OBVIOUS
  <2> HIDE DEF recal
  <2>2. ASSUME NEW a \in raised PROVE a.level \in levels /\ a.level # "within_expectation"
    <3>1. CASE recalibrate /\ a = recal BY <1>5, <2>1, <3>1
    <3>2. ASSUME NEW k \in K, level[k] # "within_expectation",
                 a = [kpi |-> k, level |-> level[k], day |-> today]
          PROVE  a.level \in levels /\ a.level # "within_expectation"
      BY <1>5, <3>2
    <3> QED BY <1>9, <2>2, <3>1, <3>2
  <2>3. ASSUME NEW l \in levels, l # "within_expectation" PROVE \E a \in raised : a.level = l
    <3>1. CASE recalibrate /\ l = "recalibration_required" BY <1>9, <2>1, <3>1
    <3>2. ASSUME NEW k \in K, l = level[k] PROVE \E a \in raised : a.level = l
      <4> DEFINE a == [kpi |-> k, level |-> level[k], day |-> today]
      <4>1. a \in raised BY <1>9, <2>3, <3>2
      <4>2. a.level = l BY <3>2
      <4> QED BY <4>1, <4>2
    <3> QED BY <1>5, <2>3, <3>1, <3>2
  <2> QED BY <2>2, <2>3
<1>11. Gravest(r)
  <2>1. levels \subseteq Levels BY <1>4, <1>5 DEF Levels
  <2> DEFINE rec == Recommended(levels)
  <2>2. rec = IF "decision_review_required" \in levels THEN "decision_review_required"
              ELSE IF "recalibration_required" \in levels THEN "recalibration_required"
              ELSE IF "material_deviation" \in levels THEN "material_deviation"
              ELSE IF "early_warning" \in levels THEN "early_warning"
              ELSE "within_expectation"
    BY RecommendedFacts
  <2>3. r.alerts = raised /\ r.recommended = rec BY <1>1
  <2> HIDE DEF raised, levels, level, rec
  <2>4. CASE raised = {} BY <1>10, <2>1, <2>2, <2>3, <2>4 DEF Gravest
  <2>5. CASE raised # {}
    <3>1. rec \in levels /\ rec # "within_expectation" BY <1>10, <2>1, <2>2, <2>5 DEF Levels
    <3>2. PICK a \in raised : a.level = rec BY <1>10, <3>1
    <3>3. \A l \in levels : Severity(l) <= Severity(rec)
      BY <2>1, <2>2, <3>1 DEF Levels, Severity
    <3>4. \A b \in raised : Severity(b.level) <= Severity(a.level) BY <1>10, <3>2, <3>3
    <3> QED BY <2>3, <2>5, <3>2, <3>4 DEF Gravest
  <2> QED BY <2>4, <2>5
<1> QED BY <1>1, <1>6, <1>7, <1>8, <1>11 DEF Reports, r

\* Before an alert that is emitted there is the latest of its key, if there is any.
LEMMA LatestExists ==
  ASSUME MonitoringInv, NEW alert, NEW a \in active_alerts, SameKey(a, alert)
  PROVE  \E l \in LatestLike(alert) : a.day <= l.day
<1> DEFINE Like == {b \in active_alerts : b.kpi = alert.kpi /\ b.level = alert.level}
           days == {b.day : b \in Like}
<1>1. \A b \in Like : b.day \in Nat /\ b.day <= today BY DEF MonitoringInv, Alerts
<1>2. a \in Like BY DEF SameKey
<1>3. days \subseteq Nat /\ days # {} /\ \A d \in days : d <= today BY <1>1, <1>2
<1>4. IsFiniteSet(days)
  <2> HIDE DEF days
  <2> QED BY <1>3, FS_BoundedSetOfNaturals DEF MonitoringInv
<1>5. Max(days) \in days /\ \A d \in days : Max(days) >= d
  <2> HIDE DEF days
  <2>1. days \subseteq Int BY <1>3
  <2> QED BY <1>3, <1>4, <2>1, MaxIsGreatest
<1>6. PICK l \in Like : l.day = Max(days) BY <1>5
<1>7. \A b \in Like : b.day <= l.day
  <2>1. \A b \in Like : Max(days) >= b.day BY <1>5
  <2> QED BY <1>1, <1>6, <2>1
<1>8. l \in LatestLike(alert) BY <1>6, <1>7 DEF LatestLike
<1> QED BY <1>2, <1>7, <1>8

LEMMA OutcomesAreRecorded ==
  ASSUME MonitoringInv, NEW batch \in Batches, NEW drifted \in BOOLEAN, RecordOutcomes(batch, drifted)
  PROVE  MonitoringInv'
<1> DEFINE report == Report(batch, drifted)
<1>1. /\ reports' = Append(reports, report)
      /\ active_alerts' = active_alerts \cup Emitted(report.alerts)
      /\ UNCHANGED today
  BY DEF RecordOutcomes
<1>2. today \in Nat /\ CooldownDays \in Nat BY MonitoringAssumption DEF MonitoringInv
<1>3. report \in Reports /\ Gravest(report) /\ \A a \in report.alerts : a.day = today
  BY <1>2, ReportFacts
<1> HIDE DEF report
<1>4. /\ reports' \in Seq(Reports)
      /\ DOMAIN reports' = DOMAIN reports \cup {Len(reports) + 1}
      /\ \A i \in DOMAIN reports : reports'[i] = reports[i]
      /\ reports'[Len(reports) + 1] = report
  BY <1>1, <1>3 DEF MonitoringInv
<1>5. /\ report.alerts \subseteq Alerts /\ Emitted(report.alerts) \subseteq report.alerts
      /\ active_alerts \subseteq Alerts
  BY <1>3 DEF Reports, Emitted, MonitoringInv
<1>6. active_alerts' \subseteq Alerts /\ \A a \in active_alerts' : a.day \in Nat /\ a.day <= today
  BY <1>1, <1>2, <1>3, <1>5 DEF MonitoringInv, Alerts
<1>7. ASSUME NEW a \in active_alerts', NEW b \in active_alerts', a.day < b.day, SameKey(a, b)
      PROVE  b.day - a.day > CooldownDays
  <2>1. CASE b \in active_alerts
    <3>1. a \in active_alerts
      BY <1>1, <1>2, <1>3, <1>5, <1>6, <1>7, <2>1 DEF MonitoringInv
    <3> QED BY <1>7, <2>1, <3>1 DEF MonitoringInv, AlertsAreSpaced
  <2>2. CASE b \notin active_alerts
    <3>1. b \in Emitted(report.alerts) /\ b.day = today BY <1>1, <1>3, <1>5, <2>2
    <3>2. a \in active_alerts
      BY <1>1, <1>3, <1>5, <1>6, <1>7, <3>1 DEF Alerts
    <3>3. PICK l \in LatestLike(b) : a.day <= l.day BY <1>7, <3>2, LatestExists
    <3>4. b.day - l.day > CooldownDays BY <3>1, <3>3 DEF Emitted
    <3>5. l.day \in Nat /\ a.day \in Nat /\ b.day \in Nat
      BY <1>6, <3>2, <3>3, <1>1 DEF LatestLike
    <3> QED BY <1>2, <3>3, <3>4, <3>5
  <2> QED BY <2>1, <2>2
<1>8. ASSUME NEW alert \in report.alerts
      PROVE  \E a \in active_alerts' : SameKey(a, alert) /\ alert.day - a.day \in 0..CooldownDays
  <2>1. CASE alert \in Emitted(report.alerts)
    <3>1. alert \in active_alerts' /\ alert.day \in Nat BY <1>1, <1>6, <2>1
    <3> QED BY <1>2, <3>1 DEF SameKey
  <2>2. CASE alert \notin Emitted(report.alerts)
    <3> PICK l \in LatestLike(alert) : ~(alert.day - l.day > CooldownDays) BY <2>2 DEF Emitted
    <3>1. l \in active_alerts /\ SameKey(l, alert) /\ l.day \in Nat /\ l.day <= today
      BY <1>1, <1>6 DEF LatestLike, SameKey
    <3>2. alert.day = today BY <1>3
    <3> QED BY <1>1, <1>2, <3>1, <3>2
  <2> QED BY <2>1, <2>2
<1>9. AlertsAreSpaced'
  <2>1. ASSUME NEW i \in DOMAIN reports', NEW alert \in reports'[i].alerts
        PROVE  \E a \in active_alerts' : SameKey(a, alert) /\ alert.day - a.day \in 0..CooldownDays
    <3>1. CASE i \in DOMAIN reports
      BY <1>1, <1>4, <2>1, <3>1 DEF MonitoringInv, AlertsAreSpaced
    <3>2. CASE i = Len(reports) + 1 BY <1>4, <1>8, <2>1, <3>2
    <3> QED BY <1>4, <3>1, <3>2
  <2> QED BY <1>7, <2>1 DEF AlertsAreSpaced, SameKey
<1>10. \A i \in DOMAIN reports' : Gravest(reports'[i]) BY <1>3, <1>4 DEF MonitoringInv
<1> QED BY <1>1, <1>2, <1>4, <1>6, <1>9, <1>10 DEF MonitoringInv, Gravest, Severity

LEMMA MonitoringHolds == MonitoringSpec => []MonitoringInv
<1>1. MonitoringInit => MonitoringInv
  BY DEF MonitoringInit, MonitoringInv, AlertsAreSpaced
<1>2. MonitoringInv /\ [MonitoringNext]_monitoringVars => MonitoringInv'
  <2> SUFFICES ASSUME MonitoringInv, [MonitoringNext]_monitoringVars PROVE MonitoringInv' OBVIOUS
  <2>1. CASE UNCHANGED monitoringVars
    BY <2>1 DEF monitoringVars, MonitoringInv, AlertsAreSpaced
  <2>2. ASSUME NEW batch \in Batches, NEW drifted \in BOOLEAN, RecordOutcomes(batch, drifted)
        PROVE  MonitoringInv'
    BY <2>2, OutcomesAreRecorded
  <2>3. CASE NextDay
    <3>1. today' \in Nat /\ today' > today /\ UNCHANGED <<reports, active_alerts>> /\ today \in Nat
      BY <2>3 DEF NextDay, MonitoringInv
    <3>2. \A a \in active_alerts' : a.day <= today'
      BY <3>1 DEF MonitoringInv, Alerts
    <3> QED BY <3>1, <3>2 DEF MonitoringInv, AlertsAreSpaced
  <2> QED BY <2>1, <2>2, <2>3 DEF MonitoringNext
<1> QED BY <1>1, <1>2, PTL DEF MonitoringSpec
\* The four rungs of the ladder in their order.
LEMMA RungFacts ==
  /\ Rung("within_expectation") = 1 /\ Rung("early_warning") = 2
  /\ Rung("material_deviation") = 3 /\ Rung("decision_review_required") = 4
<1>1. DOMAIN Ladder = 1..4 BY DEF Ladder
<1>2. /\ Ladder[1] = "within_expectation" /\ Ladder[2] = "early_warning"
      /\ Ladder[3] = "material_deviation" /\ Ladder[4] = "decision_review_required"
  BY DEF Ladder
<1>3. \A n \in 1..4 : n = 1 \/ n = 2 \/ n = 3 \/ n = 4 OBVIOUS
<1>4. ASSUME NEW m \in 1..4 PROVE Rung(Ladder[m]) = m
  <2>1. \A n \in 1..4 : Ladder[n] = Ladder[m] => n = m BY <1>2, <1>3
  <2> QED BY <1>1, <2>1 DEF Rung
<1> QED BY <1>2, <1>4

\* What _classify compares: its scale is an integer over 1, 2 or 10.
LEMMA ScaleFacts ==
  ASSUME NEW k \in DOMAIN Predictions
  PROVE  Scale(Predictions[k]).num \in Int /\ Scale(Predictions[k]).den \in {1, 2, 10}
<1> DEFINE p == Predictions[k]
<1>1. p.mean \in Int /\ p.lower \in Int /\ p.upper \in Int BY PredictionFacts
<1>2. Max({p.mean, -p.mean}) \in Int
  <2> PICK m \in Int, n \in Int : m = p.mean /\ n = -p.mean BY <1>1
  <2>1. IsFiniteSet({m, n})
    <3>1. IsFiniteSet({m} \cup {n}) BY FS_Singleton, FS_Union
    <3>2. {m, n} = {m} \cup {n} OBVIOUS
    <3> QED BY <3>1, <3>2
  <2>2. {m, n} \subseteq Int /\ {m, n} # {} OBVIOUS
  <2>3. Max({m, n}) \in {m, n} BY <2>1, <2>2, MaxIsGreatest
  <2> QED BY <2>3
<1> HIDE DEF p
<1>3. Scale(p).num \in Int /\ Scale(p).den \in {1, 2, 10} BY <1>1, <1>2 DEF Scale
<1> QED BY <1>3 DEF p

\* An outcome further on the adverse side of an expected value that lies in its interval
\* never stands on a lower rung: _classify, whose hard constraint, interval and two
\* thresholds are tried in turn.
LEMMA LadderNeverFalls ==
  ASSUME NEW k \in DOMAIN Predictions, NEW v \in Int, NEW w \in Int,
         Within(Predictions[k], Predictions[k].mean), 0 <= Adverse(Predictions[k], v),
         Adverse(Predictions[k], v) <= Adverse(Predictions[k], w)
  PROVE  Rung(Classify(Predictions[k], v)) <= Rung(Classify(Predictions[k], w))
<1> DEFINE p == Predictions[k]
<1>1. /\ p.mean \in Int /\ p.lower \in Int /\ p.upper \in Int /\ p.bound \in Int
      /\ p.direction \in {"higher", "lower"}
  BY PredictionFacts
<1> PICK num \in Int, den \in Int : num = Scale(p).num /\ den = Scale(p).den /\ den \in {1, 2, 10}
  BY ScaleFacts
<1> HIDE DEF p
<1>2. Within(p, p.mean) /\ 0 <= Adverse(p, v) /\ Adverse(p, v) <= Adverse(p, w) BY DEF p
<1>3. HardConstraintOk(p, w) => HardConstraintOk(p, v)
  BY <1>1, <1>2 DEF HardConstraintOk, Adverse
<1>4. Within(p, w) => Within(p, v) BY <1>1, <1>2 DEF Within, Adverse
<1> PICK a \in Int, b \in Int : a = Adverse(p, v) /\ b = Adverse(p, w) BY <1>1 DEF Adverse
<1>5. a * den \in Int /\ b * den \in Int /\ a * den <= b * den
  <2>1. a <= b BY <1>2
  <2>2. den = 1 \/ den = 2 \/ den = 10 OBVIOUS
  <2>3. CASE den = 1 BY <2>1, <2>3
  <2>4. CASE den = 2 BY <2>1, <2>4
  <2>5. CASE den = 10 BY <2>1, <2>5
  <2> QED BY <2>2, <2>3, <2>4, <2>5
<1> PICK s \in Int, t \in Int : s = a * den /\ t = b * den BY <1>5
<1>6. s <= t BY <1>5
<1> DEFINE Step(ok, inside, x) ==
             IF ~ok THEN 4 ELSE IF inside THEN 1 ELSE IF x <= 0 THEN 2
             ELSE IF x >= 3 * num THEN 4 ELSE IF 2 * x >= 3 * num THEN 3 ELSE 2
<1>7. Rung(Classify(p, v)) = Step(HardConstraintOk(p, v), Within(p, v), s)
  BY RungFacts DEF Classify
<1>8. Rung(Classify(p, w)) = Step(HardConstraintOk(p, w), Within(p, w), t)
  BY RungFacts DEF Classify
<1>9. Step(HardConstraintOk(p, v), Within(p, v), s) <= Step(HardConstraintOk(p, w), Within(p, w), t)
  BY <1>3, <1>4, <1>6
<1> QED BY <1>7, <1>8, <1>9 DEF p

\* Suppression by the cooldown keeps the loop quiet and never silent, a report recommends
\* the level of one of its gravest alerts, and the levels follow how far an outcome went
\* wrong: reconcile_alerts, monitor_outcomes and _classify, whatever was predicted and
\* submitted and however long the decision is watched.
THEOREM AlarmsAlwaysHeard == MonitoringSpec => []AlarmsAreHeard
<1>1. MonitoringInv => AlarmsAreHeard
  <2> SUFFICES ASSUME MonitoringInv PROVE AlarmsAreHeard OBVIOUS
  <2>1. AlertsAreSpaced BY DEF MonitoringInv
  <2>2. GravestLevelIsRecommended
    BY DEF MonitoringInv, Gravest, GravestLevelIsRecommended
  <2>3. LadderIsMonotone
    <3> SUFFICES ASSUME NEW i \in DOMAIN reports, NEW j \in DOMAIN reports,
                        NEW k \in DOMAIN reports[i].realized \cap DOMAIN reports[j].realized,
                        Within(Predictions[k], Predictions[k].mean),
                        0 <= Adverse(Predictions[k], reports[i].realized[k]),
                        Adverse(Predictions[k], reports[i].realized[k])
                          <= Adverse(Predictions[k], reports[j].realized[k])
                 PROVE  Rung(Classify(Predictions[k], reports[i].realized[k]))
                          <= Rung(Classify(Predictions[k], reports[j].realized[k]))
      BY DEF LadderIsMonotone
    <3>1. reports[i] \in Reports /\ reports[j] \in Reports BY DEF MonitoringInv
    <3>2. reports[i].realized \in Realizations /\ reports[j].realized \in Realizations
      BY <3>1 DEF Reports
    <3>3. \A r \in Realizations : \A x \in DOMAIN r : x \in DOMAIN Predictions /\ r[x] \in Int
      BY DEF Realizations
    <3> QED BY <3>2, <3>3, LadderNeverFalls
  <2> QED BY <2>1, <2>2, <2>3 DEF AlarmsAreHeard
<1> QED BY <1>1, MonitoringHolds, PTL
-----------------------------------------------------------------------------
(* The rotation of a worker over the tenants.                               *)

LEMMA ModularSuccessor ==
  ASSUME NEW a \in Nat, NEW n \in Nat \ {0}
  PROVE  /\ a % n \in 0 .. n - 1
         /\ (a + 1) % n = IF (a % n) + 1 = n THEN 0 ELSE (a % n) + 1
<1> PICK q \in Int, r \in Int : q = a \div n /\ r = a % n OBVIOUS
<1>1. a = n * q + r /\ 0 <= r /\ r < n OBVIOUS
<1> PICK p \in Int, t \in Int : p = (a + 1) \div n /\ t = (a + 1) % n OBVIOUS
<1>2. a + 1 = n * p + t /\ 0 <= t /\ t < n OBVIOUS
<1>3. n * (p - q) = n * p - n * q OBVIOUS
<1>4. n * (p - q) = r + 1 - t BY <1>1, <1>2, <1>3
<1>5. p - q = 0 \/ p - q = 1
  <2> PICK d \in Int, x \in Int : d = p - q /\ x = n * d /\ x = r + 1 - t BY <1>4
  <2>1. x <= n /\ x > 0 - n BY <1>1, <1>2
  <2>2. d < 2
    <3> SUFFICES ASSUME d >= 2 PROVE FALSE OBVIOUS
    <3>1. n * d >= n + n OBVIOUS
    <3> QED BY <2>1, <3>1
  <2>3. d > -1
    <3> SUFFICES ASSUME d + 1 <= 0 PROVE FALSE OBVIOUS
    <3>1. n * (d + 1) = x + n OBVIOUS
    <3>2. n * (d + 1) <= 0 OBVIOUS
    <3> QED BY <2>1, <3>1, <3>2
  <2> QED BY <2>2, <2>3
<1>6. t = r + 1 \/ t = r + 1 - n BY <1>4, <1>5
<1> QED BY <1>1, <1>2, <1>6

LEMMA SmallModulus ==
  ASSUME NEW n \in Nat \ {0}, NEW a \in 0 .. n - 1
  PROVE  a % n = a
<1> PICK q \in Int, r \in Int : q = a \div n /\ r = a % n OBVIOUS
<1>1. a = n * q + r /\ 0 <= r /\ r < n OBVIOUS
<1>2. q < 1
  <2> SUFFICES ASSUME q >= 1 PROVE FALSE OBVIOUS
  <2>1. n * q >= n OBVIOUS
  <2> QED BY <1>1, <2>1
<1>3. q > -1
  <2> SUFFICES ASSUME q + 1 <= 0 PROVE FALSE OBVIOUS
  <2>1. n * (q + 1) = n * q + n OBVIOUS
  <2>2. n * (q + 1) <= 0 OBVIOUS
  <2> QED BY <1>1, <2>1, <2>2
<1>4. q = 0 BY <1>2, <1>3
<1> QED BY <1>1, <1>4

LEMMA SortedFacts ==
  ASSUME NEW S \in SUBSET Nat, IsFiniteSet(S)
  PROVE  /\ Sorted(S) \in [1 .. Cardinality(S) -> S]
         /\ \A i, j \in 1 .. Cardinality(S) : i < j => Sorted(S)[i] < Sorted(S)[j]
         /\ \A x \in S : \E i \in 1 .. Cardinality(S) : Sorted(S)[i] = x
<1> DEFINE n == Cardinality(S)
           R == {e \in S \X S : e[1] < e[2]}
<1>1. \A x, y \in S : <<x, y>> \in R <=> x < y OBVIOUS
<1>2. Orders(R, S)
  <2> HIDE DEF R
  <2> QED BY <1>1 DEF Orders
<1>3. PICK s \in [1 .. n -> S] : \A i, j \in 1 .. n : i < j => <<s[i], s[j]>> \in R
  <2> HIDE DEF R
  <2> QED BY <1>2, SortedExists
<1>4. n \in Nat BY FS_CardinalityType
<1>5. \A i, j \in 1 .. n : i < j => s[i] < s[j] BY <1>1, <1>3
<1>6. ASSUME NEW i \in 1 .. n, NEW j \in 1 .. n, i # j PROVE s[i] # s[j]
  <2>1. i < j \/ j < i BY <1>4, <1>6
  <2>2. s[i] \in Nat /\ s[j] \in Nat OBVIOUS
  <2> QED BY <1>5, <2>1, <2>2
<1>7. s \in SetToSeqs(S) BY <1>6 DEF SetToSeqs
<1>8. /\ Sorted(S) \in SetToSeqs(S)
      /\ \A i, j \in DOMAIN Sorted(S) : i < j => Sorted(S)[i] < Sorted(S)[j]
  <2>1. \E z \in SetToSeqs(S) : \A i, j \in DOMAIN z : i < j => z[i] < z[j] BY <1>5, <1>7
  <2> QED BY <2>1 DEF Sorted
<1>9. /\ Sorted(S) \in [1 .. n -> S]
      /\ \A i, j \in 1 .. n : i # j => Sorted(S)[i] # Sorted(S)[j]
  BY <1>8 DEF SetToSeqs
<1>10. \A i, j \in 1 .. n : Sorted(S)[i] = Sorted(S)[j] => i = j BY <1>9
<1>11. \A x \in S : \E i \in 1 .. n : Sorted(S)[i] = x BY <1>9, <1>10, EnumerationIsComplete
<1> QED BY <1>8, <1>9, <1>11
\* Polls after which the tenant is at the head of the rotation.
Turn(t) ==
  LET place == CHOOSE i \in 1 .. Cardinality(active) : Sorted(active)[i] = t
      m == offset % Cardinality(active)
  IN IF place > m THEN place - 1 - m ELSE place - 1 - m + Cardinality(active)

\* The longer a tenant was passed over, the closer is its turn.
RotationInv ==
  /\ active \in SUBSET Tenants /\ eligible \in SUBSET active
  /\ offset \in Nat
  /\ passed \in [Tenants -> Nat]
  /\ \A t \in Tenants : passed[t] > 0 =>
       t \in active /\ passed[t] + Turn(t) <= Cardinality(active) - 1

LEMMA OrderedFacts ==
  ASSUME RotationInv, active # {}
  PROVE  LET n == Cardinality(active) IN
         /\ n \in Nat \ {0}
         /\ Len(Ordered) = n
         /\ \A t \in active : Turn(t) \in 0 .. n - 1 /\ Ordered[Turn(t) + 1] = t
         /\ \A i \in 1 .. n : Ordered[i] \in active
<1> DEFINE n == Cardinality(active)
           s == Sorted(active)
           m == offset % n
<1>1. active \in SUBSET Nat /\ IsFiniteSet(active) BY TenantsAssumption, FS_Subset DEF RotationInv
<1>2. n \in Nat \ {0} BY <1>1, FS_CardinalityType, FS_EmptySet
<1>3. /\ s \in [1 .. n -> active]
      /\ \A i, j \in 1 .. n : i < j => s[i] < s[j]
      /\ \A x \in active : \E i \in 1 .. n : s[i] = x
  BY <1>1, SortedFacts
<1>4. m \in 0 .. n - 1 BY <1>2, ModularSuccessor DEF RotationInv
<1>5. s \in Seq(active) /\ Len(s) = n BY <1>2, <1>3
<1>6. Ordered = SubSeq(s, m + 1, n) \o SubSeq(s, 1, m) BY <1>5 DEF Ordered, Rotated
<1>7. \A t \in active : Turn(t) = 
        LET place == CHOOSE i \in 1 .. n : s[i] = t
        IN IF place > m THEN place - 1 - m ELSE place - 1 - m + n
  BY DEF Turn
<1> HIDE DEF n, s, m
<1>8. /\ SubSeq(s, m + 1, n) \in Seq(active) /\ Len(SubSeq(s, m + 1, n)) = n - m
      /\ \A i \in 1 .. n - m : SubSeq(s, m + 1, n)[i] = s[m + i]
  BY <1>2, <1>4, <1>5
<1>9. /\ SubSeq(s, 1, m) \in Seq(active) /\ Len(SubSeq(s, 1, m)) = m
      /\ \A i \in 1 .. m : SubSeq(s, 1, m)[i] = s[i]
  BY <1>2, <1>4, <1>5
<1>10. /\ Len(Ordered) = n
       /\ \A i \in 1 .. n - m : Ordered[i] = s[m + i]
       /\ \A i \in n - m + 1 .. n : Ordered[i] = s[i - (n - m)]
  BY <1>2, <1>4, <1>6, <1>8, <1>9
<1>11. \A i \in 1 .. n : Ordered[i] \in active
  <2> SUFFICES ASSUME NEW i \in 1 .. n PROVE Ordered[i] \in active OBVIOUS
  <2>1. CASE i <= n - m BY <1>2, <1>3, <1>4, <1>10, <2>1
  <2>2. CASE i > n - m BY <1>2, <1>3, <1>4, <1>10, <2>2
  <2> QED BY <1>2, <1>4, <2>1, <2>2
<1>12. ASSUME NEW t \in active PROVE Turn(t) \in 0 .. n - 1 /\ Ordered[Turn(t) + 1] = t
  <2> DEFINE place == CHOOSE i \in 1 .. n : s[i] = t
  <2>1. place \in 1 .. n /\ s[place] = t BY <1>3
  <2>2. Turn(t) = IF place > m THEN place - 1 - m ELSE place - 1 - m + n BY <1>7
  <2> HIDE DEF place
  <2>3. CASE place > m
    <3>1. Turn(t) + 1 \in 1 .. n - m /\ Turn(t) + 1 = place - m BY <1>2, <1>4, <2>1, <2>2, <2>3
    <3>2. m + (place - m) = place BY <1>4, <2>1
    <3>3. Ordered[place - m] = s[place] BY <1>10, <3>1, <3>2
    <3> QED BY <1>2, <1>4, <2>1, <2>2, <2>3, <3>1, <3>3
  <2>4. CASE ~(place > m)
    <3>1. Turn(t) + 1 \in n - m + 1 .. n /\ Turn(t) + 1 - (n - m) = place
      BY <1>2, <1>4, <2>1, <2>2, <2>4
    <3>2. Ordered[Turn(t) + 1] = s[place]
      <4> PICK j \in n - m + 1 .. n : j = Turn(t) + 1 BY <3>1
      <4>1. Ordered[j] = s[j - (n - m)] BY <1>10
      <4>2. j - (n - m) = place BY <1>2, <1>4, <2>1, <2>2, <2>4
      <4> QED BY <4>1, <4>2
    <3> QED BY <1>2, <1>4, <2>1, <2>2, <2>4, <3>1, <3>2
  <2> QED BY <2>3, <2>4
<1> QED BY <1>2, <1>10, <1>11, <1>12 DEF n

LEMMA PollsRotate ==
  ASSUME RotationInv, PollTenants
  PROVE  RotationInv'
<1> DEFINE n == Cardinality(active)
           m == offset % n
           served == {Ordered[i] : i \in Served}
<1>1. /\ active # {} /\ UNCHANGED active /\ offset' = (offset + 1) % n
      /\ eligible' \in {eligible, eligible \ served}
      /\ passed' = [t \in Tenants |-> IF t \in eligible \ served THEN passed[t] + 1 ELSE 0]
  BY DEF PollTenants
<1>2. /\ n \in Nat \ {0} /\ Len(Ordered) = n
      /\ \A t \in active : Turn(t) \in 0 .. n - 1 /\ Ordered[Turn(t) + 1] = t
      /\ \A i \in 1 .. n : Ordered[i] \in active
  BY <1>1, OrderedFacts
<1>3. m \in 0 .. n - 1 /\ (offset + 1) % n = IF m + 1 = n THEN 0 ELSE m + 1
  BY <1>2, ModularSuccessor DEF RotationInv
<1>4. offset' \in Nat /\ offset' % n = offset'
  <2>1. offset' \in 0 .. n - 1 BY <1>1, <1>2, <1>3
  <2> QED BY <1>2, <2>1, SmallModulus
<1>5. ASSUME NEW t \in active PROVE Turn(t) > 0 => Turn(t)' = Turn(t) - 1
  <2> DEFINE place == CHOOSE i \in 1 .. n : Sorted(active)[i] = t
  <2>1. place \in 1 .. n
    <3>1. active \in SUBSET Nat /\ IsFiniteSet(active)
      BY TenantsAssumption, FS_Subset DEF RotationInv
    <3> QED BY <3>1, SortedFacts
  <2>2. Turn(t) = IF place > m THEN place - 1 - m ELSE place - 1 - m + n BY DEF Turn
  <2>3. Turn(t)' = IF place > (offset' % n) THEN place - 1 - (offset' % n)
                   ELSE place - 1 - (offset' % n) + n
    BY <1>1 DEF Turn
  <2>4. offset' % n = IF m + 1 = n THEN 0 ELSE m + 1 BY <1>1, <1>3, <1>4
  <2> HIDE DEF place, n, m
  <2> QED BY <1>2, <1>3, <2>1, <2>2, <2>3, <2>4
<1>6. ASSUME NEW t \in eligible, t \notin served PROVE Turn(t) > 0
  <2> DEFINE I == {i \in 1 .. n : Ordered[i] \in eligible}
  <2>1. eligible # {} /\ t \in active BY DEF RotationInv
  <2>2. SelectInSeq(Ordered, LAMBDA x : x \in eligible) = IF I # {} THEN Min(I) ELSE 0
    BY <1>2 DEF SelectInSeq
  <2>3. Turn(t) + 1 \in I BY <1>2, <1>6, <2>1
  <2>4. Served = {Min(I)} BY <2>1, <2>2, <2>3 DEF Served
  <2>5. IsFiniteSet(I)
    <3>1. IsFiniteSet(1 .. n) BY <1>2, FS_Interval
    <3> QED BY <3>1, FS_Subset
  <2>6. Min(I) \in I /\ \A i \in I : Min(I) <= i
    <3>1. I \subseteq Int /\ I # {} BY <2>3
    <3> HIDE DEF I
    <3> QED BY <2>5, <3>1, MinIsLeast
  <2>7. Ordered[Min(I)] \in served BY <2>4
  <2>8. Min(I) # Turn(t) + 1 BY <1>2, <1>6, <2>1, <2>7
  <2> QED BY <1>2, <2>1, <2>3, <2>6, <2>8
<1>7. passed' \in [Tenants -> Nat] BY <1>1 DEF RotationInv
<1>8. ASSUME NEW t \in Tenants, passed'[t] > 0
      PROVE  t \in active' /\ passed'[t] + Turn(t)' <= Cardinality(active') - 1
  <2>1. t \in eligible /\ t \notin served /\ passed'[t] = passed[t] + 1 BY <1>1, <1>8
  <2>2. t \in active /\ passed[t] \in Nat BY <2>1 DEF RotationInv
  <2>3. Turn(t) > 0 /\ Turn(t)' = Turn(t) - 1 /\ Turn(t) \in 0 .. n - 1
    BY <1>2, <1>5, <1>6, <2>1, <2>2
  <2>4. passed[t] + Turn(t) <= n - 1
    <3>1. passed[t] > 0 => passed[t] + Turn(t) <= n - 1 BY DEF RotationInv
    <3> QED BY <1>2, <2>2, <2>3, <3>1
  <2> HIDE DEF n
  <2> QED BY <1>1, <1>2, <2>1, <2>2, <2>3, <2>4 DEF n
<1> QED BY <1>1, <1>4, <1>7, <1>8 DEF RotationInv

\* While the tenants with jobs stay the same, none of them with an eligible job is passed
\* over as many polls in a row as there are of them: run_once and _rotate, whatever is
\* submitted, ends or waits between the polls.
THEOREM TenantsAreServedInTurn == RotationSpec => []TenantServedInTurn
<1>1. RotationInit => RotationInv BY DEF RotationInit, RotationInv
<1>2. RotationInv /\ [RotationNext]_rotationVars => RotationInv'
  <2> SUFFICES ASSUME RotationInv, [RotationNext]_rotationVars PROVE RotationInv' OBVIOUS
  <2>1. CASE UNCHANGED rotationVars BY <2>1 DEF rotationVars, RotationInv, Turn
  <2>2. CASE PollTenants BY <2>2, PollsRotate
  <2>3. CASE JobsChange
    <3>1. /\ active' \in SUBSET Tenants /\ eligible' \in SUBSET active' /\ UNCHANGED offset
          /\ passed' = [t \in Tenants |->
               IF active' = active /\ t \in eligible \cap eligible' THEN passed[t] ELSE 0]
      BY <2>3 DEF JobsChange
    <3>2. passed' \in [Tenants -> Nat] BY <3>1 DEF RotationInv
    <3>3. ASSUME NEW t \in Tenants, passed'[t] > 0
          PROVE  t \in active' /\ passed'[t] + Turn(t)' <= Cardinality(active') - 1
      <4>1. active' = active /\ passed'[t] = passed[t] BY <3>1, <3>3
      <4>2. Turn(t)' = Turn(t) BY <3>1, <4>1 DEF Turn
      <4> QED BY <3>3, <4>1, <4>2 DEF RotationInv
    <3> QED BY <3>1, <3>2, <3>3 DEF RotationInv
  <2> QED BY <2>1, <2>2, <2>3 DEF RotationNext
<1>3. RotationInv => TenantServedInTurn
  <2> SUFFICES ASSUME RotationInv, NEW t \in Tenants, passed[t] > 0
               PROVE  passed[t] < Cardinality(active)
    BY DEF TenantServedInTurn
  <2>1. t \in active /\ passed[t] + Turn(t) <= Cardinality(active) - 1 BY DEF RotationInv
  <2>2. Turn(t) \in 0 .. Cardinality(active) - 1 /\ Cardinality(active) \in Nat
    BY <2>1, OrderedFacts
  <2>3. passed[t] \in Nat BY DEF RotationInv
  <2> QED BY <2>1, <2>2, <2>3
<1> QED BY <1>1, <1>2, <1>3, PTL DEF RotationSpec
=============================================================================
