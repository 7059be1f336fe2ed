------------------------- MODULE AuthSessionsProofs -------------------------
(***************************************************************************)
(* Proofs about AuthSessions for all credentials, sessions, requests,       *)
(* lifetimes and rate limits: a request is served only with a credential    *)
(* that was current while it ran, a revocation holds against everything      *)
(* under way, and the limiter admits at most two budgets per window.         *)
(***************************************************************************)
EXTENDS AuthSessions, FiniteSetTheorems, SequenceTheorems, TLAPS

-----------------------------------------------------------------------------
\* The requests.

\* Where a request of each kind can be.
PlaceOf(q) ==
  \/ q.kind = "key" /\ q.step \in {"find", "load", "confirm", "limit", "served"}
  \/ q.kind = "login" /\ q.step \in {"find", "load", "create"}
  \/ q.kind = "local" /\ q.step \in {"keys", "fallback", "create"}
  \/ q.kind = "session" /\ q.step \in {"lookup", "recheck", "stored", "principal", "limit",
                                       "served", "revoke", "mark"}
  \/ q.kind = "logout" /\ q.step \in {"lookup", "recheck", "stored", "revoke", "mark"}
  \/ q.kind = "revoke" /\ q.step \in {"lookup", "revoke", "mark"}

\* A request that looks for an owner has an attempt left.
Place(r) ==
  /\ PlaceOf(req[r])
  /\ req[r].step \in {"find", "load"} => req[r].attempts # <<>>

Kinds == {"key", "login", "local", "session", "logout", "revoke"}
Steps == {"find", "load", "confirm", "limit", "served", "create", "keys", "fallback", "lookup",
          "recheck", "stored", "principal", "revoke", "mark"}

\* A request under way.
Active == [kind : Kinds, step : Steps, hash : Hashes \cup {None}, fresh : BOOLEAN,
           session : Sessions \cup {None}, dead : BOOLEAN, owner : Owners \cup {None},
           attempts : Seq({"tenant", "service-account"}), rec : Record \cup {None}]

BySession(r) == req[r].kind \in {"session", "logout", "revoke"}

\* The request has read the record of its session.
HasRecord(r) == BySession(r) /\ req[r].step # "lookup"

\* Its key was looked up and found, or it is past the check of its session's digest.
Checked(r) == req[r].step \in {"confirm", "limit", "served"}
Justified(r) == req[r].fresh \/ (req[r].kind = "session" /\ req[r].rec.mode = "local")

\* What the request stands on: a digest that is current is fresh for it, and past
\* the checks its digest was current at some moment.
CredentialOK(r) ==
  /\ req[r].kind \in {"key", "login"} => req[r].hash \in Hashes
  /\ req[r].kind \in {"key", "login", "local"} => ~req[r].dead
  /\ req[r].hash \in Current => req[r].fresh
  /\ Checked(r) => Justified(r)

\* The session of a request cannot be replaced by another one with its secret while
\* the request is under way, and its revocation expires when it does.
SessionOK(r) ==
  LET q == req[r] IN
  BySession(r) =>
    /\ q.session \in Sessions
    /\ sessions[q.session] # None => sessions[q.session].hash = q.hash
    /\ HasRecord(r) =>
         /\ q.rec \in Record /\ q.rec # None
         /\ q.rec.hash = q.hash /\ (q.rec.mode # "local" => q.hash \in Hashes)
         /\ sessions[q.session] # None => sessions[q.session] = q.rec
         /\ stored[q.session] # 0 => stored[q.session] = q.rec.expires

\* A request whose session was revoked before it is refused by the lookup or by the
\* check of the store, unless the session expires first.
DeadOK(r) ==
  LET q == req[r] IN
  q.kind = "session" /\ q.dead =>
    /\ q.step = "lookup" =>
         \/ sessions[q.session] = None \/ Expired(sessions[q.session])
         \/ stored[q.session] > now
    /\ q.step \in {"recheck", "stored"} => Expired(q.rec) \/ stored[q.session] > now
    /\ q.step \notin {"lookup", "recheck", "stored"} => Expired(q.rec)

RequestOK(r) == req[r] # Idle => Place(r) /\ CredentialOK(r) /\ SessionOK(r) /\ DeadOK(r)

\* Two requests that have read the record of one session have read the same one.
Agree(r, u) ==
  HasRecord(r) /\ HasRecord(u) /\ req[r].session = req[u].session => req[r].rec = req[u].rec

RequestsOK ==
  /\ \A r \in Requests : RequestOK(r)
  /\ \A r, u \in Requests : Agree(r, u)

\* Types of the registry, the sessions and the requests.
RegistryType ==
  /\ backend \in Backends /\ now \in 1 .. MaxTime
  /\ tenant \in {"active", "inactive", "gone"}
  /\ cred \in [Owners -> Hashes \cup {None}] /\ expiry \in Nat
MemoryType ==
  /\ sessions \in [Sessions -> Record \cup {None}]
  /\ revoked \in [Sessions -> Nat] /\ stored \in [Sessions -> Nat] /\ acked \subseteq Sessions
RequestType == req \in [Requests -> Active \cup {Idle}]

\* A session in memory is bound to a digest unless it is a local one, was not
\* reported as revoked, and a revocation of it expires with it.
MemoryOK ==
  \A s \in Sessions : sessions[s] # None =>
    /\ sessions[s].mode # "local" => sessions[s].hash \in Hashes
    /\ s \notin acked
    /\ stored[s] # 0 => stored[s] = sessions[s].expires

AuthInv == RegistryType /\ MemoryType /\ RequestType /\ MemoryOK /\ RequestsOK

-----------------------------------------------------------------------------
\* The limiter.

\* Those that the bucket in use admitted, and those that were admitted less than a
\* window before it began.
InBucket == {a \in admitted : a.time >= bucket.start}
BeforeBucket == {a \in admitted : a.time < bucket.start /\ a.time + Window > bucket.start}

\* The bucket has counted every request since it began, and no request was admitted
\* when its window was over; what came less than a window earlier is from one bucket.
LimitInv ==
  /\ now \in 1 .. MaxTime
  /\ bucket \in [start : 0 .. now, count : 0 .. Limit]
  /\ IsFiniteSet(admitted) /\ admitted \subseteq [time : 1 .. now, nth : Nat]
  /\ bucket.start = 0 => admitted = {}
  /\ \A a \in admitted : a.time < bucket.start + Window
  /\ Cardinality(InBucket) <= bucket.count
  /\ Cardinality(BeforeBucket) <= Limit

-----------------------------------------------------------------------------
\* Requests and their fields.

\* Idle requests are nowhere.
LEMMA IdleFacts ==
  /\ Idle.kind = "none" /\ Idle.step = "none" /\ Idle \notin Active
  /\ \A r \in Requests : req[r] = Idle => ~BySession(r) /\ ~HasRecord(r) /\ ~Checked(r)
<1>1. Idle.kind = "none" /\ Idle.step = "none"
  BY DEF Idle
<1>2. Idle \notin Active
  BY <1>1 DEF Active, Kinds
<1> QED BY <1>1, <1>2 DEF BySession, HasRecord, Checked

\* A request that is somewhere is under way.
LEMMA UnderWay ==
  ASSUME RequestType, NEW r \in Requests, NEW step \in Steps, At(r, step)
  PROVE  req[r] \in Active /\ req[r] # Idle /\ req[r].step = step
<1>1. req[r] \in Active \cup {Idle} /\ req[r].step = step
  BY DEF RequestType, At
<1>2. req[r] # Idle
  BY <1>1, IdleFacts DEF Steps
<1> QED BY <1>1, <1>2

\* The fields of a request that a step of its own never changes.
Keeps(r) ==
  /\ req'[r].kind = req[r].kind /\ req'[r].hash = req[r].hash /\ req'[r].fresh = req[r].fresh
  /\ req'[r].session = req[r].session /\ req'[r].dead = req[r].dead

\* Only request r takes a step.
OnlyMoves(r) == RequestType' /\ \A u \in Requests : u # r => req'[u] = req[u]

\* A request ends.
LEMMA EndShape ==
  ASSUME RequestType, NEW r \in Requests, End(r)
  PROVE  OnlyMoves(r) /\ req'[r] = Idle
BY DEF RequestType, End, OnlyMoves

\* A request goes on.
LEMMA GotoShape ==
  ASSUME RequestType, NEW r \in Requests, req[r] \in Active, NEW step \in Steps, Goto(r, step)
  PROVE  /\ OnlyMoves(r) /\ req'[r] \in Active /\ Keeps(r)
         /\ req'[r].step = step /\ req'[r].rec = req[r].rec
<1>1. PICK x : x = [req[r] EXCEPT !.step = step]
  OBVIOUS
<1>2. /\ x \in Active /\ x.step = step /\ x.rec = req[r].rec
      /\ x.kind = req[r].kind /\ x.hash = req[r].hash /\ x.fresh = req[r].fresh
      /\ x.session = req[r].session /\ x.dead = req[r].dead
  BY <1>1 DEF Active
<1>3. req' = [req EXCEPT ![r] = x]
  BY <1>1 DEF Goto
<1>4. OnlyMoves(r) /\ req'[r] = x
  BY <1>2, <1>3 DEF RequestType, OnlyMoves
<1> QED BY <1>2, <1>4 DEF Keeps

\* What the rest of the state may do to the sessions of requests that do not move.
Untouched(u) ==
  BySession(u) => sessions'[req[u].session] \in {sessions[req[u].session], None}

\* A request that does not move stands where it stood.
LEMMA KeptRequest ==
  ASSUME NEW u \in Requests, RequestOK(u), req'[u] = req[u],
         Current' \subseteq Current, UNCHANGED <<stored, now>>, Untouched(u)
  PROVE  RequestOK(u)'
<1>1. CASE req[u] = Idle
  BY <1>1 DEF RequestOK
<1>2. CASE req[u] # Idle
  <2>1. Place(u) /\ CredentialOK(u) /\ SessionOK(u) /\ DeadOK(u)
    BY <1>2 DEF RequestOK
  <2>2. Place(u)' /\ CredentialOK(u)'
    BY <2>1 DEF Place, PlaceOf, CredentialOK, Checked, Justified
  <2>3. SessionOK(u)'
    BY <2>1 DEF SessionOK, BySession, HasRecord, Untouched
  <2>4. DeadOK(u)'
    BY <2>1 DEF DeadOK, BySession, Untouched, Expired
  <2> QED BY <2>2, <2>3, <2>4 DEF RequestOK
<1> QED BY <1>1, <1>2

\* A step of request r, given what it does to r itself.
LEMMA OneMoves ==
  ASSUME RequestsOK, RequestType, NEW r \in Requests, OnlyMoves(r),
         Current' = Current, UNCHANGED <<stored, now>>,
         \A u \in Requests : u # r => Untouched(u),
         RequestOK(r)',
         HasRecord(r)' => \/ HasRecord(r) /\ req'[r].session = req[r].session /\ req'[r].rec = req[r].rec
                          \/ /\ req'[r].session \in Sessions /\ sessions[req'[r].session] # None
                             /\ req'[r].rec = sessions[req'[r].session]
  PROVE  RequestsOK'
<1>1. \A u \in Requests : RequestOK(u)'
  <2> SUFFICES ASSUME NEW u \in Requests, u # r PROVE RequestOK(u)'
    OBVIOUS
  <2> QED BY KeptRequest DEF RequestsOK, OnlyMoves
<1>2. ASSUME NEW u \in Requests, u # r
      PROVE  Agree(r, u)' /\ Agree(u, r)'
  <2> SUFFICES ASSUME HasRecord(r)', HasRecord(u)', req'[r].session = req'[u].session
               PROVE  req'[r].rec = req'[u].rec
    BY DEF Agree
  <2>1. HasRecord(u) /\ req'[u] = req[u]
    BY <1>2 DEF OnlyMoves, HasRecord, BySession
  <2>2. req[u] # Idle
    BY <2>1, IdleFacts
  <2>3. sessions[req[u].session] # None => sessions[req[u].session] = req[u].rec
    BY <2>1, <2>2 DEF RequestsOK, RequestOK, SessionOK, HasRecord
  <2>4. Agree(r, u)
    BY DEF RequestsOK
  <2> QED BY <2>1, <2>3, <2>4 DEF Agree
<1>3. ASSUME NEW u \in Requests, NEW w \in Requests, u # r, w # r
      PROVE  Agree(u, w)'
  <2>1. req'[u] = req[u] /\ req'[w] = req[w] /\ Agree(u, w)
    BY <1>3 DEF OnlyMoves, RequestsOK
  <2> QED BY <2>1 DEF Agree, HasRecord, BySession
<1>4. Agree(r, r)'
  BY DEF Agree
<1> QED BY <1>1, <1>2, <1>3, <1>4 DEF RequestsOK

\* A request that goes on: what it must have checked, and where a revoked session
\* leaves it.
LEMMA MovesOn ==
  ASSUME RequestsOK, RequestType, NEW r \in Requests, req[r] # Idle, req'[r] # Idle, Keeps(r),
         req'[r].rec = req[r].rec, Current' = Current, UNCHANGED <<stored, now>>,
         BySession(r) => HasRecord(r), Untouched(r),
         Place(r)', Checked(r)' => Justified(r),
         BySession(r) => HasRecord(r)',
         DeadOK(r)'
  PROVE  RequestOK(r)'
<1>1. Place(r) /\ CredentialOK(r) /\ SessionOK(r) /\ DeadOK(r)
  BY DEF RequestsOK, RequestOK
<1>2. CredentialOK(r)'
  BY <1>1 DEF CredentialOK, Keeps, Justified
<1>3. SessionOK(r)'
  BY <1>1 DEF SessionOK, HasRecord, BySession, Keeps, Untouched
<1> QED BY <1>2, <1>3 DEF RequestOK

-----------------------------------------------------------------------------
\* Finding the owner of a key.

\* What Rest leaves alone.
LEMMA RestFacts ==
  ASSUME Rest
  PROVE  /\ UNCHANGED <<backend, now, tenant, cred, expiry, sessions, revoked, stored, bucket,
                        changes, begun, acked, admitted>>
         /\ Current' = Current /\ \A u \in Requests : Untouched(u)
<1>1. UNCHANGED <<backend, now, tenant, cred, expiry, sessions, revoked, stored, bucket,
                  changes, begun, acked, admitted>>
  BY DEF Rest, Registry, Memory, Bounds, History
<1> QED BY <1>1 DEF Current, Untouched

\* A step that changes its request only, given that it leaves the requests in order.
LEMMA RestKeeps ==
  ASSUME AuthInv, Rest, RequestType', RequestsOK'
  PROVE  AuthInv'
<1>1. UNCHANGED <<backend, now, tenant, cred, expiry, sessions, revoked, stored, acked>>
  BY RestFacts
<1> QED BY <1>1 DEF AuthInv, RegistryType, MemoryType, MemoryOK

\* An owner who holds a digest makes it current.
LEMMA HeldIsCurrent ==
  ASSUME RegistryType, NEW h \in Hashes, NEW o \in Owners, tenant # "gone", cred[o] = h
  PROVE  h \in Current
<1>1. h # None
  BY AuthAssumption
<1> QED BY <1>1 DEF Current

\* Answer: the request ends, makes the next attempt or goes on with an owner.
LEMMA AnswerShape ==
  ASSUME RequestType, NEW r \in Requests, req[r] \in Active, NEW o, Answer(r, o),
         req[r].kind \in {"key", "login"}, req[r].attempts # <<>>, o = None \/ o \in Owners
  PROVE  /\ OnlyMoves(r)
         /\ \/ req'[r] = Idle
            \/ /\ req'[r] \in Active /\ Keeps(r) /\ req'[r].rec = req[r].rec
               /\ \/ req'[r].step = "find" /\ req'[r].attempts # <<>>
                  \/ /\ o # None
                     /\ req'[r].step = IF req[r].kind = "login" THEN "create" ELSE "confirm"
<1> DEFINE rest == Tail(req[r].attempts)
           found == o # None /\ Kind(o) = Head(req[r].attempts)
           next == IF req[r].kind = "login" THEN "create" ELSE "confirm"
<1>1. PICK x : x = IF found THEN [req[r] EXCEPT !.owner = o, !.step = next]
                   ELSE IF rest = <<>> THEN Idle
                   ELSE [req[r] EXCEPT !.attempts = rest, !.step = "find"]
  OBVIOUS
<1>2. req' = [req EXCEPT ![r] = x]
  BY <1>1 DEF Answer
<1>3. next \in Steps
  BY DEF Steps
<1>4. CASE found
  <2>1. x = [req[r] EXCEPT !.owner = o, !.step = next] /\ o # None /\ o \in Owners
    BY <1>1, <1>4
  <2> HIDE DEF next
  <2>2. /\ x \in Active /\ x.step = next /\ x.rec = req[r].rec
        /\ x.kind = req[r].kind /\ x.hash = req[r].hash /\ x.fresh = req[r].fresh
        /\ x.session = req[r].session /\ x.dead = req[r].dead
    BY <1>3, <2>1 DEF Active
  <2>3. OnlyMoves(r) /\ req'[r] = x
    BY <1>2, <2>2 DEF RequestType, OnlyMoves
  <2> QED BY <2>1, <2>2, <2>3 DEF Keeps, next
<1>5. CASE ~found /\ rest = <<>>
  <2>1. x = Idle
    BY <1>1, <1>5
  <2> QED BY <1>2, <2>1 DEF RequestType, OnlyMoves
<1>6. CASE ~found /\ rest # <<>>
  <2>1. x = [req[r] EXCEPT !.attempts = rest, !.step = "find"]
    BY <1>1, <1>6
  <2>2. rest \in Seq({"tenant", "service-account"})
    <3>1. req[r].attempts \in Seq({"tenant", "service-account"})
      BY DEF Active
    <3> QED BY <3>1, HeadTailProperties
  <2> HIDE DEF rest
  <2>3. /\ x \in Active /\ x.step = "find" /\ x.attempts = rest /\ x.rec = req[r].rec
        /\ x.kind = req[r].kind /\ x.hash = req[r].hash /\ x.fresh = req[r].fresh
        /\ x.session = req[r].session /\ x.dead = req[r].dead
    BY <2>1, <2>2 DEF Active, Steps
  <2>4. OnlyMoves(r) /\ req'[r] = x
    BY <1>2, <2>3 DEF RequestType, OnlyMoves
  <2> QED BY <1>6, <2>3, <2>4 DEF Keeps
<1> QED BY <1>4, <1>5, <1>6

\* A request by key is in order when it ends, or goes on and is fresh where it must be.
LEMMA KeyMoves ==
  ASSUME AuthInv, Rest, NEW r \in Requests, req[r] # Idle, OnlyMoves(r),
         req[r].kind \in {"key", "login", "local"},
         \/ req'[r] = Idle
         \/ /\ req'[r] \in Active /\ Keeps(r) /\ req'[r].rec = req[r].rec
            /\ Place(r)' /\ (Checked(r)' => req[r].fresh)
  PROVE  AuthInv'
<1>1. RequestsOK /\ RequestType /\ RequestType' /\ ~BySession(r)
  BY DEF AuthInv, OnlyMoves, BySession
<1>2. /\ Current' = Current /\ UNCHANGED <<stored, now>> /\ \A u \in Requests : Untouched(u)
  BY RestFacts
<1>3. ~HasRecord(r)'
  <2>1. CASE req'[r] = Idle
    BY <2>1, IdleFacts DEF HasRecord, BySession
  <2>2. CASE req'[r] # Idle
    BY <2>2 DEF HasRecord, BySession, Keeps
  <2> QED BY <2>1, <2>2
<1>4. RequestOK(r)'
  <2>1. CASE req'[r] = Idle
    BY <2>1 DEF RequestOK
  <2>2. CASE req'[r] # Idle
    <3>1. DeadOK(r)'
      BY <2>2 DEF DeadOK, Keeps
    <3> QED BY <1>1, <1>2, <2>2, <3>1, MovesOn DEF Justified
  <2> QED BY <2>1, <2>2
<1>5. RequestsOK'
  BY <1>1, <1>2, <1>3, <1>4, OneMoves
<1> QED BY <1>1, <1>5, RestKeeps

\* What is known of a request that looks for the owner of its key.
LEMMA Finding ==
  ASSUME AuthInv, NEW r \in Requests, req[r] \in Active, req[r].step \in {"find", "load"}
  PROVE  /\ req[r] # Idle /\ req[r].kind \in {"key", "login"} /\ req[r].hash \in Hashes
         /\ req[r].hash \in Current => req[r].fresh
         /\ req[r].attempts # <<>>
<1>1. req[r] # Idle
  BY IdleFacts
<1>2. Place(r) /\ CredentialOK(r)
  BY <1>1 DEF AuthInv, RequestsOK, RequestOK
<1> QED BY <1>1, <1>2 DEF Place, PlaceOf, CredentialOK

\* An answer for an owner who holds the key keeps the invariant.
LEMMA AnswerKeeps ==
  ASSUME AuthInv, Rest, NEW r \in Requests, req[r] \in Active, req[r].step \in {"find", "load"},
         NEW o, Answer(r, o),
         o = None \/ (o \in Owners /\ tenant # "gone" /\ cred[o] = req[r].hash)
  PROVE  AuthInv'
<1>1. /\ req[r] # Idle /\ req[r].kind \in {"key", "login"} /\ req[r].hash \in Hashes
      /\ req[r].hash \in Current => req[r].fresh
      /\ req[r].attempts # <<>>
  BY Finding
<1>2. /\ OnlyMoves(r)
      /\ \/ req'[r] = Idle
         \/ /\ req'[r] \in Active /\ Keeps(r) /\ req'[r].rec = req[r].rec
            /\ \/ req'[r].step = "find" /\ req'[r].attempts # <<>>
               \/ /\ o # None
                  /\ req'[r].step = IF req[r].kind = "login" THEN "create" ELSE "confirm"
  BY <1>1, AnswerShape DEF AuthInv
<1>3. o # None => req[r].fresh
  BY <1>1, HeldIsCurrent DEF AuthInv
<1>4. req'[r] # Idle => Place(r)' /\ (Checked(r)' => req[r].fresh)
  BY <1>1, <1>2, <1>3 DEF Place, PlaceOf, Checked, Keeps
<1> QED BY <1>1, <1>2, <1>4, KeyMoves

\* The steps of LookupCredentialByHash and lookupCredentialTenantIDs.
LEMMA LookupKeeps ==
  ASSUME AuthInv, NEW r \in Requests,
         \/ MemLookupCredential(r) \/ PgLookupRegistry(r) \/ PgLookupTenant(r) \/ ConfirmTenant(r)
  PROVE  AuthInv'
<1>1. Rest /\ RequestType /\ RegistryType
  BY DEF MemLookupCredential, PgLookupRegistry, PgLookupTenant, ConfirmTenant, AuthInv
<1>2. {"find", "load", "confirm", "limit"} \subseteq Steps
  BY DEF Steps
<1>3. CASE MemLookupCredential(r)
  <2>1. At(r, "find")
    BY <1>3 DEF MemLookupCredential
  <2>2. req[r] \in Active /\ req[r].step = "find"
    BY <1>1, <1>2, <2>1, UnderWay
  <2>3. PICK o : Answer(r, o) /\ (o = None \/ (o \in Owners /\ tenant # "gone" /\ cred[o] = req[r].hash))
    BY <1>3 DEF MemLookupCredential, HolderOf
  <2> QED BY <1>1, <2>2, <2>3, AnswerKeeps
<1>4. CASE PgLookupRegistry(r)
  <2>1. At(r, "find")
    BY <1>4 DEF PgLookupRegistry
  <2>2. req[r] \in Active /\ req[r].step = "find"
    BY <1>1, <1>2, <2>1, UnderWay
  <2>3. req[r] # Idle /\ req[r].kind \in {"key", "login"} /\ req[r].attempts # <<>>
    BY <2>2, Finding
  <2>4. CASE Answer(r, None)
    BY <1>1, <2>2, <2>4, AnswerKeeps
  <2>5. ASSUME NEW o \in Owners, req' = [req EXCEPT ![r].owner = o, ![r].step = "load"]
        PROVE  AuthInv'
    <3>1. PICK x : x = [req[r] EXCEPT !.owner = o, !.step = "load"]
      OBVIOUS
    <3>2. /\ x \in Active /\ x.step = "load" /\ x.attempts = req[r].attempts /\ x.rec = req[r].rec
          /\ x.kind = req[r].kind /\ x.hash = req[r].hash /\ x.fresh = req[r].fresh
          /\ x.session = req[r].session /\ x.dead = req[r].dead
      BY <2>2, <3>1 DEF Active, Steps
    <3>3. OnlyMoves(r) /\ req'[r] = x
      <4>1. req' = [req EXCEPT ![r] = x]
        BY <1>1, <2>5, <3>1 DEF RequestType
      <4> QED BY <1>1, <3>2, <4>1 DEF RequestType, OnlyMoves
    <3>4. Keeps(r) /\ Place(r)' /\ ~Checked(r)'
      BY <2>3, <3>2, <3>3 DEF Keeps, Place, PlaceOf, Checked
    <3> QED BY <1>1, <2>3, <3>2, <3>3, <3>4, KeyMoves
  <2> QED BY <1>4, <2>4, <2>5 DEF PgLookupRegistry, HolderOf
<1>5. CASE PgLookupTenant(r)
  <2>1. At(r, "load")
    BY <1>5 DEF PgLookupTenant
  <2>2. req[r] \in Active /\ req[r].step = "load"
    BY <1>1, <1>2, <2>1, UnderWay
  <2>3. req[r] # Idle /\ req[r].kind \in {"key", "login"}
    BY <2>2, Finding
  <2>4. CASE End(r)
    BY <1>1, <2>3, <2>4, EndShape, KeyMoves
  <2>5. CASE Answer(r, None)
    BY <1>1, <2>2, <2>5, AnswerKeeps
  <2>6. PICK o : o = req[r].owner
    OBVIOUS
  <2>7. o \in Owners \cup {None}
    BY <2>2, <2>6 DEF Active
  <2>8. CASE tenant # "gone" /\ cred[o] = req[r].hash /\ Answer(r, o)
    BY <1>1, <2>2, <2>7, <2>8, AnswerKeeps
  <2> QED BY <1>5, <2>4, <2>5, <2>6, <2>8 DEF PgLookupTenant
<1>6. CASE ConfirmTenant(r)
  <2>1. At(r, "confirm")
    BY <1>6 DEF ConfirmTenant
  <2>2. req[r] \in Active /\ req[r].step = "confirm" /\ req[r] # Idle
    BY <1>1, <1>2, <2>1, UnderWay
  <2>3. req[r].kind = "key" /\ req[r].fresh
    BY <2>2 DEF AuthInv, RequestsOK, RequestOK, Place, PlaceOf, CredentialOK, Checked, Justified
  <2>4. CASE End(r)
    BY <1>1, <2>2, <2>3, <2>4, EndShape, KeyMoves
  <2>5. CASE req' = [req EXCEPT ![r].step = "limit", ![r].attempts = <<>>]
    <3>1. PICK x : x = [req[r] EXCEPT !.step = "limit", !.attempts = <<>>]
      OBVIOUS
    <3>2. /\ x \in Active /\ x.step = "limit" /\ x.rec = req[r].rec
          /\ x.kind = req[r].kind /\ x.hash = req[r].hash /\ x.fresh = req[r].fresh
          /\ x.session = req[r].session /\ x.dead = req[r].dead
      BY <2>2, <3>1, EmptySeq DEF Active, Steps
    <3>3. OnlyMoves(r) /\ req'[r] = x
      <4>1. req' = [req EXCEPT ![r] = x]
        BY <1>1, <2>5, <3>1 DEF RequestType
      <4> QED BY <1>1, <3>2, <4>1 DEF RequestType, OnlyMoves
    <3>4. Keeps(r) /\ Place(r)'
      BY <2>3, <3>2, <3>3 DEF Keeps, Place, PlaceOf
    <3> QED BY <1>1, <2>2, <2>3, <3>2, <3>3, <3>4, KeyMoves
  <2> QED BY <1>6, <2>4, <2>5 DEF ConfirmTenant
<1> QED BY <1>3, <1>4, <1>5, <1>6

-----------------------------------------------------------------------------
\* The session manager.

\* Sessions leave the memory, none comes back, and the registry is left alone.
Shrinks ==
  /\ UNCHANGED <<backend, now, tenant, cred, expiry, stored>>
  /\ sessions' \in [Sessions -> Record \cup {None}] /\ revoked' \in [Sessions -> Nat]
  /\ \A s \in Sessions : sessions'[s] \in {sessions[s], None}
  /\ acked' \subseteq Sessions /\ \A s \in acked' : sessions'[s] = None

\* Where the memory is left alone, it shrinks.
LEMMA SameMemory ==
  ASSUME AuthInv, UNCHANGED <<backend, now, tenant, cred, expiry, sessions, revoked, stored, acked>>
  PROVE  Shrinks
<1>1. \A s \in acked : sessions[s] = None
  BY DEF AuthInv, MemoryType, MemoryOK
<1> QED BY <1>1 DEF AuthInv, MemoryType, Shrinks

\* No request notices it.
LEMMA ShrinkFacts ==
  ASSUME AuthInv, Shrinks
  PROVE  /\ Current' = Current /\ UNCHANGED <<stored, now>> /\ \A u \in Requests : Untouched(u)
         /\ RegistryType' /\ MemoryType' /\ MemoryOK'
<1>1. Current' = Current /\ UNCHANGED <<stored, now>>
  BY DEF Shrinks, Current
<1>2. \A u \in Requests : Untouched(u)
  <2> SUFFICES ASSUME NEW u \in Requests, BySession(u)
               PROVE  sessions'[req[u].session] \in {sessions[req[u].session], None}
    BY DEF Untouched
  <2>1. req[u] # Idle
    BY IdleFacts
  <2>2. req[u].session \in Sessions
    BY <2>1 DEF AuthInv, RequestsOK, RequestOK, SessionOK
  <2> QED BY <2>2 DEF Shrinks
<1>3. RegistryType' /\ MemoryType'
  BY DEF AuthInv, RegistryType, MemoryType, Shrinks
<1>4. MemoryOK'
  BY DEF AuthInv, MemoryOK, Shrinks
<1> QED BY <1>1, <1>2, <1>3, <1>4

\* A request ends while the memory shrinks.
LEMMA SessionEnds ==
  ASSUME AuthInv, Shrinks, NEW r \in Requests, End(r)
  PROVE  AuthInv'
<1>1. RequestsOK /\ RequestType /\ OnlyMoves(r) /\ req'[r] = Idle
  BY EndShape DEF AuthInv
<1>2. RequestOK(r)' /\ ~HasRecord(r)'
  BY <1>1, IdleFacts DEF RequestOK, HasRecord, BySession
<1>3. RequestsOK'
  BY <1>1, <1>2, ShrinkFacts, OneMoves
<1> QED BY <1>1, <1>3, ShrinkFacts DEF AuthInv, OnlyMoves

\* A request that has its record goes on while the memory shrinks.
LEMMA SessionMoves ==
  ASSUME AuthInv, Shrinks, NEW r \in Requests, req[r] \in Active, HasRecord(r) \/ ~BySession(r),
         NEW step \in Steps, Goto(r, step), PlaceOf([req[r] EXCEPT !.step = step]),
         step \notin {"find", "load", "lookup"}, Checked(r)' => Justified(r), DeadOK(r)'
  PROVE  AuthInv'
<1>1. /\ OnlyMoves(r) /\ req'[r] \in Active /\ Keeps(r)
      /\ req'[r].step = step /\ req'[r].rec = req[r].rec
      /\ RequestsOK /\ RequestType /\ req[r] # Idle /\ req'[r] # Idle
  BY GotoShape, IdleFacts DEF AuthInv
<1>2. req'[r] = [req[r] EXCEPT !.step = step]
  BY DEF Goto, AuthInv, RequestType
<1>3. Place(r)'
  BY <1>1, <1>2 DEF Place
<1>4. BySession(r)' = BySession(r) /\ (BySession(r) => HasRecord(r) /\ HasRecord(r)')
  BY <1>1 DEF BySession, HasRecord, Keeps
<1>5. RequestOK(r)'
  BY <1>1, <1>3, <1>4, ShrinkFacts, MovesOn
<1>6. HasRecord(r)' => HasRecord(r) /\ req'[r].session = req[r].session /\ req'[r].rec = req[r].rec
  BY <1>1, <1>4 DEF HasRecord, Keeps
<1>7. RequestsOK'
  BY <1>1, <1>5, <1>6, ShrinkFacts, OneMoves
<1> QED BY <1>1, <1>7, ShrinkFacts DEF AuthInv, OnlyMoves

\* pruneLocked only removes.
LEMMA PrunedFacts ==
  ASSUME RegistryType, MemoryType, NEW rev \in [Sessions -> Nat]
  PROVE  /\ Live(rev) \in [Sessions -> Nat]
         /\ Pruned(rev) \in [Sessions -> Record \cup {None}]
         /\ \A s \in Sessions : Pruned(rev)[s] \in {sessions[s], None}
<1>1. Live(rev) \in [Sessions -> Nat]
  BY DEF Live
<1>2. \A s \in Sessions : Pruned(rev)[s] \in {sessions[s], None}
  BY DEF Pruned
<1>3. Pruned(rev) \in [Sessions -> Record \cup {None}]
  BY DEF Pruned, MemoryType
<1> QED BY <1>1, <1>2, <1>3

\* MarkRevoked forgets the session, and others that are over.
LEMMA MarkFacts ==
  ASSUME RegistryType, MemoryType, NEW r \in Requests, req[r].session \in Sessions,
         req[r].rec \in Record, MarkRevoked(r)
  PROVE  /\ sessions' \in [Sessions -> Record \cup {None}] /\ revoked' \in [Sessions -> Nat]
         /\ \A s \in Sessions : sessions'[s] \in {sessions[s], None}
         /\ sessions'[req[r].session] = None
<1>1. PICK s \in Sessions : s = req[r].session
  OBVIOUS
<1>2. PICK t \in Nat : t = req[r].rec.expires
  BY DEF Record
<1>3. /\ Live(revoked) \in [Sessions -> Nat]
  BY PrunedFacts DEF MemoryType
<1>4. PICK old : old = Pruned(Live(revoked))
  OBVIOUS
<1>5. /\ old \in [Sessions -> Record \cup {None}]
      /\ \A u \in Sessions : old[u] \in {sessions[u], None}
  BY <1>3, <1>4, PrunedFacts
<1>6. sessions' = [old EXCEPT ![s] = None]
  BY <1>1, <1>4 DEF MarkRevoked
<1>7. revoked' = Live(revoked) \/ revoked' = [Live(revoked) EXCEPT ![s] = t]
  BY <1>1, <1>2 DEF MarkRevoked
<1>8. revoked' \in [Sessions -> Nat]
  BY <1>3, <1>7
<1>9. sessions' \in [Sessions -> Record \cup {None}]
  BY <1>5, <1>6
<1>10. sessions'[s] = None /\ \A u \in Sessions : sessions'[u] \in {sessions[u], None}
  BY <1>5, <1>6
<1> QED BY <1>1, <1>8, <1>9, <1>10

\* The local operator's two checks.
LEMMA LocalKeeps ==
  ASSUME AuthInv, NEW r \in Requests, LocalNoKeys(r) \/ LocalFallback(r)
  PROVE  AuthInv'
<1>1. Rest /\ RequestType
  BY DEF LocalNoKeys, LocalFallback, AuthInv
<1>2. Shrinks
  BY <1>1, RestFacts, SameMemory
<1>3. At(r, "keys") \/ At(r, "fallback")
  BY DEF LocalNoKeys, LocalFallback
<1>4. req[r] \in Active /\ req[r] # Idle /\ req[r].step \in {"keys", "fallback"}
  BY <1>1, <1>3, UnderWay DEF Steps
<1>5. req[r].kind = "local"
  BY <1>4 DEF AuthInv, RequestsOK, RequestOK, Place, PlaceOf
<1>6. ASSUME NEW step \in {"fallback", "create"}, Goto(r, step)
      PROVE  AuthInv'
  <2>1. step \in Steps
    BY DEF Steps
  <2>2. req'[r].kind = "local" /\ req'[r].step = step
    BY <1>1, <1>4, <1>5, <1>6, <2>1, GotoShape DEF Keeps
  <2>3. PlaceOf([req[r] EXCEPT !.step = step])
    BY <1>4, <1>5, <2>1 DEF PlaceOf, Active
  <2>4. ~Checked(r)' /\ DeadOK(r)' /\ ~BySession(r)
    BY <1>5, <2>2 DEF Checked, DeadOK, BySession
  <2> QED BY <1>2, <1>4, <1>6, <2>1, <2>3, <2>4, SessionMoves
<1>7. End(r) \/ \E step \in {"fallback", "create"} : Goto(r, step)
  BY DEF LocalNoKeys, LocalFallback
<1> QED BY <1>2, <1>6, <1>7, SessionEnds

\* createRecord with a secret that is in nobody's hands.
LEMMA CreateKeeps ==
  ASSUME AuthInv, NEW r \in Requests, CreateCredential(r) \/ CreateLocal(r)
  PROVE  AuthInv'
<1>1. /\ RequestType /\ RegistryType /\ MemoryType /\ MemoryOK /\ RequestsOK
      /\ UNCHANGED <<backend, now, tenant, cred, expiry, stored, acked>>
      /\ End(r) /\ At(r, "create")
  BY DEF AuthInv, CreateCredential, CreateLocal, Registry, History
<1>2. req[r] \in Active /\ req[r] # Idle /\ req[r].step = "create"
  BY <1>1, UnderWay DEF Steps
<1>3. now \in Nat /\ TTL \in Nat
  BY <1>1, AuthAssumption DEF RegistryType
<1>4. PICK rec \in Record : createRecord(rec) /\ (rec.mode # "local" => rec.hash \in Hashes)
  <2>1. CASE CreateCredential(r)
    <3>1. PICK rec : rec = [mode |-> Kind(req[r].owner), hash |-> req[r].hash, expires |-> now + TTL]
      OBVIOUS
    <3>2. req[r].kind = "login"
      BY <2>1 DEF CreateCredential
    <3>3. req[r].hash \in Hashes
      BY <1>1, <1>2, <3>2 DEF RequestsOK, RequestOK, CredentialOK
    <3>4. rec \in Record /\ rec.hash \in Hashes
      BY <1>3, <3>1, <3>3 DEF Record, Kind
    <3> QED BY <2>1, <3>1, <3>4 DEF CreateCredential
  <2>2. CASE CreateLocal(r)
    <3>1. PICK rec : rec = [mode |-> "local", hash |-> None, expires |-> now + TTL]
      OBVIOUS
    <3>2. rec \in Record /\ rec.mode = "local"
      BY <1>3, <3>1 DEF Record
    <3> QED BY <2>2, <3>1, <3>2 DEF CreateLocal
  <2> QED BY <2>1, <2>2
<1>5. PICK s \in Sessions :
        /\ sessions[s] = None /\ stored[s] = 0 /\ s \notin acked
        /\ \A q \in Requests : req[q].kind # "none" => req[q].session # s
        /\ sessions' = [Pruned(Live(revoked)) EXCEPT ![s] = rec]
        /\ revoked' = Live(revoked)
  BY <1>4 DEF createRecord
<1>6. PICK old : old = Pruned(Live(revoked))
  OBVIOUS
<1>7. /\ revoked' \in [Sessions -> Nat]
      /\ old \in [Sessions -> Record \cup {None}]
      /\ \A u \in Sessions : old[u] \in {sessions[u], None}
  BY <1>1, <1>5, <1>6, PrunedFacts DEF MemoryType
<1>8. /\ sessions' \in [Sessions -> Record \cup {None}] /\ sessions'[s] = rec
      /\ \A u \in Sessions : u # s => sessions'[u] \in {sessions[u], None}
  BY <1>5, <1>6, <1>7
<1>9. RegistryType' /\ MemoryType'
  BY <1>1, <1>7, <1>8 DEF RegistryType, MemoryType
<1>10. MemoryOK'
  BY <1>1, <1>4, <1>5, <1>8 DEF MemoryOK
<1>11. \A u \in Requests : Untouched(u)
  <2> SUFFICES ASSUME NEW u \in Requests, BySession(u)
               PROVE  sessions'[req[u].session] \in {sessions[req[u].session], None}
    BY DEF Untouched
  <2>1. req[u] # Idle
    BY IdleFacts
  <2>2. req[u].session \in Sessions
    BY <1>1, <2>1 DEF RequestsOK, RequestOK, SessionOK
  <2>3. req[u].session # s
    BY <1>5 DEF BySession
  <2> QED BY <1>8, <2>2, <2>3
<1>12. OnlyMoves(r) /\ req'[r] = Idle
  BY <1>1, EndShape
<1>13. RequestOK(r)' /\ ~HasRecord(r)'
  BY <1>12, IdleFacts DEF RequestOK, HasRecord, BySession
<1>14. Current' = Current
  BY <1>1 DEF Current
<1>15. RequestsOK'
  BY <1>1, <1>11, <1>12, <1>13, <1>14, OneMoves
<1> QED BY <1>9, <1>10, <1>12, <1>15 DEF AuthInv, OnlyMoves

\* What is known of a request that has read its session.
LEMMA WithRecord ==
  ASSUME AuthInv, NEW r \in Requests, NEW step \in {"recheck", "stored", "principal", "revoke", "mark"},
         At(r, step)
  PROVE  /\ req[r] \in Active /\ req[r] # Idle /\ req[r].step = step /\ BySession(r) /\ HasRecord(r)
         /\ SessionOK(r) /\ CredentialOK(r) /\ DeadOK(r) /\ PlaceOf(req[r])
         /\ req[r].session \in Sessions /\ req[r].rec \in Record
<1>1. step \in Steps /\ RequestType
  BY DEF Steps, AuthInv
<1>2. req[r] \in Active /\ req[r] # Idle /\ req[r].step = step
  BY <1>1, UnderWay
<1>3. Place(r) /\ SessionOK(r) /\ CredentialOK(r) /\ DeadOK(r)
  BY <1>2 DEF AuthInv, RequestsOK, RequestOK
<1>4. BySession(r) /\ HasRecord(r) /\ PlaceOf(req[r])
  BY <1>2, <1>3 DEF Place, PlaceOf, BySession, HasRecord
<1> QED BY <1>2, <1>3, <1>4 DEF SessionOK

\* Lookup: the record is read, or the request is refused and a dead record removed.
LEMMA LookupSessionKeeps ==
  ASSUME AuthInv, NEW r \in Requests, LookupSession(r)
  PROVE  AuthInv'
<1>1. /\ At(r, "lookup") /\ UNCHANGED <<backend, now, tenant, cred, expiry, stored, acked>>
      /\ RequestType /\ RegistryType /\ MemoryType /\ MemoryOK /\ RequestsOK
  BY DEF LookupSession, Registry, History, AuthInv
<1>2. req[r] \in Active /\ req[r] # Idle /\ req[r].step = "lookup"
  BY <1>1, UnderWay DEF Steps
<1>3. Place(r) /\ CredentialOK(r) /\ SessionOK(r) /\ DeadOK(r)
  BY <1>1, <1>2 DEF RequestsOK, RequestOK
<1>4. BySession(r) /\ req[r].kind \in {"session", "logout", "revoke"}
  BY <1>2, <1>3 DEF Place, PlaceOf, BySession
<1>5. PICK s \in Sessions : s = req[r].session
  BY <1>3, <1>4 DEF SessionOK
<1>6. CASE sessions[s] # None /\ revoked[s] <= now /\ ~Expired(sessions[s])
  <2>1. PICK next \in Steps : next = IF req[r].kind = "revoke" THEN "revoke" ELSE "recheck"
    BY DEF Steps
  <2>2. req' = [req EXCEPT ![r].rec = sessions[s], ![r].step = next] /\ UNCHANGED <<sessions, revoked>>
    BY <1>5, <1>6, <2>1 DEF LookupSession, Memory
  <2>3. PICK x : x = [req[r] EXCEPT !.rec = sessions[s], !.step = next]
    OBVIOUS
  <2>4. sessions[s] \in Record
    BY <1>1, <1>6 DEF MemoryType
  <2>5. /\ x \in Active /\ x.step = next /\ x.rec = sessions[s]
        /\ x.kind = req[r].kind /\ x.hash = req[r].hash /\ x.fresh = req[r].fresh
        /\ x.session = req[r].session /\ x.dead = req[r].dead
    BY <1>2, <2>3, <2>4 DEF Active
  <2>6. OnlyMoves(r) /\ req'[r] = x
    <3>1. req' = [req EXCEPT ![r] = x]
      BY <1>1, <2>2, <2>3 DEF RequestType
    <3> QED BY <1>1, <2>5, <3>1 DEF RequestType, OnlyMoves
  <2>7. Place(r)' /\ ~Checked(r)'
    BY <1>4, <2>1, <2>5, <2>6 DEF Place, PlaceOf, Checked
  <2>8. Shrinks
    BY <1>1, <2>2, SameMemory
  <2>9. Current' = Current
    BY <2>8, ShrinkFacts
  <2>10. CredentialOK(r)'
    BY <1>3, <2>5, <2>6, <2>7, <2>9 DEF CredentialOK
  <2>11. sessions[s].hash = req[r].hash
    BY <1>3, <1>4, <1>5, <1>6 DEF SessionOK
  <2>12. SessionOK(r)'
    <3>1. /\ sessions[s].mode # "local" => sessions[s].hash \in Hashes
          /\ stored[s] # 0 => stored[s] = sessions[s].expires
      BY <1>1, <1>6 DEF MemoryOK
    <3> QED BY <1>1, <1>5, <1>6, <2>2, <2>4, <2>5, <2>6, <2>11, <3>1 DEF SessionOK
  <2>13. DeadOK(r)'
    BY <1>1, <1>2, <1>3, <1>5, <1>6, <2>1, <2>5, <2>6 DEF DeadOK, Expired
  <2>14. RequestOK(r)'
    BY <2>7, <2>10, <2>12, <2>13 DEF RequestOK
  <2>15. RequestsOK'
    BY <1>1, <1>5, <1>6, <2>5, <2>6, <2>8, <2>14, ShrinkFacts, OneMoves
  <2> QED BY <2>6, <2>8, <2>15, ShrinkFacts DEF AuthInv, OnlyMoves
<1>7. CASE ~(sessions[s] # None /\ revoked[s] <= now /\ ~Expired(sessions[s]))
  <2>1. /\ sessions' = [sessions EXCEPT ![s] = None] /\ End(r)
        /\ revoked' = [revoked EXCEPT ![s] = IF @ > now THEN @ ELSE 0]
    BY <1>5, <1>7 DEF LookupSession
  <2>2. sessions' \in [Sessions -> Record \cup {None}] /\ revoked' \in [Sessions -> Nat]
    BY <1>1, <2>1 DEF MemoryType
  <2>3. \A u \in Sessions : sessions'[u] \in {sessions[u], None}
    BY <1>1, <2>1 DEF MemoryType
  <2>4. Shrinks
    BY <1>1, <2>2, <2>3 DEF MemoryType, MemoryOK, Shrinks
  <2> QED BY <2>1, <2>4, SessionEnds
<1> QED BY <1>6, <1>7

\* A request ends with the removal of its session.
LEMMA MarkEnds ==
  ASSUME AuthInv, NEW r \in Requests, req[r].session \in Sessions, req[r].rec \in Record,
         MarkRevoked(r), End(r), UNCHANGED <<backend, now, tenant, cred, expiry, stored>>,
         acked' \in {acked, acked \cup {req[r].session}}
  PROVE  AuthInv'
<1>1. /\ sessions' \in [Sessions -> Record \cup {None}] /\ revoked' \in [Sessions -> Nat]
      /\ \A s \in Sessions : sessions'[s] \in {sessions[s], None}
      /\ sessions'[req[r].session] = None
  BY MarkFacts DEF AuthInv
<1>2. \A s \in acked : sessions[s] = None /\ s \in Sessions
  BY DEF AuthInv, MemoryType, MemoryOK
<1>3. Shrinks
  BY <1>1, <1>2 DEF Shrinks
<1> QED BY <1>3, SessionEnds

\* LookupActive: the revocations in memory and in the store.
LEMMA RecheckKeeps ==
  ASSUME AuthInv, NEW r \in Requests, RecheckRevoked(r) \/ CheckStored(r)
  PROVE  AuthInv'
<1>1. UNCHANGED <<backend, now, tenant, cred, expiry, stored, acked>>
  BY DEF RecheckRevoked, CheckStored, Registry, History
<1>2. PICK step \in {"recheck", "stored"} : At(r, step) /\ (step = "stored" <=> CheckStored(r))
  BY DEF RecheckRevoked, CheckStored, At
<1>3. /\ req[r] \in Active /\ req[r] # Idle /\ req[r].step = step /\ BySession(r) /\ HasRecord(r)
      /\ SessionOK(r) /\ DeadOK(r) /\ PlaceOf(req[r])
      /\ req[r].session \in Sessions /\ req[r].rec \in Record
  BY <1>2, WithRecord
<1>4. req[r].kind \in {"session", "logout"}
  BY <1>3 DEF PlaceOf
<1>5. CASE MarkRevoked(r) /\ End(r)
  BY <1>1, <1>3, <1>5, MarkEnds
<1>6. CASE End(r) /\ UNCHANGED Memory
  <2>1. Shrinks
    BY <1>1, <1>6, SameMemory DEF Memory
  <2> QED BY <1>6, <2>1, SessionEnds
<1>7. ASSUME NEW next, UNCHANGED Memory, Goto(r, next),
             \/ step = "recheck" /\ next = "stored"
             \/ /\ step = "stored" /\ stored[req[r].session] <= now
                /\ next = IF req[r].kind = "logout" THEN "revoke" ELSE "principal"
      PROVE  AuthInv'
  <2>1. next \in {"stored", "revoke", "principal"} /\ next \in Steps
    BY <1>7 DEF Steps
  <2>2. Shrinks
    BY <1>1, <1>7, SameMemory DEF Memory
  <2>3. req'[r].kind = req[r].kind /\ req'[r].step = next /\ req'[r].rec = req[r].rec
        /\ req'[r].session = req[r].session /\ req'[r].dead = req[r].dead
    BY <1>3, <1>7, <2>1, GotoShape DEF Keeps, AuthInv
  <2>4. PlaceOf([req[r] EXCEPT !.step = next])
    BY <1>3, <1>4, <1>7, <2>1 DEF PlaceOf, Active
  <2>5. DeadOK(r)'
    <3>1. stored[req[r].session] \in Nat /\ now \in Nat
      BY <1>3 DEF AuthInv, MemoryType, RegistryType
    <3> QED BY <1>1, <1>2, <1>3, <1>7, <2>1, <2>3, <3>1 DEF DeadOK, Expired
  <2>6. ~Checked(r)'
    BY <2>1, <2>3 DEF Checked
  <2> QED BY <1>3, <1>7, <2>1, <2>2, <2>4, <2>5, <2>6, SessionMoves
<1>8. CASE step = "recheck"
  <2>1. RecheckRevoked(r)
    BY <1>2, <1>8
  <2>2. (MarkRevoked(r) /\ End(r)) \/ (Goto(r, "stored") /\ UNCHANGED Memory)
    BY <2>1 DEF RecheckRevoked
  <2> QED BY <1>5, <1>7, <1>8, <2>2
<1>9. CASE step = "stored"
  <2>1. CheckStored(r)
    BY <1>2, <1>9
  <2>2. stored[req[r].session] \in Nat /\ now \in Nat
    BY <1>3 DEF AuthInv, MemoryType, RegistryType
  <2>3. \/ MarkRevoked(r) /\ End(r)
        \/ End(r) /\ UNCHANGED Memory
        \/ /\ stored[req[r].session] <= now /\ UNCHANGED Memory
           /\ Goto(r, IF req[r].kind = "logout" THEN "revoke" ELSE "principal")
    BY <2>1, <2>2 DEF CheckStored
  <2> QED BY <1>5, <1>6, <1>7, <1>9, <2>3
<1> QED BY <1>8, <1>9

\* The principal of a session: its digest is compared with the current one.
LEMMA PrincipalKeeps ==
  ASSUME AuthInv, NEW r \in Requests, SessionPrincipal(r)
  PROVE  AuthInv'
<1>1. Rest /\ At(r, "principal") /\ RegistryType
  BY DEF SessionPrincipal, AuthInv
<1>2. /\ req[r] \in Active /\ req[r] # Idle /\ req[r].step = "principal" /\ HasRecord(r) /\ BySession(r)
      /\ SessionOK(r) /\ CredentialOK(r) /\ DeadOK(r) /\ PlaceOf(req[r])
      /\ req[r].session \in Sessions /\ req[r].rec \in Record
  BY <1>1, WithRecord
<1>3. req[r].kind = "session"
  BY <1>2 DEF PlaceOf
<1>4. Shrinks /\ UNCHANGED <<stored, now>>
  BY <1>1, RestFacts, SameMemory
<1>5. CASE End(r)
  BY <1>4, <1>5, SessionEnds
<1>6. ASSUME NEW next \in {"limit", "revoke"}, Goto(r, next), next = "limit" => Justified(r)
      PROVE  AuthInv'
  <2>1. next \in Steps
    BY DEF Steps
  <2>2. req'[r].kind = req[r].kind /\ req'[r].step = next /\ req'[r].rec = req[r].rec
        /\ req'[r].session = req[r].session /\ req'[r].dead = req[r].dead
    BY <1>2, <1>6, <2>1, GotoShape DEF Keeps, AuthInv
  <2>3. PlaceOf([req[r] EXCEPT !.step = next])
    BY <1>2, <1>3, <2>1 DEF PlaceOf, Active
  <2>4. DeadOK(r)'
    BY <1>2, <1>4, <2>2 DEF DeadOK, Expired
  <2>5. Checked(r)' => Justified(r)
    BY <1>6, <2>2 DEF Checked
  <2> QED BY <1>2, <1>4, <1>6, <2>1, <2>3, <2>4, <2>5, SessionMoves
<1>7. ASSUME NEW o \in Owners, tenant # "gone", cred[o] = req[r].rec.hash, req[r].rec.mode # "local"
      PROVE  Justified(r)
  <2>1. req[r].rec.hash = req[r].hash /\ req[r].hash \in Hashes
    BY <1>2, <1>7 DEF SessionOK
  <2>2. req[r].hash \in Current
    BY <1>1, <1>7, <2>1, HeldIsCurrent
  <2> QED BY <1>2, <2>2 DEF CredentialOK, Justified
<1>8. req[r].rec.mode = "local" => Justified(r)
  BY <1>3 DEF Justified
<1>9. PICK o : o = IF req[r].rec.mode = "tenant" THEN Root ELSE Account
  OBVIOUS
<1>10. o \in Owners
  BY <1>9 DEF Owners
<1>11. \/ End(r) \/ Goto(r, "revoke")
       \/ Goto(r, "limit") /\ \/ req[r].rec.mode = "local"
                              \/ tenant # "gone" /\ cred[o] = req[r].rec.hash
  BY <1>9 DEF SessionPrincipal
<1> QED BY <1>5, <1>6, <1>7, <1>8, <1>10, <1>11

\* Revoke, its last part: the session is removed and the revocation reported, or the
\* audit event cannot be saved.
LEMMA RevokeMarkedKeeps ==
  ASSUME AuthInv, NEW r \in Requests, RevokeMarked(r)
  PROVE  AuthInv'
<1>1. At(r, "mark") /\ End(r) /\ UNCHANGED <<backend, now, tenant, cred, expiry, stored>>
  BY DEF RevokeMarked, Registry
<1>2. req[r].session \in Sessions /\ req[r].rec \in Record
  BY <1>1, WithRecord
<1>3. CASE MarkRevoked(r) /\ acked' \in {acked, acked \cup {req[r].session}}
  BY <1>1, <1>2, <1>3, MarkEnds
<1>4. CASE UNCHANGED <<Memory, acked>>
  <2>1. Shrinks
    BY <1>1, <1>4, SameMemory DEF Memory
  <2> QED BY <1>1, <2>1, SessionEnds
<1> QED BY <1>3, <1>4 DEF RevokeMarked

\* The limiter, and the end of a request that was served.
LEMMA ServeKeeps ==
  ASSUME AuthInv, NEW r \in Requests, RateLimit(r) \/ Finish(r)
  PROVE  AuthInv'
<1>1. UNCHANGED <<backend, now, tenant, cred, expiry, sessions, revoked, stored, acked>>
  BY RestFacts DEF RateLimit, Finish, Registry, Memory
<1>2. Shrinks
  BY <1>1, SameMemory
<1>3. CASE End(r)
  BY <1>2, <1>3, SessionEnds
<1>4. CASE At(r, "limit") /\ Goto(r, "served")
  <2>1. req[r] \in Active /\ req[r] # Idle /\ req[r].step = "limit"
    BY <1>4, UnderWay DEF Steps, AuthInv
  <2>2. Place(r) /\ CredentialOK(r) /\ DeadOK(r)
    BY <2>1 DEF AuthInv, RequestsOK, RequestOK
  <2>3. "served" \in Steps /\ req[r].kind \in {"key", "session"} /\ Justified(r)
        /\ (HasRecord(r) \/ ~BySession(r))
    BY <2>1, <2>2 DEF Place, PlaceOf, CredentialOK, Checked, HasRecord, Steps
  <2>4. req'[r].kind = req[r].kind /\ req'[r].step = "served" /\ req'[r].rec = req[r].rec
        /\ req'[r].session = req[r].session /\ req'[r].dead = req[r].dead
    BY <1>4, <2>1, <2>3, GotoShape DEF Keeps, AuthInv
  <2>5. PlaceOf([req[r] EXCEPT !.step = "served"])
    BY <2>1, <2>3 DEF PlaceOf, Active
  <2>6. DeadOK(r)'
    BY <1>1, <2>1, <2>2, <2>4 DEF DeadOK, Expired
  <2> QED BY <1>2, <1>4, <2>1, <2>3, <2>5, <2>6, SessionMoves
<1> QED BY <1>3, <1>4 DEF RateLimit, Finish

\* Revoke, its first part: the revocation is stored until the session expires.
LEMMA RevokeStoredKeeps ==
  ASSUME AuthInv, NEW r \in Requests, RevokeStored(r)
  PROVE  AuthInv'
<1>1. /\ At(r, "revoke") /\ UNCHANGED <<backend, now, tenant, cred, expiry, sessions, revoked, acked>>
      /\ RequestType /\ RegistryType /\ MemoryType /\ MemoryOK /\ RequestsOK
  BY DEF RevokeStored, Registry, Memory, History, AuthInv
<1>2. /\ req[r] \in Active /\ req[r] # Idle /\ req[r].step = "revoke" /\ HasRecord(r) /\ BySession(r)
      /\ SessionOK(r) /\ CredentialOK(r) /\ DeadOK(r) /\ PlaceOf(req[r])
      /\ req[r].session \in Sessions /\ req[r].rec \in Record
  BY <1>1, WithRecord
<1>3. CASE End(r) /\ UNCHANGED stored
  <2>1. Shrinks
    BY <1>1, <1>3, SameMemory
  <2> QED BY <1>3, <2>1, SessionEnds
<1>4. CASE ~(End(r) /\ UNCHANGED stored)
  <2>1. PICK s \in Sessions, t \in Nat : s = req[r].session /\ t = req[r].rec.expires
    BY <1>2 DEF Record
  <2>2. /\ stored' = [u \in Sessions |-> IF u = s THEN t
                                         ELSE IF backend = "memory" /\ stored[u] <= now THEN 0
                                         ELSE stored[u]]
        /\ Goto(r, "mark")
    BY <1>4, <2>1 DEF RevokeStored
  <2>3. /\ stored' \in [Sessions -> Nat] /\ stored'[s] = t
        /\ \A u \in Sessions : u # s =>
             stored'[u] = stored[u] \/ (stored[u] <= now /\ stored'[u] = 0)
    BY <1>1, <2>2 DEF MemoryType
  <2>4. /\ OnlyMoves(r) /\ req'[r] \in Active /\ Keeps(r)
        /\ req'[r].step = "mark" /\ req'[r].rec = req[r].rec /\ req'[r] # Idle
    BY <1>1, <1>2, <2>2, GotoShape, IdleFacts DEF Steps
  <2>5. RegistryType' /\ MemoryType' /\ Current' = Current
    BY <1>1, <2>3 DEF RegistryType, MemoryType, Current
  <2>6. sessions[s] # None => sessions[s] = req[r].rec
    BY <1>2, <2>1 DEF SessionOK
  <2>7. MemoryOK'
    BY <1>1, <2>1, <2>3, <2>6 DEF MemoryOK
  <2>8. RequestOK(r)'
    <3>1. Place(r)' /\ CredentialOK(r)'
      BY <1>2, <2>4, <2>5 DEF Place, PlaceOf, CredentialOK, Checked, Keeps
    <3>2. SessionOK(r)'
      BY <1>1, <1>2, <2>1, <2>3, <2>4 DEF SessionOK, BySession, HasRecord, Keeps
    <3>3. DeadOK(r)'
      BY <1>1, <1>2, <2>4 DEF DeadOK, Keeps, Expired
    <3> QED BY <3>1, <3>2, <3>3 DEF RequestOK
  <2>9. ASSUME NEW u \in Requests, u # r
        PROVE  RequestOK(u)'
    <3> SUFFICES ASSUME req'[u] # Idle PROVE RequestOK(u)'
      BY DEF RequestOK
    <3>1. req'[u] = req[u] /\ Place(u) /\ CredentialOK(u) /\ SessionOK(u) /\ DeadOK(u) /\ Agree(r, u)
      BY <1>1, <2>4, <2>9 DEF OnlyMoves, RequestsOK, RequestOK
    <3>2. Place(u)' /\ CredentialOK(u)'
      BY <2>5, <3>1 DEF Place, PlaceOf, CredentialOK, Checked, Justified
    <3>3. BySession(u) /\ req[u].session = s /\ HasRecord(u) => req[u].rec.expires = t
      BY <1>2, <2>1, <3>1 DEF Agree
    <3>4. SessionOK(u)'
      BY <1>1, <2>3, <3>1, <3>3 DEF SessionOK, BySession, HasRecord
    <3>5. DeadOK(u)'
      <4> SUFFICES ASSUME req[u].kind = "session", req[u].dead
                   PROVE  DeadOK(u)'
        BY <3>1 DEF DeadOK
      <4>1. BySession(u) /\ req[u].session \in Sessions
        BY <3>1 DEF BySession, SessionOK
      <4>2. now \in Nat /\ stored[req[u].session] \in Nat
        BY <1>1, <4>1 DEF RegistryType, MemoryType
      <4>3. CASE req[u].session # s
        <5>1. stored[req[u].session] > now => stored'[req[u].session] > now
          BY <2>3, <4>1, <4>2, <4>3
        <5> QED BY <1>1, <3>1, <5>1 DEF DeadOK, Expired
      <4>4. CASE req[u].session = s
        <5>1. CASE req[u].step = "lookup"
          <6>1. sessions[s] = None \/ sessions[s].expires <= now \/ stored'[s] > now
            BY <2>1, <2>3, <2>6, <4>2
          <6> QED BY <1>1, <3>1, <4>4, <5>1, <6>1 DEF DeadOK, Expired
        <5>2. CASE req[u].step # "lookup"
          <6>1. req[u].rec.expires = t
            BY <3>3, <4>1, <4>4, <5>2 DEF HasRecord
          <6>2. req[u].rec.expires <= now \/ stored'[s] > now
            BY <2>1, <2>3, <4>2, <6>1
          <6> QED BY <1>1, <3>1, <4>4, <5>2, <6>2 DEF DeadOK, Expired
        <5> QED BY <5>1, <5>2
      <4> QED BY <4>3, <4>4
    <3> QED BY <3>2, <3>4, <3>5 DEF RequestOK
  <2>10. ASSUME NEW u \in Requests, NEW w \in Requests
         PROVE  Agree(u, w)'
    <3>1. /\ req'[u].kind = req[u].kind /\ req'[u].session = req[u].session /\ req'[u].rec = req[u].rec
          /\ req'[w].kind = req[w].kind /\ req'[w].session = req[w].session /\ req'[w].rec = req[w].rec
          /\ HasRecord(u)' => HasRecord(u)
          /\ HasRecord(w)' => HasRecord(w)
      BY <1>2, <2>4 DEF OnlyMoves, Keeps, HasRecord, BySession
    <3> QED BY <1>1, <3>1 DEF RequestsOK, Agree
  <2>11. RequestsOK'
    BY <2>8, <2>9, <2>10 DEF RequestsOK
  <2> QED BY <2>4, <2>5, <2>7, <2>11 DEF AuthInv, OnlyMoves
<1> QED BY <1>3, <1>4 DEF RevokeStored

-----------------------------------------------------------------------------
\* Everything else that happens.

\* A request as it arrives.
LEMMA StartedShape ==
  ASSUME NEW kind \in Kinds, NEW step \in Steps, NEW h \in Hashes \cup {None},
         NEW s \in Sessions \cup {None}, NEW x, x = Started(kind, step, h, s)
  PROVE  /\ x \in Active /\ x.kind = kind /\ x.step = step /\ x.hash = h /\ x.session = s
         /\ x.fresh <=> h \in Current
         /\ x.dead <=> s # None /\ (s \in acked \/ stored[s] > now)
<1> DEFINE f == h \in Current
           d == s # None /\ (s \in acked \/ stored[s] > now)
<1>1. f \in BOOLEAN /\ d \in BOOLEAN
  OBVIOUS
<1>2. x = [kind |-> kind, step |-> step, hash |-> h, fresh |-> f, session |-> s, dead |-> d,
           owner |-> None, attempts |-> <<>>, rec |-> None]
  BY DEF Started
<1> HIDE DEF f, d
<1>4. <<>> \in Seq({"tenant", "service-account"})
  BY EmptySeq
<1>5. /\ x \in Active /\ x.kind = kind /\ x.step = step /\ x.hash = h /\ x.session = s
      /\ x.fresh = f /\ x.dead = d
  BY <1>1, <1>2, <1>4 DEF Active
<1>6. (x.fresh <=> f) /\ (x.dead <=> d)
  BY <1>5, Zenon
<1> QED BY <1>5, <1>6 DEF f, d

\* What a new request is made of: nothing is checked yet.
New(x) ==
  /\ x \in Active /\ x.step \in {"find", "keys", "lookup"}
  /\ PlaceOf(x) /\ (x.step = "find" => x.attempts # <<>> /\ x.hash \in Hashes)
  /\ x.fresh <=> x.hash \in Current
  /\ x.step \in {"find", "keys"} => ~x.dead
  /\ x.step = "lookup" =>
       /\ x.session \in Sessions
       /\ sessions[x.session] # None => sessions[x.session].hash = x.hash
       /\ x.dead => x.session \in acked \/ stored[x.session] > now

\* Every request is new when it arrives.
LEMMA ArrivesNew ==
  ASSUME AuthInv, NEW x \in KeyRequest \cup createAuthSession \cup createLocalSession
                            \cup SessionRequest \cup deleteAuthSession \cup handleAuthSessionRevoke
  PROVE  New(x)
<1>1. ASSUME NEW kind \in {"key", "login"}, NEW h \in Hashes, NEW a,
             a \in {<<"tenant", "service-account">>, <<"service-account">>, <<"tenant">>},
             x = [Started(kind, "find", h, None) EXCEPT !.attempts = a]
      PROVE  New(x)
  <2>1. PICK y : y = Started(kind, "find", h, None)
    OBVIOUS
  <2>2. kind \in Kinds /\ "find" \in Steps /\ h \in Hashes \cup {None} /\ None \in Sessions \cup {None}
    BY DEF Kinds, Steps
  <2>3. /\ y \in Active /\ y.kind = kind /\ y.step = "find" /\ y.hash = h /\ y.session = None
        /\ y.fresh <=> h \in Current
        /\ ~y.dead
    BY <2>1, <2>2, StartedShape
  <2>4. a \in Seq({"tenant", "service-account"}) /\ a # <<>>
    <3>1. CASE a = <<"tenant", "service-account">>
      BY <3>1
    <3>2. CASE a = <<"service-account">>
      BY <3>2
    <3>3. CASE a = <<"tenant">>
      BY <3>3
    <3> QED BY <1>1, <3>1, <3>2, <3>3
  <2>5. x = [y EXCEPT !.attempts = a]
    BY <1>1, <2>1
  <2>6. /\ x \in Active /\ x.kind = kind /\ x.step = "find" /\ x.hash = h /\ x.attempts = a
        /\ x.fresh = y.fresh /\ x.dead = y.dead
    BY <2>3, <2>4, <2>5 DEF Active
  <2>7. (x.fresh <=> x.hash \in Current) /\ ~x.dead
    BY <2>3, <2>6
  <2>8. PlaceOf(x)
    BY <2>6 DEF PlaceOf
  <2> QED BY <2>4, <2>6, <2>7, <2>8 DEF New
<1>2. CASE x \in KeyRequest \cup createAuthSession
  <2>1. CASE x \in KeyRequest
    <3>1. PICK h \in Hashes, a \in {<<"tenant", "service-account">>, <<"service-account">>} :
            x = [Started("key", "find", h, None) EXCEPT !.attempts = a]
      BY <2>1 DEF KeyRequest
    <3> QED BY <1>1, <3>1
  <2>2. CASE x \in createAuthSession
    <3>1. PICK h \in Hashes, mode \in {"tenant", "service-account"} :
            x = [Started("login", "find", h, None) EXCEPT !.attempts = <<mode>>]
      BY <2>2 DEF createAuthSession
    <3>2. PICK a : a = <<mode>>
      OBVIOUS
    <3>3. a \in {<<"tenant", "service-account">>, <<"service-account">>, <<"tenant">>}
      BY <3>2
    <3> QED BY <1>1, <3>1, <3>2, <3>3
  <2> QED BY <1>2, <2>1, <2>2
<1>3. CASE x \in createLocalSession
  <2>1. "local" \in Kinds /\ "keys" \in Steps /\ None \in Hashes \cup {None} /\ None \in Sessions \cup {None}
    BY DEF Kinds, Steps
  <2>2. x = Started("local", "keys", None, None)
    BY <1>3 DEF createLocalSession
  <2>3. /\ x \in Active /\ x.kind = "local" /\ x.step = "keys" /\ x.hash = None
        /\ x.fresh <=> None \in Current
        /\ ~x.dead
    BY <2>1, <2>2, StartedShape
  <2>4. (x.fresh <=> x.hash \in Current) /\ ~x.dead
    BY <2>3
  <2> QED BY <2>3, <2>4 DEF New, PlaceOf
<1>4. ASSUME NEW kind \in {"session", "logout", "revoke"}, x \in SessionOf(kind)
      PROVE  New(x)
  <2>1. PICK s \in Issued :
          x = Started(kind, "lookup", IF sessions[s] = None THEN None ELSE sessions[s].hash, s)
    BY <1>4 DEF SessionOf
  <2>2. PICK h : h = IF sessions[s] = None THEN None ELSE sessions[s].hash
    OBVIOUS
  <2>3. s \in Sessions /\ s \in Sessions \cup {None}
    BY DEF Issued
  <2>4. h \in Hashes \cup {None}
    BY <2>2, <2>3 DEF AuthInv, MemoryType, Record
  <2>5. kind \in Kinds /\ "lookup" \in Steps
    BY DEF Kinds, Steps
  <2>6. x = Started(kind, "lookup", h, s)
    BY <2>1, <2>2
  <2>7. /\ x \in Active /\ x.kind = kind /\ x.step = "lookup" /\ x.hash = h /\ x.session = s
        /\ x.fresh <=> h \in Current
        /\ x.dead <=> s # None /\ (s \in acked \/ stored[s] > now)
    BY <2>3, <2>4, <2>5, <2>6, StartedShape
  <2>8. (x.fresh <=> x.hash \in Current) /\ (x.dead => s \in acked \/ stored[s] > now)
    BY <2>7
  <2>9. PlaceOf(x)
    BY <2>7 DEF PlaceOf
  <2> QED BY <2>2, <2>3, <2>7, <2>8, <2>9 DEF New
<1> QED BY <1>2, <1>3, <1>4 DEF SessionRequest, deleteAuthSession, handleAuthSessionRevoke

\* A request arrives.
LEMMA BeginKeeps ==
  ASSUME AuthInv, Begin
  PROVE  AuthInv'
<1>1. /\ UNCHANGED <<backend, now, tenant, cred, expiry, sessions, revoked, stored, acked>>
      /\ RequestType /\ RegistryType /\ MemoryType /\ MemoryOK /\ RequestsOK
  BY DEF Begin, Registry, Memory, History, AuthInv
<1>2. PICK r \in Requests, x \in Active : req[r] = Idle /\ req' = [req EXCEPT ![r] = x] /\ New(x)
  <2>1. PICK r : r = CHOOSE q \in Requests : req[q] = Idle
    OBVIOUS
  <2>2. r \in Requests /\ req[r] = Idle
    BY <2>1 DEF Begin
  <2>3. PICK x \in KeyRequest \cup createAuthSession \cup createLocalSession
                     \cup SessionRequest \cup deleteAuthSession \cup handleAuthSessionRevoke :
          req' = [req EXCEPT ![r] = x]
    BY <2>1 DEF Begin
  <2>4. New(x)
    BY <2>3, ArrivesNew
  <2> QED BY <2>2, <2>3, <2>4 DEF New
<1>3. OnlyMoves(r) /\ req'[r] = x /\ x \in Active /\ x # Idle
  BY <1>1, <1>2, IdleFacts DEF New, RequestType, OnlyMoves
<1>4. Shrinks
  BY <1>1, SameMemory
<1>5. Current' = Current
  BY <1>4, ShrinkFacts
<1>6. Place(r)' /\ ~Checked(r)' /\ ~HasRecord(r)'
  BY <1>2, <1>3 DEF New, Place, PlaceOf, Checked, HasRecord, BySession
<1>7. CredentialOK(r)'
  BY <1>2, <1>3, <1>5, <1>6 DEF New, PlaceOf, CredentialOK
<1>8. SessionOK(r)'
  BY <1>1, <1>2, <1>3, <1>6 DEF New, PlaceOf, SessionOK, BySession
<1>9. DeadOK(r)'
  <2>1. \A s \in acked : sessions[s] = None
    BY <1>1 DEF MemoryType, MemoryOK
  <2> QED BY <1>1, <1>2, <1>3, <2>1 DEF New, PlaceOf, DeadOK
<1>10. RequestOK(r)'
  BY <1>6, <1>7, <1>8, <1>9 DEF RequestOK
<1>11. RequestsOK'
  BY <1>1, <1>3, <1>4, <1>6, <1>10, ShrinkFacts, OneMoves
<1> QED BY <1>3, <1>4, <1>11, ShrinkFacts DEF AuthInv, OnlyMoves

\* A new key: the requests that present it are fresh from now on.
LEMMA RefreshKeeps ==
  ASSUME AuthInv, Refresh, RegistryType', Current' \subseteq {cred'[o] : o \in Owners},
         UNCHANGED <<now, sessions, revoked, stored, acked>>
  PROVE  AuthInv'
<1>1. RequestType /\ MemoryType /\ MemoryOK /\ RequestsOK
  BY DEF AuthInv
<1> DEFINE new == {cred'[o] : o \in Owners}
           f(u) == req[u].fresh \/ req[u].hash \in new
<1>2. ASSUME NEW u \in Requests, req[u] # Idle
      PROVE  /\ req'[u] \in Active
             /\ req'[u].kind = req[u].kind /\ req'[u].step = req[u].step /\ req'[u].hash = req[u].hash
             /\ req'[u].session = req[u].session /\ req'[u].dead = req[u].dead
             /\ req'[u].rec = req[u].rec /\ req'[u].attempts = req[u].attempts
             /\ req'[u].fresh <=> req[u].fresh \/ req[u].hash \in new
  <2>1. req'[u] = [req[u] EXCEPT !.fresh = f(u)] /\ f(u) \in BOOLEAN
    BY <1>2 DEF Refresh
  <2>2. PICK g \in BOOLEAN : g = f(u)
    BY <2>1
  <2>3. g <=> f(u)
    BY <2>2
  <2>4. req[u] \in Active /\ req'[u] = [req[u] EXCEPT !.fresh = g]
    BY <1>1, <1>2, <2>1, <2>2 DEF RequestType
  <2> HIDE DEF f
  <2>5. /\ req'[u] \in Active
        /\ req'[u].kind = req[u].kind /\ req'[u].step = req[u].step /\ req'[u].hash = req[u].hash
        /\ req'[u].session = req[u].session /\ req'[u].dead = req[u].dead
        /\ req'[u].rec = req[u].rec /\ req'[u].attempts = req[u].attempts
        /\ req'[u].fresh = g
    BY <2>4 DEF Active
  <2>6. req'[u].fresh <=> f(u)
    BY <2>3, <2>5, Zenon
  <2> QED BY <2>5, <2>6 DEF f
<1>3. ASSUME NEW u \in Requests, req[u] = Idle
      PROVE  req'[u] = Idle
  BY <1>3 DEF Refresh
<1> HIDE DEF f
<1>4. RequestType'
  <2>1. \A u \in Requests : req'[u] \in Active \cup {Idle}
    BY <1>2, <1>3
  <2>2. req' = [u \in Requests |-> req'[u]]
    BY DEF Refresh
  <2> QED BY <2>1, <2>2 DEF RequestType
<1>5. \A u \in Requests : RequestOK(u)'
  <2> SUFFICES ASSUME NEW u \in Requests, req'[u] # Idle PROVE RequestOK(u)'
    BY DEF RequestOK
  <2>1. req[u] # Idle
    BY <1>3
  <2>2. Place(u) /\ CredentialOK(u) /\ SessionOK(u) /\ DeadOK(u)
    BY <1>1, <2>1 DEF RequestsOK, RequestOK
  <2>3. /\ req'[u].kind = req[u].kind /\ req'[u].step = req[u].step /\ req'[u].hash = req[u].hash
        /\ req'[u].session = req[u].session /\ req'[u].dead = req[u].dead
        /\ req'[u].rec = req[u].rec /\ req'[u].attempts = req[u].attempts
    BY <1>2, <2>1
  <2>4. (req[u].fresh => req'[u].fresh) /\ (req[u].hash \in Current' => req'[u].fresh)
    BY <1>2, <2>1
  <2>5. Place(u)'
    BY <2>2, <2>3 DEF Place, PlaceOf
  <2>6. CredentialOK(u)'
    BY <2>2, <2>3, <2>4 DEF CredentialOK, Checked, Justified
  <2>7. SessionOK(u)' /\ DeadOK(u)'
    BY <2>2, <2>3 DEF SessionOK, DeadOK, BySession, HasRecord, Expired
  <2> QED BY <2>5, <2>6, <2>7 DEF RequestOK
<1>6. ASSUME NEW u \in Requests, NEW w \in Requests
      PROVE  Agree(u, w)'
  <2>1. CASE req[u] = Idle \/ req[w] = Idle
    BY <1>3, <2>1, IdleFacts DEF Agree, HasRecord, BySession
  <2>2. CASE req[u] # Idle /\ req[w] # Idle
    BY <1>1, <1>2, <2>2 DEF RequestsOK, Agree, HasRecord, BySession
  <2> QED BY <2>1, <2>2
<1>7. MemoryType' /\ MemoryOK'
  BY <1>1 DEF MemoryType, MemoryOK
<1> QED BY <1>4, <1>5, <1>6, <1>7 DEF AuthInv, RequestsOK

\* Keys and tenants come and go.
LEMMA RegistryKeeps ==
  ASSUME AuthInv,
         \/ \E o \in Owners, h \in Hashes : RotateKey(o, h)
         \/ \E h \in Hashes : CreateTenant(h)
         \/ DeleteTenant
  PROVE  AuthInv'
<1>1. RegistryType /\ MemoryType /\ MemoryOK /\ RequestsOK /\ RequestType
  BY DEF AuthInv
<1>2. ASSUME NEW o \in Owners, NEW h \in Hashes, RotateKey(o, h)
      PROVE  AuthInv'
  <2>1. /\ cred' = [cred EXCEPT ![o] = h] /\ Refresh
        /\ UNCHANGED <<backend, now, tenant, expiry, sessions, revoked, stored, acked>>
    BY <1>2 DEF RotateKey, Memory, History
  <2>2. RegistryType' /\ Current' \subseteq {cred'[u] : u \in Owners}
    BY <1>1, <2>1 DEF RegistryType, Current
  <2> QED BY <2>1, <2>2, RefreshKeeps
<1>3. ASSUME NEW h \in Hashes, CreateTenant(h)
      PROVE  AuthInv'
  <2>1. /\ tenant' = "active" /\ cred' = [o \in Owners |-> IF o = Root THEN h ELSE None] /\ expiry' = 0
        /\ Refresh /\ UNCHANGED <<backend, now, sessions, revoked, stored, acked>>
    BY <1>3 DEF CreateTenant, Memory, History
  <2>2. RegistryType' /\ Current' \subseteq {cred'[u] : u \in Owners}
    BY <1>1, <2>1 DEF RegistryType, Current
  <2> QED BY <2>1, <2>2, RefreshKeeps
<1>4. CASE DeleteTenant
  <2>1. /\ tenant' = "gone" /\ cred' = [o \in Owners |-> None]
        /\ UNCHANGED <<backend, now, expiry, sessions, revoked, stored, req, acked>>
    BY <1>4 DEF DeleteTenant, Memory, History
  <2>2. RegistryType' /\ MemoryType' /\ MemoryOK' /\ RequestType' /\ Current' = {}
    BY <1>1, <2>1 DEF RegistryType, MemoryType, MemoryOK, RequestType, Current
  <2>3. \A u \in Requests : RequestOK(u)'
    BY <1>1, <2>1, <2>2, KeptRequest DEF RequestsOK, Untouched
  <2>4. \A u, w \in Requests : Agree(u, w)'
    BY <1>1, <2>1 DEF RequestsOK, Agree, HasRecord, BySession
  <2> QED BY <2>2, <2>3, <2>4 DEF AuthInv, RequestsOK
<1> QED BY <1>2, <1>3, <1>4

\* The process dies; the revocations in PostgreSQL stay.
LEMMA RestartKeeps ==
  ASSUME AuthInv, Restart
  PROVE  AuthInv'
<1>1. RegistryType /\ MemoryType
  BY DEF AuthInv
<1>2. /\ req' = [r \in Requests |-> Idle] /\ sessions' = [s \in Sessions |-> None]
      /\ revoked' = [s \in Sessions |-> 0] /\ UNCHANGED <<backend, now, expiry, acked>>
      /\ \/ stored' = [s \in Sessions |-> 0] /\ tenant' = "gone" /\ cred' = [o \in Owners |-> None]
         \/ UNCHANGED <<stored, tenant, cred>>
  BY DEF Restart
<1>3. RegistryType'
  BY <1>1, <1>2 DEF RegistryType
<1>4. MemoryType' /\ MemoryOK' /\ RequestType'
  BY <1>1, <1>2 DEF MemoryType, MemoryOK, RequestType
<1>5. \A r \in Requests : req'[r] = Idle
  BY <1>2
<1>6. RequestsOK'
  BY <1>5, IdleFacts DEF RequestsOK, RequestOK, Agree, HasRecord, BySession
<1> QED BY <1>3, <1>4, <1>6 DEF AuthInv

\* Time passes: a stored revocation expires together with its session.
LEMMA TickKeeps ==
  ASSUME AuthInv, Tick
  PROVE  AuthInv'
<1>1. RegistryType /\ MemoryType /\ MemoryOK /\ RequestsOK /\ RequestType /\ MaxTime \in Nat
  BY AuthAssumption DEF AuthInv
<1>2. /\ now < MaxTime /\ now' = now + 1
      /\ UNCHANGED <<backend, tenant, cred, expiry, sessions, revoked, stored, req, acked>>
  BY DEF Tick, Registry, Memory, History
<1>3. RegistryType' /\ MemoryType' /\ MemoryOK' /\ RequestType' /\ Current' = Current
  BY <1>1, <1>2 DEF RegistryType, MemoryType, MemoryOK, RequestType, Current
<1>4. ASSUME NEW u \in Requests
      PROVE  RequestOK(u)'
  <2> SUFFICES ASSUME req[u] # Idle PROVE RequestOK(u)'
    BY <1>2 DEF RequestOK
  <2>1. Place(u) /\ CredentialOK(u) /\ SessionOK(u) /\ DeadOK(u)
    BY <1>1 DEF RequestsOK, RequestOK
  <2>2. Place(u)' /\ CredentialOK(u)' /\ SessionOK(u)'
    BY <1>2, <1>3, <2>1 DEF Place, CredentialOK, Checked, Justified, SessionOK, BySession, HasRecord
  <2>3. DeadOK(u)'
    <3> SUFFICES ASSUME req[u].kind = "session", req[u].dead
                 PROVE  DeadOK(u)'
      BY <1>2 DEF DeadOK
    <3>1. PICK s \in Sessions : s = req[u].session
      BY <2>1 DEF SessionOK, BySession
    <3>2. now \in Nat /\ stored[s] \in Nat
      BY <1>1 DEF RegistryType, MemoryType
    <3>3. CASE req[u].step = "lookup"
      <4>1. sessions[s] # None => sessions[s].expires \in Nat
        BY <1>1 DEF MemoryType, Record
      <4>2. stored[s] # 0 /\ sessions[s] # None => stored[s] = sessions[s].expires
        BY <1>1 DEF MemoryOK
      <4>3. sessions[s] = None \/ sessions[s].expires <= now \/ stored[s] > now
        BY <2>1, <3>1, <3>3 DEF DeadOK, Expired
      <4>4. sessions[s] = None \/ sessions[s].expires <= now + 1 \/ stored[s] > now + 1
        BY <3>2, <4>1, <4>2, <4>3
      <4> QED BY <1>2, <3>1, <3>3, <4>4 DEF DeadOK, Expired
    <3>4. CASE req[u].step # "lookup"
      <4>1. req[u].rec \in Record /\ (stored[s] # 0 => stored[s] = req[u].rec.expires)
        BY <2>1, <3>1, <3>4 DEF SessionOK, BySession, HasRecord
      <4>2. req[u].rec.expires \in Nat
        BY <4>1 DEF Record
      <4>3. /\ req[u].step \in {"recheck", "stored"} => req[u].rec.expires <= now \/ stored[s] > now
            /\ req[u].step \notin {"recheck", "stored"} => req[u].rec.expires <= now
        BY <2>1, <3>1, <3>4 DEF DeadOK, Expired
      <4>4. /\ req[u].step \in {"recheck", "stored"} => req[u].rec.expires <= now + 1 \/ stored[s] > now + 1
            /\ req[u].step \notin {"recheck", "stored"} => req[u].rec.expires <= now + 1
        BY <3>2, <4>1, <4>2, <4>3
      <4> QED BY <1>2, <3>1, <3>4, <4>4 DEF DeadOK, Expired
    <3> QED BY <3>3, <3>4
  <2> QED BY <2>2, <2>3 DEF RequestOK
<1>5. \A u, w \in Requests : Agree(u, w)'
  BY <1>1, <1>2 DEF RequestsOK, Agree, HasRecord, BySession
<1> QED BY <1>3, <1>4, <1>5 DEF AuthInv, RequestsOK

\* A step that no request takes, while the memory shrinks.
LEMMA NobodyMoves ==
  ASSUME AuthInv, Shrinks, UNCHANGED req
  PROVE  AuthInv'
<1>1. RequestsOK /\ RequestType /\ RequestType'
  BY DEF AuthInv, RequestType
<1>2. \A u \in Requests : RequestOK(u)'
  BY <1>1, ShrinkFacts, KeptRequest DEF RequestsOK
<1>3. \A u, w \in Requests : Agree(u, w)'
  BY <1>1 DEF RequestsOK, Agree, HasRecord, BySession
<1> QED BY <1>1, <1>2, <1>3, ShrinkFacts DEF AuthInv, RequestsOK

\* SweepExpired only removes.
LEMMA SweepKeeps ==
  ASSUME AuthInv, SweepExpired
  PROVE  AuthInv'
<1>1. /\ revoked' = Live(revoked) /\ sessions' = Pruned(Live(revoked))
      /\ UNCHANGED <<backend, now, tenant, cred, expiry, stored, req, acked>>
  BY DEF SweepExpired, Registry, History
<1>2. /\ RegistryType /\ MemoryType /\ MemoryOK /\ revoked \in [Sessions -> Nat]
  BY DEF AuthInv, MemoryType
<1>3. /\ revoked' \in [Sessions -> Nat] /\ sessions' \in [Sessions -> Record \cup {None}]
      /\ \A s \in Sessions : sessions'[s] \in {sessions[s], None}
  <2>1. Live(revoked) \in [Sessions -> Nat]
    BY <1>2, PrunedFacts
  <2>2. /\ Pruned(Live(revoked)) \in [Sessions -> Record \cup {None}]
        /\ \A s \in Sessions : Pruned(Live(revoked))[s] \in {sessions[s], None}
    BY <1>2, <2>1, PrunedFacts
  <2> QED BY <1>1, <2>1, <2>2
<1>4. Shrinks
  BY <1>1, <1>2, <1>3 DEF MemoryType, MemoryOK, Shrinks
<1> QED BY <1>1, <1>4, NobodyMoves

\* The initial states.
LEMMA AuthInit ==
  ASSUME Init
  PROVE  AuthInv
<1>1. /\ backend \in Backends /\ now = 1
      /\ tenant \in {"active", "inactive", "gone"} /\ cred \in [Owners -> Hashes \cup {None}]
      /\ expiry \in {0, 1}
      /\ sessions = [s \in Sessions |-> None]
      /\ revoked = [s \in Sessions |-> 0] /\ stored = [s \in Sessions |-> 0]
      /\ req = [r \in Requests |-> Idle] /\ acked = {}
  BY DEF Init
<1>2. RegistryType
  BY <1>1, AuthAssumption DEF RegistryType
<1>3. MemoryType /\ MemoryOK /\ RequestType
  BY <1>1 DEF MemoryType, MemoryOK, RequestType
<1>4. \A r \in Requests : req[r] = Idle
  BY <1>1
<1>5. RequestsOK
  BY <1>4, IdleFacts DEF RequestsOK, RequestOK, Agree
<1> QED BY <1>2, <1>3, <1>5 DEF AuthInv

\* Sessions, revocations and requests keep the invariant.
THEOREM AuthInvariant == Spec => []AuthInv
<1>1. Init => AuthInv
  BY AuthInit
<1>2. ASSUME AuthInv, [Next]_vars
      PROVE  AuthInv'
  <2>1. ASSUME NEW r \in Requests, Step(r)
        PROVE  AuthInv'
    BY <1>2, <2>1, LookupKeeps, LocalKeeps, CreateKeeps, LookupSessionKeeps, RecheckKeeps,
       PrincipalKeeps, RevokeStoredKeeps, RevokeMarkedKeeps, ServeKeeps DEF Step
  <2>2. CASE UNCHANGED vars
    <3>1. UNCHANGED <<backend, now, tenant, cred, expiry, sessions, revoked, stored, req, acked>>
      BY <2>2 DEF vars
    <3> QED BY <1>2, <3>1, SameMemory, NobodyMoves
  <2> QED BY <1>2, <2>1, <2>2, BeginKeeps, RegistryKeeps, RestartKeeps, TickKeeps, SweepKeeps DEF Next
<1> QED BY <1>1, <1>2, PTL DEF Spec

\* tenantAuthMiddleware serves a request only with a credential that was current at
\* some moment of the request, or in a local session.
THEOREM ServedIsCurrent == Spec => []ServedCredentialIsCurrent
<1>1. AuthInv => ServedCredentialIsCurrent
  <2> SUFFICES ASSUME AuthInv, NEW r \in Requests, Served(r)
               PROVE  req[r].fresh \/ (req[r].kind = "session" /\ req[r].rec.mode = "local")
    BY DEF ServedCredentialIsCurrent
  <2>1. req[r] # Idle
    BY IdleFacts DEF Served
  <2> QED BY <2>1 DEF AuthInv, RequestsOK, RequestOK, CredentialOK, Checked, Served, Justified
<1> QED BY <1>1, AuthInvariant, PTL

-----------------------------------------------------------------------------
\* The limiter keeps its invariant.

\* Subsets of what was admitted are finite, and no larger.
LEMMA AdmittedSets ==
  ASSUME NEW S, IsFiniteSet(S), NEW T \in SUBSET S
  PROVE  IsFiniteSet(T) /\ Cardinality(T) \in Nat /\ Cardinality(S) \in Nat
         /\ Cardinality(T) <= Cardinality(S)
BY FS_Subset, FS_CardinalityType

\* One more element adds at most one.
LEMMA OneMore ==
  ASSUME NEW S, IsFiniteSet(S), NEW x
  PROVE  IsFiniteSet(S \cup {x}) /\ Cardinality(S \cup {x}) <= Cardinality(S) + 1
<1>1. IsFiniteSet(S \cup {x}) /\ Cardinality(S \cup {x}) =
        IF x \in S THEN Cardinality(S) ELSE Cardinality(S) + 1
  BY FS_AddElement
<1>2. Cardinality(S) \in Nat
  BY FS_CardinalityType
<1> QED BY <1>1, <1>2

\* allow: a request that is admitted.
LEMMA AdmitKeeps ==
  ASSUME LimitInv, UNCHANGED now, NEW r \in Requests, RateLimit(r), ~UNCHANGED <<bucket, admitted>>
  PROVE  LimitInv'
<1>1. /\ now \in Nat /\ now > 0 /\ Window \in Nat /\ Window > 0 /\ Limit \in Nat /\ Limit > 0
      /\ bucket.start \in Nat /\ bucket.start <= now /\ bucket.count \in Nat /\ bucket.count <= Limit
      /\ now \in 1 .. MaxTime
  BY AuthAssumption DEF LimitInv
<1>2. PICK b : b = IF bucket.start = 0 \/ now - bucket.start >= Window
                   THEN [start |-> now, count |-> 0] ELSE bucket
  OBVIOUS
<1>3. ~(b.count >= Limit) /\ bucket' = [b EXCEPT !.count = @ + 1] /\ admitted' = Admitting
  BY <1>2 DEF RateLimit
<1>4. b \in [start : Nat, count : Nat]
  BY <1>1, <1>2 DEF LimitInv
<1>5. bucket' \in [start : Nat, count : Nat] /\ bucket'.start = b.start /\ bucket'.count = b.count + 1
  BY <1>3, <1>4
<1>6. PICK x : x = [time |-> now, nth |-> 1 + Cardinality({a \in admitted : a.time = now})]
  OBVIOUS
<1>7. x \in [time : 1 .. now, nth : Nat] /\ x.time = now
  <2>1. {a \in admitted : a.time = now} \in SUBSET admitted /\ IsFiniteSet(admitted)
    BY DEF LimitInv
  <2>2. PICK n \in Nat : n = Cardinality({a \in admitted : a.time = now})
    BY <2>1, AdmittedSets
  <2>3. x = [time |-> now, nth |-> 1 + n]
    BY <1>6, <2>2
  <2> QED BY <1>1, <2>3
<1>8. admitted' = Recent \cup {x} /\ Recent \subseteq admitted
  BY <1>3, <1>6 DEF Admitting, Recent
<1>9. IsFiniteSet(Recent) /\ IsFiniteSet(admitted')
  <2>1. IsFiniteSet(Recent)
    BY <1>8, AdmittedSets DEF LimitInv
  <2> QED BY <1>8, <2>1, OneMore
<1>10. admitted' \subseteq [time : 1 .. now, nth : Nat]
  BY <1>7, <1>8 DEF LimitInv
<1>11. \A a \in admitted : a.time \in Nat /\ a.time <= now /\ a.time < bucket.start + Window
  BY <1>1 DEF LimitInv
<1>12. \A a \in Recent : a \in admitted /\ a.time + Window > now
  BY DEF Recent
<1>13. IsFiniteSet(InBucket) /\ IsFiniteSet(BeforeBucket) /\ Cardinality(InBucket) \in Nat
       /\ Cardinality(BeforeBucket) \in Nat
  <2>1. InBucket \in SUBSET admitted /\ BeforeBucket \in SUBSET admitted /\ IsFiniteSet(admitted)
    BY DEF InBucket, BeforeBucket, LimitInv
  <2> QED BY <2>1, AdmittedSets
<1>14. CASE bucket.start = 0 \/ now - bucket.start >= Window
  <2>1. bucket'.start = now /\ bucket'.count = 1
    <3>1. b = [start |-> now, count |-> 0]
      BY <1>2, <1>14
    <3> QED BY <1>5, <3>1
  <2>2. \A a \in admitted : a.time < now
    <3>1. CASE bucket.start = 0
      BY <3>1 DEF LimitInv
    <3>2. CASE now - bucket.start >= Window
      BY <1>1, <1>11, <3>2
    <3> QED BY <1>14, <3>1, <3>2
  <2>3. Cardinality(InBucket') <= 1
    <3>1. InBucket' \in SUBSET {x}
      BY <1>1, <1>8, <1>11, <2>1, <2>2 DEF InBucket
    <3>2. IsFiniteSet({x}) /\ Cardinality({x}) = 1
      BY FS_Singleton
    <3> QED BY <3>1, <3>2, AdmittedSets
  <2>4. Cardinality(BeforeBucket') <= Limit
    <3>1. BeforeBucket' \in SUBSET InBucket
      <4> SUFFICES ASSUME NEW a \in BeforeBucket' PROVE a \in InBucket
        OBVIOUS
      <4>1. a \in admitted' /\ a.time < now
        BY <2>1 DEF BeforeBucket
      <4>2. a \in Recent
        BY <1>1, <1>7, <1>8, <4>1
      <4>3. a \in admitted /\ a.time + Window > now /\ a.time \in Nat
        BY <1>11, <1>12, <4>2
      <4>4. CASE bucket.start = 0
        BY <4>3, <4>4 DEF LimitInv
      <4>5. CASE now - bucket.start >= Window
        <5>1. a.time >= bucket.start
          BY <1>1, <4>3, <4>5
        <5> QED BY <4>3, <5>1 DEF InBucket
      <4> QED BY <1>14, <4>4, <4>5
    <3>2. Cardinality(BeforeBucket') <= Cardinality(InBucket) /\ Cardinality(BeforeBucket') \in Nat
      BY <1>13, <3>1, AdmittedSets
    <3>3. Cardinality(InBucket) <= bucket.count
      BY DEF LimitInv
    <3> QED BY <1>1, <1>13, <3>2, <3>3
  <2>5. bucket' \in [start : 0 .. now, count : 0 .. Limit]
    BY <1>1, <1>5, <2>1
  <2>6. \A a \in admitted' : a.time < bucket'.start + Window
    BY <1>1, <1>7, <1>8, <1>11, <2>1, <2>2
  <2> QED BY <1>1, <1>9, <1>10, <2>1, <2>3, <2>4, <2>5, <2>6 DEF LimitInv
<1>15. CASE ~(bucket.start = 0 \/ now - bucket.start >= Window)
  <2>1. bucket'.start = bucket.start /\ bucket'.count = bucket.count + 1 /\ bucket.count < Limit
    BY <1>1, <1>2, <1>3, <1>5, <1>15
  <2>2. Cardinality(InBucket') <= bucket'.count
    <3>1. InBucket' \in SUBSET (InBucket \cup {x})
      BY <1>8, <2>1 DEF InBucket
    <3>2. IsFiniteSet(InBucket \cup {x}) /\ Cardinality(InBucket \cup {x}) <= Cardinality(InBucket) + 1
      BY <1>13, OneMore
    <3>3. /\ Cardinality(InBucket') <= Cardinality(InBucket \cup {x}) /\ Cardinality(InBucket') \in Nat
          /\ Cardinality(InBucket \cup {x}) \in Nat
      BY <3>1, <3>2, AdmittedSets
    <3>4. Cardinality(InBucket) <= bucket.count
      BY DEF LimitInv
    <3> QED BY <1>1, <1>13, <2>1, <3>2, <3>3, <3>4
  <2>3. Cardinality(BeforeBucket') <= Limit
    <3>1. BeforeBucket' \in SUBSET BeforeBucket
      BY <1>1, <1>7, <1>8, <2>1 DEF BeforeBucket
    <3>2. Cardinality(BeforeBucket') <= Cardinality(BeforeBucket) /\ Cardinality(BeforeBucket') \in Nat
      BY <1>13, <3>1, AdmittedSets
    <3>3. Cardinality(BeforeBucket) <= Limit
      BY DEF LimitInv
    <3> QED BY <1>1, <1>13, <3>2, <3>3
  <2>4. bucket' \in [start : 0 .. now, count : 0 .. Limit] /\ bucket'.start # 0
    BY <1>1, <1>5, <1>15, <2>1
  <2>5. \A a \in admitted' : a.time < bucket'.start + Window
    BY <1>1, <1>7, <1>8, <1>11, <1>15, <2>1
  <2> QED BY <1>1, <1>9, <1>10, <2>2, <2>3, <2>4, <2>5 DEF LimitInv
<1> QED BY <1>14, <1>15

\* Time passes, or nothing happens to the limiter.
LEMMA LimitFrame ==
  ASSUME LimitInv, UNCHANGED <<bucket, admitted>>, now' \in {now, now + 1}, now' <= MaxTime
  PROVE  LimitInv'
<1>1. now \in Nat /\ now > 0 /\ now' \in Nat /\ MaxTime \in Nat
  BY AuthAssumption DEF LimitInv
<1>2. InBucket' = InBucket /\ BeforeBucket' = BeforeBucket
  BY DEF InBucket, BeforeBucket
<1>3. now' \in 1 .. MaxTime /\ bucket' \in [start : 0 .. now', count : 0 .. Limit]
  BY <1>1 DEF LimitInv
<1>4. admitted' \subseteq [time : 1 .. now', nth : Nat]
  BY <1>1 DEF LimitInv
<1> QED BY <1>2, <1>3, <1>4 DEF LimitInv

\* The invariant of the limiter.
THEOREM LimitInvariant == Spec => []LimitInv
<1>1. ASSUME Init
      PROVE  LimitInv
  <2>1. now = 1 /\ bucket = [start |-> 0, count |-> 0] /\ admitted = {} /\ MaxTime \in Nat /\ MaxTime > 0
    BY <1>1, AuthAssumption DEF Init
  <2>2. InBucket = {} /\ BeforeBucket = {}
    BY <2>1 DEF InBucket, BeforeBucket
  <2> QED BY <2>1, <2>2, FS_EmptySet, AuthAssumption DEF LimitInv
<1>2. ASSUME LimitInv, [Next]_vars
      PROVE  LimitInv'
  <2>1. now <= MaxTime /\ now \in Nat /\ MaxTime \in Nat
    BY <1>2, AuthAssumption DEF LimitInv
  <2>2. ASSUME UNCHANGED <<now, bucket, admitted>>
        PROVE  LimitInv'
    BY <1>2, <2>1, <2>2, LimitFrame
  <2>3. ASSUME NEW r \in Requests, Step(r)
        PROVE  LimitInv'
    <3>1. CASE RateLimit(r)
      <4>1. UNCHANGED now
        BY <3>1 DEF RateLimit
      <4> QED BY <1>2, <2>2, <3>1, <4>1, AdmitKeeps
    <3>2. CASE ~RateLimit(r)
      <4>1. UNCHANGED <<now, bucket, admitted>>
        BY <2>3, <3>2 DEF Step, MemLookupCredential, PgLookupRegistry, PgLookupTenant, ConfirmTenant,
             CreateCredential, LocalNoKeys, LocalFallback, CreateLocal, LookupSession, RecheckRevoked,
             CheckStored, SessionPrincipal, RevokeStored, RevokeMarked, Finish, Rest, History
      <4> QED BY <2>2, <4>1
    <3> QED BY <3>1, <3>2
  <2>4. CASE Begin \/ DeleteTenant \/ SweepExpired \/ UNCHANGED vars
    <3>1. UNCHANGED <<now, bucket, admitted>>
      BY <2>4 DEF Begin, DeleteTenant, SweepExpired, vars, History
    <3> QED BY <2>2, <3>1
  <2>5. ASSUME NEW h \in Hashes, CreateTenant(h) \/ \E o \in Owners : RotateKey(o, h)
        PROVE  LimitInv'
    <3>1. UNCHANGED <<now, bucket, admitted>>
      BY <2>5 DEF CreateTenant, RotateKey, History
    <3> QED BY <2>2, <3>1
  <2>6. CASE Tick
    <3>1. now < MaxTime /\ now' = now + 1 /\ UNCHANGED <<bucket, admitted>>
      BY <2>6 DEF Tick, History
    <3> QED BY <1>2, <2>1, <3>1, LimitFrame
  <2>7. CASE Restart
    <3>1. bucket' = [start |-> 0, count |-> 0] /\ admitted' = {} /\ now' = now
      BY <2>7 DEF Restart
    <3>2. InBucket' = {} /\ BeforeBucket' = {}
      BY <3>1 DEF InBucket, BeforeBucket
    <3>3. now' \in 1 .. MaxTime
      BY <1>2, <3>1 DEF LimitInv
    <3> QED BY <2>1, <3>1, <3>2, <3>3, FS_EmptySet, AuthAssumption DEF LimitInv
  <2> QED BY <1>2, <2>3, <2>4, <2>5, <2>6, <2>7 DEF Next
<1> QED BY <1>1, <1>2, PTL DEF Spec

\* tenantRateLimiter.allow, with its fixed windows, admits at most two budgets in any
\* span of one window.
THEOREM AdmissionsBounded == Spec => []AdmissionsPerWindow
<1>1. LimitInv => AdmissionsPerWindow
  <2> SUFFICES ASSUME LimitInv PROVE Cardinality(Recent) <= 2 * Limit
    BY DEF AdmissionsPerWindow
  <2>1. /\ InBucket \in SUBSET admitted /\ BeforeBucket \in SUBSET admitted /\ IsFiniteSet(admitted)
    BY DEF InBucket, BeforeBucket, LimitInv
  <2>2. /\ IsFiniteSet(InBucket) /\ IsFiniteSet(BeforeBucket)
        /\ Cardinality(InBucket) \in Nat /\ Cardinality(BeforeBucket) \in Nat
    BY <2>1, AdmittedSets
  <2>3. Recent \in SUBSET (InBucket \cup BeforeBucket)
    <3>1. \A a \in admitted : a.time \in Nat
      BY DEF LimitInv
    <3>2. bucket.start \in Nat /\ bucket.start <= now /\ now \in Nat /\ Window \in Nat
      BY AuthAssumption DEF LimitInv
    <3> QED BY <3>1, <3>2 DEF Recent, InBucket, BeforeBucket
  <2>4. /\ IsFiniteSet(InBucket \cup BeforeBucket)
        /\ Cardinality(InBucket \cup BeforeBucket) <= Cardinality(InBucket) + Cardinality(BeforeBucket)
    <3>1. IsFiniteSet(InBucket \cup BeforeBucket) /\ IsFiniteSet(InBucket \cap BeforeBucket)
          /\ Cardinality(InBucket \cup BeforeBucket) =
               Cardinality(InBucket) + Cardinality(BeforeBucket) - Cardinality(InBucket \cap BeforeBucket)
      BY <2>2, FS_Union, FS_Intersection
    <3>2. Cardinality(InBucket \cap BeforeBucket) \in Nat
      BY <3>1, FS_CardinalityType
    <3> QED BY <2>2, <3>1, <3>2
  <2>5. /\ Cardinality(Recent) <= Cardinality(InBucket \cup BeforeBucket)
        /\ Cardinality(Recent) \in Nat /\ Cardinality(InBucket \cup BeforeBucket) \in Nat
    BY <2>3, <2>4, AdmittedSets
  <2>6. /\ Cardinality(InBucket) <= bucket.count /\ Cardinality(BeforeBucket) <= Limit
        /\ bucket.count \in 0 .. Limit /\ Limit \in Nat
    BY AuthAssumption DEF LimitInv
  <2> QED BY <2>2, <2>4, <2>5, <2>6
<1> QED BY <1>1, LimitInvariant, PTL

\* Revoke holds against everything that was under way: whatever stood between the
\* store, the audit event and the memory, no request that began later is served from
\* the session before it expires, and a reported revocation is final.
THEOREM RevocationsHold == Spec => []RevocationHolds
<1>1. AuthInv /\ LimitInv => RevocationHolds
  <2> SUFFICES ASSUME AuthInv, LimitInv PROVE RevocationHolds
    OBVIOUS
  <2>1. AuthTypeOK
    BY DEF AuthInv, RegistryType, MemoryType, LimitInv, AuthTypeOK
  <2>2. RevokedIsNeverServed
    <3> SUFFICES ASSUME NEW r \in Requests, Served(r), req[r].dead
                 PROVE  Expired(req[r].rec)
      BY DEF RevokedIsNeverServed
    <3>1. req[r] # Idle
      BY IdleFacts DEF Served
    <3>2. Place(r) /\ DeadOK(r) /\ CredentialOK(r)
      BY <3>1 DEF AuthInv, RequestsOK, RequestOK
    <3>3. req[r].kind = "session"
      BY <3>2 DEF Place, PlaceOf, CredentialOK, Served
    <3> QED BY <3>2, <3>3 DEF DeadOK, Served
  <2>3. RevocationIsFinal
    BY DEF AuthInv, MemoryType, MemoryOK, RevocationIsFinal
  <2> QED BY <2>1, <2>2, <2>3 DEF RevocationHolds
<1> QED BY <1>1, AuthInvariant, LimitInvariant, PTL

=============================================================================
