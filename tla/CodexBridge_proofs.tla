------------------------- MODULE CodexBridge_proofs -------------------------
(***************************************************************************)
(* Proofs about CodexBridge, for every number of bridges, requests,        *)
(* retries, posts and pairs, every way to spread the requests, every kind  *)
(* of token age and every set of faults: the inductive invariant IInv and  *)
(* the properties it gives.                                                *)
(***************************************************************************)
EXTENDS CodexBridge, FiniteSetTheorems, TLAPS

USE CodexAssumption DEF CodexAssumption, AllFaults, AllAges

LEMMA InitIInv == Init => IInv
<1> SUFFICES ASSUME Init PROVE IInv
    OBVIOUS
<1>1. Idle \in Refreshes /\ Idle.at = "idle"
    BY DEF Idle, Refreshes
<1>2. Fresh \in Calls /\ Fresh.at = "token" /\ Fresh.tok = 0 /\ Fresh.attempt = 0 /\ ~Fresh.reloaded
    BY DEF Fresh, Calls
<1>3. TypeOK
    BY <1>1, <1>2 DEF Init, TypeOK, Pairs, Creds, NoCreds
<1>4. RetriesCounted /\ LockHeld /\ NewestOnly
    BY <1>1, <1>2 DEF Init, RetriesCounted, Holds, LockHeld, NewestOnly, NoCreds
<1>5. Unshared /\ Untroubled /\ GrantKept
    BY <1>1, <1>2 DEF Init, Unshared, Unwritten, Untroubled, GrantKept, NoCreds
<1>6. NotBack
    BY <1>2 DEF Init, NotBack
<1>7. QED
    BY <1>3, <1>4, <1>5, <1>6 DEF IInv

-----------------------------------------------------------------------------
(* What the steps do.                                                      *)

\* A request that has sent, or gets no token: it ends, goes back for a token, or has its answer refused.
Moved(r, q, c) ==
    /\ req' = [req EXCEPT ![r] = q] /\ cache' = [cache EXCEPT ![home[r]] = c]
    /\ q \in Calls /\ q.at \in {"token", "refused", "done"}
    /\ q.attempt <= MaxRetries + (IF q.reloaded THEN 1 ELSE 0)
    /\ q.at = "refused" => req[r].at = "send"
    /\ q.tok = IF q.at = "refused" THEN req[r].tok ELSE 0
    /\ c \in {cache[home[r]], NoCreds}
    /\ c # cache[home[r]] => refresh[home[r]].at = "idle"
    /\ q.reloaded =>
          \/ req[r].reloaded /\ q.first = req[r].first /\ q.file = req[r].file
          \/ req[r].at = "refused" /\ q.first = req[r].tok /\ q.file = doc.pair /\ c = NoCreds

Sent(r) == Unread(r) \/ Busy(r) \/ Passthrough(r) \/ Aggregate(r) \/ Refuse(r) \/ Unauthorized(r)

LEMMA DoneType ==
    ASSUME NEW how \in {"none", "credentials", "error", "passed", "answered", "unauthorized"}
    PROVE  /\ Done(how) \in Calls /\ Done(how).at = "done" /\ Done(how).tok = 0
           /\ Done(how).attempt = 0 /\ ~Done(how).reloaded
           /\ Done(how).first = 0 /\ Done(how).file = 0
<1>1. Fresh \in Calls /\ Fresh.tok = 0 /\ Fresh.attempt = 0 /\ ~Fresh.reloaded
      /\ Fresh.first = 0 /\ Fresh.file = 0
    BY DEF Fresh, Calls
<1>2. QED
    BY <1>1 DEF Done, Calls

\* A call that goes back for a token.
LEMMA RetryType ==
    ASSUME NEW q \in Calls, q.attempt <= MaxRetries
    PROVE  /\ Retry(q) \in Calls /\ Retry(q).at = "token" /\ Retry(q).tok = 0
           /\ Retry(q).attempt = q.attempt + 1 /\ Retry(q).reloaded = q.reloaded
           /\ Retry(q).first = q.first /\ Retry(q).file = q.file
<1>1. q.attempt + 1 \in 0..(MaxRetries + 1) /\ 0 \in 0..MaxPairs /\ FALSE \in BOOLEAN
    BY DEF Calls
<1>2. ASSUME NEW n \in 0..(MaxRetries + 1)
      PROVE  [q EXCEPT !.at = "token", !.attempt = n, !.tok = 0, !.blind = FALSE] \in Calls
    BY <1>1, ZenonT(30) DEF Calls
<1>3. Retry(q) \in Calls
    BY <1>1, <1>2 DEF Retry
<1>4. QED
    BY <1>3 DEF Retry, Calls

LEMMA SentMoves ==
    ASSUME TypeOK, RetriesCounted, NEW r \in Requests, Sent(r)
    PROVE  /\ req[r].at \in {"token", "account", "send", "refused"} /\ Kept
           /\ \E q \in Calls, c \in Creds \cup {NoCreds} : Moved(r, q, c)
<1> DEFINE b == home[r]
<1>1. b \in Bridges /\ cache[b] \in Creds \cup {NoCreds} /\ req[r] \in Calls /\ doc \in Creds
    BY DEF TypeOK
<1>2. cache = [cache EXCEPT ![b] = cache[b]]
    BY <1>1 DEF TypeOK
<1>3. ASSUME NEW how \in {"credentials", "error", "passed", "unauthorized"}, req' = [req EXCEPT ![r] = Done(how)],
             NEW c \in {cache[b], NoCreds}, cache' = [cache EXCEPT ![b] = c],
             c # cache[b] => refresh[b].at = "idle"
      PROVE  Moved(r, Done(how), c)
    BY <1>3, DoneType DEF Moved
<1>4. ASSUME req[r].at = "send", req[r].attempt < MaxRetries,
             req' = [req EXCEPT ![r] = Retry(req[r])], UNCHANGED cache
      PROVE  Retry(req[r]) \in Calls /\ Moved(r, Retry(req[r]), cache[b])
    BY <1>1, <1>2, <1>4, RetryType, SMTT(40) DEF Moved, Calls
<1>5. ASSUME req[r].at = "send", req' = [req EXCEPT ![r] = RetryOr(req[r], "error")], UNCHANGED cache
      PROVE  \E q \in Calls : Moved(r, q, cache[b])
    <2>1. CASE req[r].attempt < MaxRetries
        BY <1>4, <1>5, <2>1 DEF RetryOr
    <2>2. CASE ~(req[r].attempt < MaxRetries)
        BY <1>2, <1>3, <1>5, <2>2, DoneType DEF RetryOr
    <2>3. QED
        BY <2>1, <2>2
<1>6. CASE Busy(r)
    <2>1. CASE req' = [req EXCEPT ![r] = RetryOr(req[r], "error")]
        BY <1>1, <1>5, <1>6, <2>1 DEF Busy
    <2>2. CASE req' = [req EXCEPT ![r] = Done("error")]
        BY <1>1, <1>2, <1>3, <1>6, <2>2, DoneType DEF Busy
    <2>3. QED
        BY <1>6, <2>1, <2>2 DEF Busy
<1>7. CASE Passthrough(r)
    BY <1>1, <1>2, <1>3, <1>7, DoneType DEF Passthrough
<1>8. CASE Aggregate(r)
    <2> PICK s \in Streams :
         \/ /\ req' = [req EXCEPT ![r] = [Done("answered") EXCEPT !.events = s]]
            /\ UNCHANGED cache
         \/ /\ req' = [req EXCEPT ![r] = RetryOr(@, "error")]
            /\ UNCHANGED cache
         \/ /\ refresh[b].at = "idle"
            /\ req' = [req EXCEPT ![r] = Done("error")]
            /\ \E c \in {cache[b], NoCreds} : cache' = [cache EXCEPT ![b] = c]
        BY <1>8 DEF Aggregate
    <2>1. CASE req' = [req EXCEPT ![r] = [Done("answered") EXCEPT !.events = s]] /\ UNCHANGED cache
        <3> DEFINE q == [Done("answered") EXCEPT !.events = s]
        <3>1. \A p \in Calls : [p EXCEPT !.events = s] \in Calls
            BY Zenon DEF Calls
        <3>2. q \in Calls /\ q.at = "done" /\ q.tok = 0 /\ q.attempt = 0 /\ ~q.reloaded
            BY <3>1, DoneType DEF Calls
        <3>3. req' = [req EXCEPT ![r] = q]
            BY <2>1
        <3> HIDE DEF q
        <3>4. Moved(r, q, cache[b])
            <4>1. cache' = [cache EXCEPT ![home[r]] = cache[b]]
                BY <1>2, <2>1
            <4>2. q.attempt <= MaxRetries + (IF q.reloaded THEN 1 ELSE 0)
                BY <3>2
            <4>3. q.tok = IF q.at = "refused" THEN req[r].tok ELSE 0
                BY <3>2
            <4>4. QED
                BY <4>1, <4>2, <4>3, <3>2, <3>3 DEF Moved
        <3>5. QED
            BY <1>1, <1>8, <3>2, <3>4 DEF Aggregate
    <2>2. CASE req' = [req EXCEPT ![r] = RetryOr(@, "error")] /\ UNCHANGED cache
        BY <1>1, <1>5, <1>8, <2>2 DEF Aggregate
    <2>3. ASSUME refresh[b].at = "idle", req' = [req EXCEPT ![r] = Done("error")],
                 NEW c \in {cache[b], NoCreds}, cache' = [cache EXCEPT ![b] = c]
          PROVE  \E q \in Calls, d \in Creds \cup {NoCreds} : Moved(r, q, d)
        BY <1>1, <1>3, <2>3, DoneType
    <2>4. QED
        BY <1>8, <2>1, <2>2, <2>3 DEF Aggregate
<1>9. CASE Refuse(r)
    <2> DEFINE q == [req[r] EXCEPT !.at = "refused"]
    <2>1. q \in Calls
        BY <1>1 DEF Calls
    <2>2. Moved(r, q, cache[b])
        BY <1>1, <1>2, <1>9, <2>1 DEF Refuse, Moved, Calls, RetriesCounted
    <2>3. QED
        BY <1>1, <1>9, <2>1, <2>2 DEF Refuse
<1>10. CASE Unauthorized(r)
    <2> DEFINE q == [Retry(req[r]) EXCEPT !.reloaded = TRUE, !.first = req[r].tok, !.file = doc.pair]
    <2>1. CASE req[r].reloaded
        BY <1>1, <1>3, <1>10, <2>1, DoneType DEF Unauthorized
    <2>2. CASE ~req[r].reloaded
        <3>1. req[r].attempt <= MaxRetries /\ doc.pair \in 0..MaxPairs
            BY <1>1, <2>2 DEF RetriesCounted, Creds, Pairs
        <3>2. /\ Retry(req[r]) \in Calls /\ TRUE \in BOOLEAN
              /\ req[r].tok \in 0..MaxPairs /\ doc.pair \in 0..MaxPairs
            BY <1>1, <3>1, RetryType DEF Calls
        <3>3. ASSUME NEW p \in Calls
              PROVE  [p EXCEPT !.reloaded = TRUE, !.first = req[r].tok, !.file = doc.pair] \in Calls
            BY <3>2, Zenon DEF Calls
        <3>4. q \in Calls /\ q.at = "token" /\ q.tok = 0 /\ q.reloaded /\ q.first = req[r].tok
              /\ q.file = doc.pair /\ q.attempt = req[r].attempt + 1
            <4> DEFINE p == Retry(req[r])
            <4>1. p \in Calls /\ p.at = "token" /\ p.tok = 0 /\ p.attempt = req[r].attempt + 1
                BY <1>1, <3>1, RetryType
            <4>2. q = [p EXCEPT !.reloaded = TRUE, !.first = req[r].tok, !.file = doc.pair]
                OBVIOUS
            <4> HIDE DEF p, q
            <4>3. q \in Calls
                BY <4>1, <4>2, <3>3
            <4>4. QED
                BY <4>1, <4>2, <4>3 DEF Calls
        <3>5. req' = [req EXCEPT ![r] = q]
            BY <1>10, <2>2, <1>1 DEF Unauthorized, TypeOK
        <3> HIDE DEF q
        <3>6. Moved(r, q, NoCreds)
            <4>1. cache' = [cache EXCEPT ![home[r]] = NoCreds]
                BY <1>10 DEF Unauthorized
            <4>2. q.attempt <= MaxRetries + (IF q.reloaded THEN 1 ELSE 0)
                BY <1>1, <3>1, <3>4 DEF Calls
            <4>3. req[r].at = "refused" /\ refresh[home[r]].at = "idle"
                BY <1>10 DEF Unauthorized
            <4>4. QED
                BY <4>1, <4>2, <4>3, <3>4, <3>5 DEF Moved
        <3>7. QED
            BY <1>1, <1>10, <3>4, <3>6 DEF Unauthorized
    <2>3. QED
        BY <2>1, <2>2
<1>11. CASE Unread(r)
    BY <1>1, <1>2, <1>3, <1>11, DoneType DEF Unread
<1>12. QED
    BY <1>6, <1>7, <1>8, <1>9, <1>10, <1>11 DEF Sent

\* A refresh under way goes on, with creds c.
Continues(b, x, c) ==
    /\ refresh' = [refresh EXCEPT ![b] = x] /\ cache' = [cache EXCEPT ![b] = c]
    /\ x \in Refreshes /\ x.at \in {"post", "write"} /\ x.by = refresh[b].by
    /\ c \in Creds
    /\ UNCHANGED req

\* A refresh ends: its request has the token of c, or is answered.
Ends(b, q, c) ==
    /\ refresh' = [refresh EXCEPT ![b] = Idle] /\ cache' = [cache EXCEPT ![b] = c]
    /\ req' = [req EXCEPT ![refresh[b].by] = q]
    /\ q \in Calls /\ c \in Creds
    /\ \/ /\ q.at = "account" /\ q.tok = c.pair /\ q.attempt = req[refresh[b].by].attempt
          /\ q.reloaded = req[refresh[b].by].reloaded
          /\ q.first = req[refresh[b].by].first /\ q.file = req[refresh[b].by].file
       \/ /\ q.at = "done" /\ q.tok = 0 /\ q.attempt = 0 /\ ~q.reloaded /\ c = cache[b]
    /\ flock' = flock \ {b}

LEMMA IdleType == Idle \in Refreshes /\ Idle.at = "idle"
BY DEF Idle, Refreshes

LEMMA GotTokenType ==
    ASSUME NEW q \in Calls, NEW c \in Creds
    PROVE  /\ GotToken(q, c) \in Calls /\ GotToken(q, c).at = "account" /\ GotToken(q, c).tok = c.pair
           /\ GotToken(q, c).attempt = q.attempt /\ GotToken(q, c).reloaded = q.reloaded
           /\ GotToken(q, c).first = q.first /\ GotToken(q, c).file = q.file
<1>1. c.pair \in 0..MaxPairs /\ (c.ageof = 0) \in BOOLEAN
    BY DEF Creds, Pairs
<1>2. ASSUME NEW f \in BOOLEAN, NEW k \in 0..MaxPairs
      PROVE  [q EXCEPT !.at = "account", !.tok = k, !.blind = f] \in Calls
    BY Zenon DEF Calls
<1>3. GotToken(q, c) \in Calls
    BY <1>1, <1>2 DEF GotToken
<1>4. QED
    BY <1>3 DEF GotToken, Calls

LEMMA ReturnsEnds ==
    ASSUME TypeOK, LockHeld, NEW b \in Bridges, NEW c \in Creds, Returns(b, c)
    PROVE  \E q \in Calls : Ends(b, q, c) /\ q.at = "account"
<1> DEFINE r == refresh[b].by  q == GotToken(req[r], c)
<1>1. r \in Requests /\ req[r] \in Calls
    BY DEF TypeOK, Refreshes
<1>2. req' = [req EXCEPT ![r] = q]
    BY DEF Returns
<1>3. q \in Calls /\ q.at = "account" /\ q.tok = c.pair /\ q.attempt = req[r].attempt
      /\ q.reloaded = req[r].reloaded /\ q.first = req[r].first /\ q.file = req[r].file
    BY <1>1, GotTokenType
<1> HIDE DEF q
<1>4. Ends(b, q, c)
    BY <1>2, <1>3 DEF Ends, Returns
<1>5. QED
    BY <1>3, <1>4

LEMMA RaisesEnds ==
    ASSUME TypeOK, LockHeld, NEW b \in Bridges, refresh[b].at # "idle", Raises(b)
    PROVE  \E q \in Calls : Ends(b, q, cache[b]) /\ q.at = "done"
<1> DEFINE q == Done("credentials")
<1>1. q \in Calls /\ q.at = "done" /\ q.tok = 0 /\ q.attempt = 0 /\ ~q.reloaded
    BY DoneType
<1>2. cache' = [cache EXCEPT ![b] = cache[b]] /\ cache[b] \in Creds
    BY DEF Raises, TypeOK, LockHeld
<1>3. req' = [req EXCEPT ![refresh[b].by] = q]
    BY DEF Raises
<1> HIDE DEF q
<1>4. Ends(b, q, cache[b])
    BY <1>1, <1>2, <1>3 DEF Ends, Raises
<1>5. QED
    BY <1>1, <1>4

LEMMA FlockMoves ==
    ASSUME TypeOK, LockHeld, NEW b \in Bridges, Flock(b)
    PROVE  /\ refresh[b].at = "flock" /\ blame \subseteq blame' /\ blame' \subseteq blame \cup AllFaults
           /\ \/ \E x \in Refreshes, c \in {doc, cache[b]} :
                    /\ Continues(b, x, c) /\ x.at = "post"
                    /\ \/ flock = {} /\ flock' = {b} /\ (blame' = {} => c = doc)
                       \/ flock' = flock /\ "nolock" \in blame'
              \/ \E q \in Calls : Ends(b, q, doc) /\ q.at = "account"
<1>1. PICK locked \in {{b}, {}} : Reread(b, locked) /\ (locked = {b} => flock = {})
    BY DEF Flock
<1>2. refresh[b].at = "flock" /\ blame \subseteq blame' /\ blame' \subseteq blame \cup AllFaults
    BY <1>1 DEF Flock, Reread
<1>3. doc \in Creds /\ cache[b] \in Creds /\ cache = [cache EXCEPT ![b] = cache[b]]
    BY <1>2 DEF TypeOK, LockHeld
<1>4. locked # {b} => locked = {}
    BY <1>1
<1> DEFINE x == [refresh[b] EXCEPT !.at = "post"]
<1>5. x \in Refreshes /\ x.at = "post" /\ x.by = refresh[b].by
    BY SMTT(40) DEF TypeOK, Refreshes
<1>6. CASE /\ is_expired(doc) /\ cache' = [cache EXCEPT ![b] = doc]
           /\ refresh' = [refresh EXCEPT ![b].at = "post"] /\ flock' = flock \cup locked /\ UNCHANGED req
           /\ locked = {} => "nolock" \in blame'
    <2>1. refresh' = [refresh EXCEPT ![b] = x]
        BY <1>6
    <2> HIDE DEF x
    <2>2. Continues(b, x, doc)
        BY <1>3, <1>5, <1>6, <2>1 DEF Continues
    <2>3. (flock = {} /\ flock' = {b}) \/ (flock' = flock /\ "nolock" \in blame')
        BY <1>1, <1>4, <1>6
    <2>4. QED
        BY <1>2, <1>5, <2>2, <2>3
<1>7. CASE /\ refresh' = [refresh EXCEPT ![b].at = "post"] /\ flock' = flock \cup locked
           /\ blame' = blame \cup {IF locked = {} THEN "nolock" ELSE "unread"} /\ UNCHANGED <<cache, req>>
    <2>1. refresh' = [refresh EXCEPT ![b] = x]
        BY <1>7
    <2> HIDE DEF x
    <2>2. Continues(b, x, cache[b])
        BY <1>3, <1>5, <1>7, <2>1 DEF Continues
    <2>3. (flock = {} /\ flock' = {b}) \/ (flock' = flock /\ "nolock" \in blame')
        BY <1>1, <1>4, <1>7
    <2>4. blame' # {}
        BY <1>7
    <2>5. QED
        BY <1>2, <1>5, <2>2, <2>3, <2>4
<1>8. CASE Returns(b, doc)
    BY <1>2, <1>3, <1>8, ReturnsEnds
<1>9. QED
    BY <1>1, <1>6, <1>7, <1>8 DEF Reread

LEMMA PostGrantedMoves ==
    ASSUME TypeOK, NEW b \in Bridges, PostGranted(b)
    PROVE  \E x \in Refreshes, c \in Creds :
              Continues(b, x, c) /\ x.at = "write" /\ c.pair = issued'
<1> DEFINE x == [refresh[b] EXCEPT !.at = "write"]
           c == refreshed(cache[b], issued')
<1>1. issued' \in Pairs /\ cache[b].ageof \in 0..MaxPairs
    BY DEF PostGranted, Rotate, TypeOK, Pairs, Creds, NoCreds
<1>2. c \in Creds /\ c.pair = issued'
    BY <1>1 DEF refreshed, Creds, Pairs
<1>3. x \in Refreshes /\ x.at = "write" /\ x.by = refresh[b].by
    BY SMTT(40) DEF TypeOK, Refreshes
<1>4. refresh' = [refresh EXCEPT ![b] = x] /\ cache' = [cache EXCEPT ![b] = c]
    BY DEF PostGranted
<1> HIDE DEF x, c
<1>5. Continues(b, x, c)
    BY <1>2, <1>3, <1>4 DEF Continues, PostGranted
<1>6. QED
    BY <1>2, <1>3, <1>5

LEMMA PostFailsMoves ==
    ASSUME TypeOK, LockHeld, NEW b \in Bridges, refresh[b].at = "post", PostFails(b)
    PROVE  \/ /\ \E x \in Refreshes : Continues(b, x, cache[b]) /\ x.at = "post"
              /\ UNCHANGED flock
           \/ \E q \in Calls : Ends(b, q, cache[b]) /\ q.at = "done"
<1>1. CASE refresh[b].posts + 1 < MaxPosts
    <2> DEFINE x == [refresh[b] EXCEPT !.posts = @ + 1]
    <2>1. refresh[b] \in Refreshes /\ refresh[b].posts + 1 \in 0..(MaxPosts - 1)
        BY <1>1 DEF TypeOK, Refreshes
    <2>2. x \in Refreshes /\ x.at = "post" /\ x.by = refresh[b].by
        BY <2>1 DEF Refreshes
    <2>3. refresh' = [refresh EXCEPT ![b] = x]
        BY <1>1 DEF PostFails
    <2>4. cache' = [cache EXCEPT ![b] = cache[b]] /\ cache[b] \in Creds /\ UNCHANGED <<req, flock>>
        BY <1>1 DEF PostFails, TypeOK, LockHeld
    <2> HIDE DEF x
    <2>5. Continues(b, x, cache[b])
        BY <2>2, <2>3, <2>4 DEF Continues
    <2>6. QED
        BY <2>2, <2>4, <2>5
<1>2. CASE ~(refresh[b].posts + 1 < MaxPosts)
    BY <1>2, RaisesEnds DEF PostFails
<1>3. QED
    BY <1>1, <1>2

LEMMA PostRefusedMoves ==
    ASSUME TypeOK, LockHeld, NEW b \in Bridges, PostRefused(b)
    PROVE  \/ /\ \E x \in Refreshes : Continues(b, x, doc) /\ x.at = "post"
              /\ UNCHANGED flock
           \/ \E q \in Calls : Ends(b, q, doc) /\ q.at = "account"
           \/ \E q \in Calls : Ends(b, q, cache[b]) /\ q.at = "done"
<1>1. CASE Raises(b)
    BY <1>1, RaisesEnds DEF PostRefused
<1>2. CASE Returns(b, doc)
    BY <1>2, ReturnsEnds DEF TypeOK
<1>3. CASE /\ cache' = [cache EXCEPT ![b] = doc]
           /\ refresh' = [refresh EXCEPT ![b].posts = 0, ![b].reread = TRUE]
           /\ UNCHANGED <<flock, req>>
    <2> DEFINE x == [refresh[b] EXCEPT !.posts = 0, !.reread = TRUE]
    <2>1. refresh[b] \in Refreshes /\ 0 \in 0..(MaxPosts - 1) /\ TRUE \in BOOLEAN
        BY DEF TypeOK
    <2>2. x \in Refreshes
        BY <2>1, Zenon DEF Refreshes
    <2>3. x.at = "post" /\ x.by = refresh[b].by
        BY <2>1 DEF Refreshes, PostRefused
    <2>4. refresh' = [refresh EXCEPT ![b] = x]
        BY <1>3 DEF TypeOK
    <2> HIDE DEF x
    <2>5. Continues(b, x, doc)
        BY <1>3, <2>2, <2>3, <2>4 DEF Continues, TypeOK
    <2>6. QED
        BY <1>3, <2>2, <2>3, <2>5
<1>4. QED
    BY <1>1, <1>2, <1>3 DEF PostRefused

LEMMA WriteBackMoves ==
    ASSUME TypeOK, LockHeld, NEW b \in Bridges, WriteBack(b)
    PROVE  cache[b] \in Creds /\ \E q \in Calls : Ends(b, q, cache[b]) /\ q.at = "account"
<1>1. cache[b] \in Creds
    BY DEF WriteBack, TypeOK, LockHeld
<1>2. QED
    BY <1>1, ReturnsEnds DEF WriteBack

\* A request takes the provider's creds, or starts a refresh.
Takes(r, q, c) ==
    /\ c = IF cache[home[r]] = NoCreds THEN doc ELSE cache[home[r]]
    /\ cache' = [cache EXCEPT ![home[r]] = c] /\ req' = [req EXCEPT ![r] = q]
    /\ q \in Calls /\ q.attempt = req[r].attempt /\ q.reloaded = req[r].reloaded
    /\ q.first = req[r].first /\ q.file = req[r].file
    /\ \/ q.at = "account" /\ q.tok = c.pair /\ req[r].at = "token" /\ UNCHANGED refresh
       \/ q.at = "send" /\ q.tok = req[r].tok /\ req[r].at = "account" /\ UNCHANGED refresh
       \/ /\ q.at = "refreshing" /\ q.tok = req[r].tok /\ req[r].at = "token"
          /\ \E x \in Refreshes : /\ x.at = "flock" /\ x.by = r
                                  /\ refresh' = [refresh EXCEPT ![home[r]] = x]

LEMMA GetTokenTakes ==
    ASSUME TypeOK, NEW r \in Requests, GetToken(r)
    PROVE  \E c \in Creds, q \in Calls : Takes(r, q, c)
<1> DEFINE c == IF cache[home[r]] = NoCreds THEN doc ELSE cache[home[r]]
<1>1. c \in Creds /\ req[r] \in Calls /\ home[r] \in Bridges
    BY DEF TypeOK
<1>2. CASE is_expired(c)
    <2> DEFINE q == [req[r] EXCEPT !.at = "refreshing"]
               x == [Idle EXCEPT !.at = "flock", !.by = r]
    <2>1. q \in Calls /\ q.at = "refreshing" /\ q.tok = req[r].tok /\ q.attempt = req[r].attempt
          /\ q.reloaded = req[r].reloaded /\ q.first = req[r].first /\ q.file = req[r].file
        BY <1>1 DEF Calls
    <2>2. \A p \in Refreshes : [p EXCEPT !.at = "flock", !.by = r] \in Refreshes
        BY Zenon DEF Refreshes
    <2>3. x \in Refreshes /\ x.at = "flock" /\ x.by = r
        BY <2>2, IdleType DEF Refreshes
    <2>4. /\ req' = [req EXCEPT ![r] = q] /\ refresh' = [refresh EXCEPT ![home[r]] = x]
          /\ cache' = [cache EXCEPT ![home[r]] = c]
        BY <1>2 DEF GetToken
    <2> HIDE DEF q, x, c
    <2>5. \E y \in Refreshes : /\ y.at = "flock" /\ y.by = r
                               /\ refresh' = [refresh EXCEPT ![home[r]] = y]
        BY <2>3, <2>4
    <2>6. c = IF cache[home[r]] = NoCreds THEN doc ELSE cache[home[r]]
        BY DEF c
    <2>7. Takes(r, q, c)
        BY <2>1, <2>4, <2>5, <2>6 DEF Takes, GetToken
    <2>8. QED
        BY <1>1, <2>1, <2>7
<1>3. CASE ~is_expired(c)
    <2> DEFINE q == GotToken(req[r], c)
    <2>1. q \in Calls /\ q.at = "account" /\ q.tok = c.pair /\ q.attempt = req[r].attempt
          /\ q.reloaded = req[r].reloaded /\ q.first = req[r].first /\ q.file = req[r].file
        BY <1>1, GotTokenType
    <2>2. /\ req' = [req EXCEPT ![r] = q] /\ UNCHANGED refresh
          /\ cache' = [cache EXCEPT ![home[r]] = c]
        BY <1>3 DEF GetToken
    <2> HIDE DEF q, c
    <2>3. c = IF cache[home[r]] = NoCreds THEN doc ELSE cache[home[r]]
        BY DEF c
    <2>4. Takes(r, q, c)
        BY <2>1, <2>2, <2>3 DEF Takes, GetToken
    <2>5. QED
        BY <1>1, <2>1, <2>4
<1>4. QED
    BY <1>2, <1>3

LEMMA GetAccountTakes ==
    ASSUME TypeOK, NEW r \in Requests, GetAccount(r)
    PROVE  \E c \in Creds, q \in Calls : Takes(r, q, c)
<1> DEFINE c == IF cache[home[r]] = NoCreds THEN doc ELSE cache[home[r]]
           q == [req[r] EXCEPT !.at = "send"]
<1>1. c \in Creds /\ req[r] \in Calls
    BY DEF TypeOK
<1>2. \A p \in Calls : [p EXCEPT !.at = "send"] \in Calls
    BY Zenon DEF Calls
<1>3. /\ q \in Calls /\ q.at = "send" /\ q.tok = req[r].tok
      /\ q.attempt = req[r].attempt /\ q.reloaded = req[r].reloaded
      /\ q.first = req[r].first /\ q.file = req[r].file
    BY <1>1, <1>2 DEF Calls
<1>4. cache' = [cache EXCEPT ![home[r]] = c] /\ req' = [req EXCEPT ![r] = q]
    BY DEF GetAccount
<1> HIDE DEF q, c
<1>5. c = IF cache[home[r]] = NoCreds THEN doc ELSE cache[home[r]]
    BY DEF c
<1>6. Takes(r, q, c)
    BY <1>3, <1>4, <1>5 DEF Takes, GetAccount
<1>7. QED
    BY <1>1, <1>3, <1>6

\* A step of a provider, whichever it is.
LEMMA ProviderMoves ==
    ASSUME TypeOK, LockHeld, NEW b \in Bridges, ProviderStep(b)
    PROVE  /\ refresh[b].at # "idle" /\ UNCHANGED home /\ blame \subseteq blame'
           /\ \/ /\ \E x \in Refreshes, c \in Creds : Continues(b, x, c)
                 /\ \/ flock = {} /\ flock' = {b}
                    \/ flock' = flock /\ refresh[b].at = "post"
                    \/ flock' = flock /\ refresh[b].at = "flock" /\ "nolock" \in blame'
              \/ \E q \in Calls, c \in Creds : Ends(b, q, c)
<1>1. (cache[b] \in Creds /\ doc \in Creds) \/ refresh[b].at = "idle"
    BY DEF TypeOK, LockHeld
<1>3. CASE Flock(b)
    <2>1. refresh[b].at = "flock" /\ blame \subseteq blame' /\ UNCHANGED home
        BY <1>3, FlockMoves DEF Flock, world
    <2>2. CASE \E q \in Calls : Ends(b, q, doc)
        BY <1>1, <2>1, <2>2
    <2>3. ASSUME NEW x \in Refreshes, NEW c \in {doc, cache[b]}, Continues(b, x, c),
                 (flock = {} /\ flock' = {b}) \/ (flock' = flock /\ "nolock" \in blame')
          PROVE  /\ \E y \in Refreshes, d \in Creds : Continues(b, y, d)
                 /\ \/ flock = {} /\ flock' = {b}
                    \/ flock' = flock /\ refresh[b].at = "flock" /\ "nolock" \in blame'
        BY <1>1, <2>1, <2>3
    <2>4. QED
        BY <1>3, <2>1, <2>2, <2>3, FlockMoves
<1>4. CASE PostGranted(b)
    BY <1>4, PostGrantedMoves DEF PostGranted, world
<1>5. CASE PostLost(b)
    BY <1>1, <1>5, PostFailsMoves DEF PostLost, world
<1>6. CASE PostDown(b)
    BY <1>1, <1>6, PostFailsMoves DEF PostDown, world
<1>7. CASE PostRefused(b)
    BY <1>1, <1>7, PostRefusedMoves DEF PostRefused, world
<1>8. CASE WriteBack(b)
    BY <1>1, <1>8, WriteBackMoves DEF WriteBack, world
<1>9. QED
    BY <1>3, <1>4, <1>5, <1>6, <1>7, <1>8 DEF ProviderStep

-----------------------------------------------------------------------------
(* Type correctness, and the counts of the retries.                        *)

LEMMA ContinuesType ==
    ASSUME TypeOK, NEW b \in Bridges, NEW x \in Refreshes, NEW c \in Creds, Continues(b, x, c)
    PROVE  /\ cache' \in [Bridges -> Creds \cup {NoCreds}] /\ refresh' \in [Bridges -> Refreshes]
           /\ req' \in [Requests -> Calls]
BY DEF Continues, TypeOK

LEMMA EndsType ==
    ASSUME TypeOK, NEW b \in Bridges, NEW q \in Calls, NEW c \in Creds, Ends(b, q, c)
    PROVE  /\ cache' \in [Bridges -> Creds \cup {NoCreds}] /\ refresh' \in [Bridges -> Refreshes]
           /\ req' \in [Requests -> Calls] /\ flock' \subseteq Bridges
BY IdleType DEF Ends, TypeOK

LEMMA TypeStep == TypeOK /\ RetriesCounted /\ LockHeld /\ [Next]_vars => TypeOK'
<1> SUFFICES ASSUME TypeOK, RetriesCounted, LockHeld, [Next]_vars PROVE TypeOK'
    OBVIOUS
<1> DEFINE Moving == /\ cache' \in [Bridges -> Creds \cup {NoCreds}]
                     /\ refresh' \in [Bridges -> Refreshes] /\ req' \in [Requests -> Calls]
           Rest == /\ home' \in [Requests -> Bridges] /\ known' \in AllAges /\ faults' \subseteq AllFaults
                   /\ unspent' \subseteq Pairs /\ issued' \in Pairs
                   /\ token' \in [Pairs -> {"fresh", "due", "expired"}]
                   /\ doc' \in Creds /\ cli' \in 0..MaxPairs
                   /\ flock' \subseteq Bridges /\ blame' \subseteq AllFaults
<1>0. Moving /\ Rest => TypeOK'
    BY DEF TypeOK
<1>1. ASSUME NEW n \in Pairs, Rotate(n) PROVE unspent' \subseteq Pairs /\ issued' \in Pairs
    BY <1>1 DEF Rotate, TypeOK, Pairs
<1>2. ASSUME NEW b \in Bridges, ProviderStep(b) PROVE TypeOK'
    <2>1. (cache[b] \in Creds /\ doc \in Creds /\ doc.pair \in Pairs) \/ refresh[b].at = "idle"
        BY DEF TypeOK, LockHeld, Creds
    <2>2. CASE Flock(b)
        <3>1. Moving /\ flock' \subseteq Bridges
            BY <2>1, <2>2, FlockMoves, ContinuesType, EndsType DEF TypeOK
        <3>2. blame' \subseteq AllFaults
            BY <2>2, FlockMoves DEF TypeOK
        <3>3. QED
            BY <1>0, <2>2, <3>1, <3>2 DEF Flock, TypeOK, world, oauth
    <2>3. CASE PostGranted(b)
        <3>1. Moving
            BY <2>3, PostGrantedMoves, ContinuesType
        <3>2. cache[b].pair \in Pairs
            BY <2>3, <2>1 DEF PostGranted, Creds
        <3>3. QED
            BY <1>0, <1>1, <2>3, <3>1, <3>2 DEF PostGranted, TypeOK, world
    <2>4. CASE PostLost(b)
        <3>1. Moving /\ flock' \subseteq Bridges
            BY <2>4, <2>1, PostFailsMoves, ContinuesType, EndsType DEF PostLost, TypeOK
        <3>2. cache[b].pair \in Pairs
            BY <2>4, <2>1 DEF PostLost, Creds
        <3>3. QED
            BY <1>0, <1>1, <2>4, <3>1, <3>2 DEF PostLost, TypeOK, world
    <2>5. CASE PostDown(b)
        <3>1. Moving /\ flock' \subseteq Bridges
            BY <2>5, <2>1, PostFailsMoves, ContinuesType, EndsType DEF PostDown, TypeOK
        <3>2. QED
            BY <1>0, <2>5, <3>1 DEF PostDown, TypeOK, world, oauth
    <2>6. CASE PostRefused(b)
        <3>1. Moving /\ flock' \subseteq Bridges
            BY <2>6, <2>1, PostRefusedMoves, ContinuesType, EndsType DEF PostRefused, TypeOK
        <3>2. QED
            BY <1>0, <2>6, <3>1 DEF PostRefused, TypeOK, world, oauth
    <2>7. CASE WriteBack(b)
        <3>1. Moving /\ flock' \subseteq Bridges /\ cache[b] \in Creds
            BY <2>7, WriteBackMoves, EndsType
        <3>2. written(cache[b].pair) \in Creds
            BY <3>1 DEF written, Creds, Pairs
        <3>3. QED
            BY <1>0, <2>7, <3>1, <3>2 DEF WriteBack, TypeOK, world, oauth
    <2>8. QED
        BY <1>2, <2>2, <2>3, <2>4, <2>5, <2>6, <2>7 DEF ProviderStep
<1>3. ASSUME NEW r \in Requests, RequestStep(r) PROVE TypeOK'
    <2>1. CASE GetToken(r) \/ GetAccount(r)
        <3> PICK c \in Creds, q \in Calls : Takes(r, q, c)
            BY <2>1, GetTokenTakes, GetAccountTakes
        <3>1. Moving
            BY DEF Takes, TypeOK
        <3>2. QED
            BY <1>0, <2>1, <3>1 DEF GetToken, GetAccount, TypeOK, world, oauth
    <2>3. CASE Sent(r)
        <3>1. Kept
            BY <2>3, SentMoves
        <3>2. Moving
            BY <2>3, <3>1, SentMoves DEF Moved, TypeOK, Kept
        <3>3. QED
            BY <1>0, <3>1, <3>2 DEF Kept, TypeOK, world, oauth
    <2>4. QED
        BY <1>3, <2>1, <2>3 DEF RequestStep, Sent
<1>4. ASSUME NEW n \in Pairs, Age(n) PROVE TypeOK'
    BY <1>4 DEF Age, TypeOK, oauth
<1>5. CASE CliRefreshes
    <2>1. doc.pair \in Pairs
        BY DEF TypeOK, Creds
    <2>2. QED
        BY <1>0, <1>1, <1>5, <2>1 DEF CliRefreshes, TypeOK, world, Pairs
<1>6. CASE CliWrites
    <2>1. written(cli) \in Creds
        BY <1>6 DEF CliWrites, TypeOK, written, Creds, Pairs
    <2>2. QED
        BY <1>0, <1>6, <2>1 DEF CliWrites, TypeOK, world, oauth
<1>7. CASE UNCHANGED vars
    BY <1>7 DEF vars, TypeOK
<1>8. QED
    BY <1>2, <1>3, <1>4, <1>5, <1>6, <1>7 DEF Next, Outside, BridgeStep

\* A step of a request changes what it says here and no more.
LEMMA RequestFrame ==
    ASSUME NEW r \in Requests, GetToken(r) \/ GetAccount(r) \/ Kept
    PROVE  UNCHANGED <<home, issued, unspent, doc, cli, flock, blame>>
BY DEF GetToken, GetAccount, Kept, world, oauth

LEMMA OutsideFrame ==
    ASSUME CliRefreshes \/ CliWrites \/ (\E n \in Pairs : Age(n)) \/ UNCHANGED vars
    PROVE  UNCHANGED <<home, cache, refresh, flock, req>> /\ blame \subseteq blame'
BY DEF CliRefreshes, CliWrites, Age, vars, world, oauth

LEMMA RetriesStep == TypeOK /\ RetriesCounted /\ LockHeld /\ [Next]_vars => RetriesCounted'
<1> SUFFICES ASSUME TypeOK, RetriesCounted, LockHeld, [Next]_vars PROVE RetriesCounted'
    OBVIOUS
<1>1. ASSUME NEW b \in Bridges, ProviderStep(b) PROVE RetriesCounted'
    <2>1. CASE \E x \in Refreshes, c \in Creds : Continues(b, x, c)
        BY <2>1 DEF Continues, RetriesCounted, Holds
    <2>2. ASSUME NEW q \in Calls, NEW c \in Creds, Ends(b, q, c) PROVE RetriesCounted'
        <3>1. c.pair # 0 /\ refresh[b].by \in Requests
            BY DEF Creds, Pairs, TypeOK, Refreshes
        <3>2. QED
            BY <2>2, <3>1 DEF Ends, RetriesCounted, Holds, TypeOK
    <2>3. QED
        BY <1>1, <2>1, <2>2, ProviderMoves
<1>2. ASSUME NEW r \in Requests, RequestStep(r) PROVE RetriesCounted'
    <2>1. CASE GetToken(r) \/ GetAccount(r)
        <3> PICK c \in Creds, q \in Calls : Takes(r, q, c)
            BY <2>1, GetTokenTakes, GetAccountTakes
        <3>1. c.pair # 0
            BY DEF Creds, Pairs
        <3>2. QED
            BY <3>1 DEF Takes, RetriesCounted, Holds, TypeOK
    <2>3. CASE Sent(r)
        BY <2>3, SentMoves DEF Moved, RetriesCounted, Holds, TypeOK
    <2>4. QED
        BY <1>2, <2>1, <2>3 DEF RequestStep, Sent
<1>3. CASE CliRefreshes \/ CliWrites \/ (\E n \in Pairs : Age(n)) \/ UNCHANGED vars
    BY <1>3, OutsideFrame DEF RetriesCounted, Holds
<1>4. QED
    BY <1>1, <1>2, <1>3 DEF Next, Outside, BridgeStep

-----------------------------------------------------------------------------
(* The file lock and the refreshes.                                        *)

LEMMA LockStep == TypeOK /\ RetriesCounted /\ LockHeld /\ [Next]_vars => LockHeld'
<1> SUFFICES ASSUME TypeOK, RetriesCounted, LockHeld, [Next]_vars PROVE LockHeld'
    OBVIOUS
<1>0. NoCreds \notin Creds
    BY DEF NoCreds, Creds, Pairs
<1>1. ASSUME NEW b \in Bridges, ProviderStep(b) PROVE LockHeld'
    <2>0. /\ refresh[b].at # "idle" /\ UNCHANGED home /\ refresh[b].by \in Requests
          /\ "nolock" \notin blame' => "nolock" \notin blame
        BY <1>1, ProviderMoves DEF TypeOK, Refreshes
    <2>1. ASSUME NEW x \in Refreshes, NEW c \in Creds, Continues(b, x, c),
                 \/ flock = {} /\ flock' = {b}
                 \/ flock' = flock /\ refresh[b].at = "post"
                 \/ flock' = flock /\ refresh[b].at = "flock" /\ "nolock" \in blame'
          PROVE  LockHeld'
        <3>1. \A e \in Bridges : refresh'[e].at # "idle" =>
                 /\ req'[refresh'[e].by].at = "refreshing" /\ home'[refresh'[e].by] = e
                 /\ cache'[e] # NoCreds
            BY <1>0, <2>0, <2>1 DEF Continues, LockHeld, TypeOK
        <3>2. \A e \in flock' : refresh'[e].at \in {"post", "write"}
            BY <2>0, <2>1 DEF Continues, LockHeld, TypeOK
        <3>3. \A e, d \in flock' : e = d
            BY <2>1 DEF LockHeld
        <3>4. "nolock" \notin blame' =>
                  \A e \in Bridges : refresh'[e].at \in {"post", "write"} => e \in flock'
            BY <2>0, <2>1 DEF Continues, LockHeld, TypeOK
        <3>5. QED
            BY <3>1, <3>2, <3>3, <3>4 DEF LockHeld
    <2>2. ASSUME NEW q \in Calls, NEW c \in Creds, Ends(b, q, c) PROVE LockHeld'
        <3>1. \A e \in Bridges : refresh'[e].at # "idle" =>
                 /\ req'[refresh'[e].by].at = "refreshing" /\ home'[refresh'[e].by] = e
                 /\ cache'[e] # NoCreds
            BY <1>0, <2>0, <2>2, IdleType DEF Ends, LockHeld, TypeOK
        <3>2. \A e \in flock' : refresh'[e].at \in {"post", "write"}
            BY <2>0, <2>2, IdleType DEF Ends, LockHeld, TypeOK
        <3>3. \A e, d \in flock' : e = d
            BY <2>2 DEF Ends, LockHeld
        <3>4. "nolock" \notin blame' =>
                  \A e \in Bridges : refresh'[e].at \in {"post", "write"} => e \in flock'
            BY <2>0, <2>2, IdleType DEF Ends, LockHeld, TypeOK
        <3>5. QED
            BY <3>1, <3>2, <3>3, <3>4 DEF LockHeld
    <2>3. QED
        BY <1>1, <2>1, <2>2, ProviderMoves
<1>2. ASSUME NEW r \in Requests, RequestStep(r) PROVE LockHeld'
    <2>1. CASE GetToken(r) \/ GetAccount(r)
        <3> PICK c \in Creds, q \in Calls : Takes(r, q, c)
            BY <2>1, GetTokenTakes, GetAccountTakes
        <3>1. UNCHANGED <<home, flock, blame>>
            BY <2>1, RequestFrame
        <3>2. home[r] \in Bridges /\ refresh[home[r]].at = "idle" /\ UNCHANGED <<home, flock, blame>>
            BY <2>1, <3>1 DEF GetToken, GetAccount, TypeOK
        <3>3. \A b \in Bridges : refresh[b].at # "idle" => refresh[b].by # r
            BY DEF Takes, LockHeld
        <3>4. QED
            BY <1>0, <3>2, <3>3 DEF Takes, LockHeld, TypeOK
    <2>3. CASE Sent(r)
        <3> PICK q \in Calls, c \in Creds \cup {NoCreds} : Moved(r, q, c)
            BY <2>3, SentMoves
        <3>1. Kept /\ home[r] \in Bridges /\ req[r].at \in {"token", "account", "send", "refused"}
            BY <2>3, SentMoves DEF TypeOK
        <3>2. \A b \in Bridges : refresh[b].at # "idle" => refresh[b].by # r
            BY <3>1 DEF LockHeld
        <3>3. UNCHANGED <<home, flock, refresh, blame>>
            BY <3>1 DEF Kept, world
        <3>4. QED
            BY <3>1, <3>2, <3>3 DEF Moved, LockHeld, TypeOK
    <2>4. QED
        BY <1>2, <2>1, <2>3 DEF RequestStep, Sent
<1>3. CASE CliRefreshes \/ CliWrites \/ (\E n \in Pairs : Age(n)) \/ UNCHANGED vars
    BY <1>3, OutsideFrame DEF LockHeld
<1>4. QED
    BY <1>1, <1>2, <1>3 DEF Next, Outside, BridgeStep

-----------------------------------------------------------------------------
(* The pairs.                                                              *)

\* A grant makes a new pair, and the one that was posted is spent.
LEMMA RotateNewest ==
    ASSUME TypeOK, NewestOnly, NEW n \in Pairs, n \in unspent, Rotate(n)
    PROVE  n = issued /\ issued' = issued + 1 /\ unspent' = {issued'}
BY DEF NewestOnly, Rotate

LEMMA NewestStep == TypeOK /\ RetriesCounted /\ LockHeld /\ NewestOnly /\ [Next]_vars => NewestOnly'
<1> SUFFICES ASSUME TypeOK, RetriesCounted, LockHeld, NewestOnly, [Next]_vars PROVE NewestOnly'
    OBVIOUS
<1> USE DEF NewestOnly
<1>1. issued \in Nat /\ doc \in Creds /\ NoCreds.pair = 0
    BY DEF TypeOK, Pairs, NoCreds
<1>2. (\A b \in Bridges : cache[b].pair \in Nat) /\ \A r \in Requests : req[r].tok \in Nat
    BY DEF TypeOK, Calls, Creds, Pairs, NoCreds
<1>3. ASSUME NEW b \in Bridges, ProviderStep(b) PROVE NewestOnly'
    <2>1. /\ refresh[b].at # "idle" /\ refresh[b].by \in Requests
          /\ cache[b] \in Creds /\ cache[b].pair \in Pairs
        BY <1>3, ProviderMoves DEF TypeOK, LockHeld, Refreshes, Creds
    <2>2. ASSUME UNCHANGED <<issued, unspent>> \/ (issued' = issued + 1 /\ unspent' = {issued'}),
                 doc'.pair <= issued', UNCHANGED cli,
                 NEW x \in Refreshes, NEW c \in Creds, c.pair <= issued', Continues(b, x, c)
          PROVE  NewestOnly'
        BY <1>1, <1>2, <2>2 DEF Continues, TypeOK
    <2>3. ASSUME UNCHANGED <<issued, unspent>> \/ (issued' = issued + 1 /\ unspent' = {issued'}),
                 doc'.pair <= issued', UNCHANGED cli,
                 NEW q \in Calls, NEW c \in Creds, c.pair <= issued', Ends(b, q, c)
          PROVE  NewestOnly'
        BY <1>1, <1>2, <2>1, <2>3 DEF Ends, TypeOK
    <2>4. CASE Flock(b)
        <3>1. UNCHANGED <<issued, unspent, doc, cli>>
            BY <2>4 DEF Flock, oauth
        <3>2. doc.pair <= issued /\ cache[b].pair <= issued
            BY DEF NewestOnly
        <3>3. CASE \E q \in Calls : Ends(b, q, doc)
            BY <1>1, <2>3, <3>1, <3>2, <3>3
        <3>4. CASE \E x \in Refreshes, c \in {doc, cache[b]} : Continues(b, x, c)
            BY <1>1, <2>1, <2>2, <3>1, <3>2, <3>4
        <3>5. QED
            BY <2>4, <3>3, <3>4, FlockMoves
    <2>5. CASE PostGranted(b)
        <3>1. issued' = issued + 1 /\ unspent' = {issued'}
            BY <2>1, <2>5, RotateNewest DEF PostGranted
        <3>2. doc'.pair <= issued' /\ UNCHANGED cli /\ issued' <= issued'
            BY <1>1, <2>5, <3>1 DEF PostGranted, Creds, Pairs
        <3> PICK x \in Refreshes, c \in Creds : Continues(b, x, c) /\ c.pair = issued'
            BY <2>5, PostGrantedMoves
        <3>3. QED
            BY <2>2, <3>1, <3>2
    <2>6. CASE PostLost(b)
        <3>1. issued' = issued + 1 /\ unspent' = {issued'}
            BY <2>1, <2>6, RotateNewest DEF PostLost
        <3>2. doc'.pair <= issued' /\ cache[b].pair <= issued'
            BY <1>1, <2>1, <2>6, <3>1 DEF PostLost, Creds, Pairs
        <3>3. QED
            BY <2>1, <2>6, <2>2, <2>3, <3>1, <3>2, PostFailsMoves DEF PostLost
    <2>7. CASE PostDown(b)
        BY <2>1, <2>7, <2>2, <2>3, PostFailsMoves DEF PostDown, oauth
    <2>8. CASE PostRefused(b)
        BY <1>1, <2>1, <2>8, <2>2, <2>3, PostRefusedMoves DEF PostRefused, oauth
    <2>9. CASE WriteBack(b)
        <3>1. doc'.pair <= issued'
            BY <1>1, <2>1, <2>9 DEF WriteBack, written, oauth
        <3>2. QED
            BY <2>1, <2>9, <2>3, <3>1, WriteBackMoves DEF WriteBack, oauth
    <2>10. QED
        BY <1>3, <2>4, <2>5, <2>6, <2>7, <2>8, <2>9 DEF ProviderStep
<1>4. ASSUME NEW r \in Requests, RequestStep(r) PROVE NewestOnly'
    <2>1. CASE GetToken(r) \/ GetAccount(r)
        <3> PICK c \in Creds, q \in Calls : Takes(r, q, c)
            BY <2>1, GetTokenTakes, GetAccountTakes
        <3>1. UNCHANGED <<issued, unspent, doc, cli>>
            BY <2>1, RequestFrame
        <3>2. QED
            BY <3>1 DEF Takes, TypeOK
    <2>3. CASE Sent(r)
        <3> PICK q \in Calls, c \in Creds \cup {NoCreds} : Moved(r, q, c)
            BY <2>3, SentMoves
        <3>1. UNCHANGED <<issued, unspent, doc, cli>>
            BY <2>3, SentMoves, RequestFrame
        <3>2. QED
            BY <1>1, <3>1 DEF Moved, TypeOK
    <2>4. QED
        BY <1>4, <2>1, <2>3 DEF RequestStep, Sent
<1>5. CASE CliRefreshes
    <2>1. issued' = issued + 1 /\ unspent' = {issued'}
        BY <1>5, RotateNewest DEF CliRefreshes, TypeOK, Creds
    <2>2. QED
        BY <1>1, <1>2, <1>5, <2>1 DEF CliRefreshes, Creds, Pairs
<1>6. CASE CliWrites
    BY <1>1, <1>6 DEF CliWrites, written, oauth
<1>7. CASE (\E n \in Pairs : Age(n)) \/ UNCHANGED vars
    BY <1>7 DEF Age, vars, oauth
<1>8. QED
    BY <1>3, <1>4, <1>5, <1>6, <1>7 DEF Next, Outside, BridgeStep

LEMMA OneInExchange ==
    ASSUME LockHeld, "nolock" \notin blame, NEW b \in Bridges, refresh[b].at \in {"post", "write"},
           NEW c \in Bridges, refresh[c].at \in {"post", "write"}
    PROVE  b = c
BY DEF LockHeld

\* A pair is granted only when none is waiting to be written.
LEMMA GrantAlone ==
    ASSUME TypeOK, LockHeld, NewestOnly, Unshared, NEW b \in Bridges, refresh[b].at = "post",
           cache[b].pair \in unspent, Rotate(cache[b].pair)
    PROVE  /\ ~Unwritten /\ issued' = issued + 1 /\ unspent' = {issued'}
           /\ \A c \in Bridges : refresh[c].at # "write"
<1>1. cache[b].pair = issued /\ issued' = issued + 1 /\ unspent' = {issued'}
    BY DEF NewestOnly, Rotate
<1>2. ~Unwritten
    BY <1>1 DEF Unshared
<1>3. QED
    BY <1>1, <1>2 DEF Unwritten

LEMMA UnsharedStep ==
    TypeOK /\ RetriesCounted /\ LockHeld /\ NewestOnly /\ Unshared /\ [Next]_vars => Unshared'
<1> SUFFICES ASSUME TypeOK, RetriesCounted, LockHeld, NewestOnly, Unshared, [Next]_vars
             PROVE  Unshared'
    OBVIOUS
<1>0. /\ issued \in Nat \ {0} /\ doc \in Creds /\ doc.pair \in Nat /\ cli \in Nat /\ NoCreds.pair = 0
      /\ \A b \in Bridges : cache[b].pair \in Nat /\ cache[b].pair <= issued
      /\ \A r \in Requests : req[r].tok \in Nat /\ req[r].tok <= issued
    BY DEF TypeOK, Calls, Creds, Pairs, NoCreds, NewestOnly
<1>1. ASSUME NEW b \in Bridges, ProviderStep(b) PROVE Unshared'
    <2>0. /\ refresh[b].at # "idle" /\ refresh[b].by \in Requests /\ cache[b] \in Creds
        BY <1>1, ProviderMoves DEF TypeOK, LockHeld, Refreshes
    \* A refresh that has no new pair goes on, or ends.
    <2>7. ASSUME UNCHANGED <<issued, doc, cli>>, refresh[b].at \in {"flock", "post"},
                 \/ \E x \in Refreshes, c \in {cache[b], doc} : Continues(b, x, c) /\ x.at = "post"
                 \/ \E q \in Calls, c \in {cache[b], doc} : Ends(b, q, c) /\ (q.at = "done" \/ c = doc)
          PROVE  Unshared'
        <3>1. ASSUME NEW x \in Refreshes, NEW c \in {cache[b], doc}, Continues(b, x, c), x.at = "post"
              PROVE  Unshared'
            BY <1>0, <2>7, <3>1 DEF Continues, Unshared, Unwritten, TypeOK
        <3>2. ASSUME NEW q \in Calls, NEW c \in {cache[b], doc}, Ends(b, q, c),
                     q.at = "done" \/ c = doc
              PROVE  Unshared'
            BY <1>0, <2>0, <2>7, <3>2, IdleType DEF Ends, Unshared, Unwritten, TypeOK
        <3>3. QED
            BY <2>7, <3>1, <3>2
    <2>1. CASE Flock(b)
        <3>1. UNCHANGED <<issued, doc, cli>> /\ refresh[b].at = "flock"
            BY <2>1 DEF Flock, oauth
        <3>2. QED
            BY <2>0, <2>1, <2>7, <3>1, FlockMoves
    <2>2. CASE PostGranted(b)
        <3>1. /\ ~Unwritten /\ issued' = issued + 1 /\ UNCHANGED <<doc, cli>>
              /\ \A c \in Bridges : refresh[c].at # "write"
            BY <2>2, GrantAlone DEF PostGranted
        <3> PICK x \in Refreshes, c \in Creds :
                    Continues(b, x, c) /\ x.at = "write" /\ c.pair = issued'
            BY <2>2, PostGrantedMoves
        <3>2. cli' = 0 /\ UNCHANGED req /\ refresh'[b].at = "write" /\ cache'[b].pair = issued'
            BY <3>1 DEF Continues, Unwritten, TypeOK
        <3>3. ASSUME NEW e \in Bridges, e # b
              PROVE  refresh'[e].at # "write" /\ cache'[e].pair # issued'
            BY <1>0, <3>1, <3>3 DEF Continues, TypeOK
        <3>4. doc'.pair # issued' /\ \A r \in Requests : req'[r].tok # issued'
            BY <1>0, <3>1, <3>2 DEF NewestOnly
        <3>5. QED
            BY <3>2, <3>3, <3>4 DEF Unshared
    <2>3. CASE PostLost(b)
        <3>1. /\ ~Unwritten /\ issued' = issued + 1 /\ UNCHANGED <<doc, cli>>
              /\ \A c \in Bridges : refresh[c].at # "write"
            BY <2>3, GrantAlone DEF PostLost
        <3>2. ASSUME NEW x \in Refreshes, Continues(b, x, cache[b]), x.at = "post" PROVE Unshared'
            BY <1>0, <3>1, <3>2 DEF Continues, Unshared, Unwritten, TypeOK
        <3>3. ASSUME NEW q \in Calls, Ends(b, q, cache[b]), q.at = "done" PROVE Unshared'
            BY <1>0, <2>0, <3>1, <3>3, IdleType DEF Ends, Unshared, Unwritten, TypeOK
        <3>4. QED
            BY <2>3, <3>2, <3>3, PostFailsMoves DEF PostLost
    <2>4. CASE PostDown(b) \/ PostRefused(b)
        <3>1. UNCHANGED <<issued, doc, cli>> /\ refresh[b].at = "post"
            BY <2>4 DEF PostDown, PostRefused, oauth
        <3>4. QED
            <4>1. CASE PostDown(b)
                BY <2>7, <3>1, <4>1, PostFailsMoves DEF PostDown
            <4>2. CASE PostRefused(b)
                BY <2>7, <3>1, <4>2, PostRefusedMoves
            <4>3. QED
                BY <2>4, <4>1, <4>2
    <2>5. CASE WriteBack(b)
        <3>1. /\ cli = 0 /\ cache[b].pair = issued /\ UNCHANGED <<issued, cli>>
              /\ \A c \in Bridges : refresh[c].at = "write" => c = b
            BY <2>5 DEF WriteBack, oauth, Unshared
        <3> PICK q \in Calls : Ends(b, q, cache[b])
            BY <2>5, WriteBackMoves
        <3>2. QED
            BY <1>0, <2>0, <3>1, IdleType DEF Ends, Unshared, Unwritten, TypeOK
    <2>6. QED
        BY <1>1, <2>1, <2>2, <2>3, <2>4, <2>5 DEF ProviderStep
<1>2. ASSUME NEW r \in Requests, RequestStep(r) PROVE Unshared'
    <2>1. CASE GetToken(r) \/ GetAccount(r)
        <3> PICK c \in Creds, q \in Calls : Takes(r, q, c)
            BY <2>1, GetTokenTakes, GetAccountTakes
        <3>1. UNCHANGED <<home, issued, doc, cli>>
            BY <2>1, RequestFrame
        <3>2. home[r] \in Bridges /\ refresh[home[r]].at = "idle"
            BY <2>1 DEF GetToken, GetAccount, TypeOK
        <3>3. Unwritten => c.pair # issued
            BY <3>2 DEF Takes, Unshared
        <3>4. \A b \in Bridges : /\ b # home[r] => refresh'[b] = refresh[b]
                                 /\ refresh'[home[r]].at \in {"idle", "flock"}
            BY <3>2 DEF Takes, TypeOK
        <3>5. Unwritten' = Unwritten
            BY <3>1, <3>2, <3>4 DEF Unwritten
        <3>6. QED
            BY <1>0, <3>1, <3>2, <3>3, <3>4, <3>5 DEF Takes, Unshared, TypeOK
    <2>2. CASE Sent(r)
        <3> PICK q \in Calls, c \in Creds \cup {NoCreds} : Moved(r, q, c)
            BY <2>2, SentMoves
        <3>1. UNCHANGED <<home, issued, doc, cli, refresh>>
            BY <2>2, SentMoves DEF Kept, world, oauth
        <3>2. QED
            BY <1>0, <3>1 DEF Moved, Unshared, Unwritten, TypeOK
    <2>3. QED
        BY <1>2, <2>1, <2>2 DEF RequestStep, Sent
<1>3. CASE CliRefreshes
    <2>1. doc.pair = issued /\ issued' = issued + 1 /\ cli' = issued'
        BY <1>3, RotateNewest DEF CliRefreshes, TypeOK, Creds
    <2>2. UNCHANGED <<doc, cache, refresh, req>>
        BY <1>3 DEF CliRefreshes
    <2>3. ~Unwritten
        BY <2>1 DEF Unshared
    <2>4. QED
        BY <1>0, <2>1, <2>2, <2>3 DEF Unshared, Unwritten
<1>4. CASE CliWrites
    <2>1. doc'.pair = issued /\ cli' = 0 /\ UNCHANGED <<issued, cache, refresh, req>>
        BY <1>4 DEF CliWrites, written, oauth, Unshared
    <2>2. \A b \in Bridges : refresh[b].at # "write"
        BY <1>4 DEF CliWrites, Unshared
    <2>3. QED
        BY <2>1, <2>2 DEF Unshared, Unwritten
<1>5. CASE (\E n \in Pairs : Age(n)) \/ UNCHANGED vars
    BY <1>5 DEF Age, vars, oauth, Unshared, Unwritten
<1>6. QED
    BY <1>1, <1>2, <1>3, <1>4, <1>5 DEF Next, Outside, BridgeStep

LEMMA UntroubledStep ==
    TypeOK /\ RetriesCounted /\ LockHeld /\ NewestOnly /\ Unshared
        /\ Untroubled /\ GrantKept /\ [Next]_vars
    => Untroubled' /\ GrantKept'
<1> SUFFICES ASSUME TypeOK, RetriesCounted, LockHeld, NewestOnly, Unshared, Untroubled, GrantKept,
                    [Next]_vars
             PROVE  Untroubled' /\ GrantKept'
    OBVIOUS
<1> DEFINE Newest == \/ issued \in {doc.pair, cli}
                     \/ \E b \in Bridges : refresh[b].at = "write" /\ cache[b].pair = issued
           Untold == blame \cap {"lost", "nowrite"} = {}
<1>1. Untold => Newest
    BY DEF GrantKept, NewestOnly
<1>2. (Untold' => Newest') => GrantKept'
    BY NewestStep DEF GrantKept, NewestOnly
<1>3. ASSUME NEW b \in Bridges, ProviderStep(b) PROVE Untroubled' /\ GrantKept'
    <2>0. /\ refresh[b].at # "idle" /\ refresh[b].by \in Requests /\ cache[b] \in Creds
        BY <1>3, ProviderMoves DEF TypeOK, LockHeld, Refreshes
    <2>1. CASE Flock(b)
        <3>1. /\ UNCHANGED <<issued, doc, cli>> /\ refresh[b].at = "flock"
              /\ blame \subseteq blame'
            BY <2>1, FlockMoves DEF Flock, oauth
        <3>2. ASSUME blame = {}, flock = {} PROVE doc.pair = issued
            <4>1. \A c \in Bridges : refresh[c].at \notin {"post", "write"}
                BY <3>2 DEF LockHeld
            <4>2. QED
                BY <1>1, <3>2, <4>1 DEF Untroubled, TypeOK, Pairs
        <3>3. \/ \E x \in Refreshes, c \in {doc, cache[b]} :
                    Continues(b, x, c) /\ x.at = "post" /\ (blame' = {} => flock = {} /\ c = doc)
              \/ \E q \in Calls : Ends(b, q, doc)
            BY <2>1, FlockMoves
        <3>4. Untroubled'
            <4>1. SUFFICES ASSUME blame' = {}
                           PROVE  /\ cli' = 0
                                  /\ \A e \in Bridges : refresh'[e].at = "post" => cache'[e].pair = issued'
                BY DEF Untroubled
            <4>2. blame = {} /\ cli' = 0
                BY <3>1, <4>1 DEF Untroubled
            <4>3. CASE \E q \in Calls : Ends(b, q, doc)
                BY <3>1, <4>2, <4>3, IdleType DEF Untroubled, Ends, TypeOK
            <4>4. ASSUME NEW x \in Refreshes, Continues(b, x, doc), flock = {}
                  PROVE  \A e \in Bridges : refresh'[e].at = "post" => cache'[e].pair = issued'
                BY <3>1, <3>2, <4>2, <4>4 DEF Untroubled, Continues, TypeOK
            <4>5. QED
                BY <3>3, <4>1, <4>2, <4>3, <4>4
        <3>5. \A e \in Bridges : e # b => refresh'[e] = refresh[e] /\ cache'[e] = cache[e]
            BY <3>3 DEF Continues, Ends, TypeOK
        <3>6. Untold' => Newest'
            BY <1>1, <3>1, <3>5
        <3>7. QED
            BY <1>2, <3>4, <3>6
    <2>2. CASE PostGranted(b)
        <3>1. /\ issued' = issued + 1 /\ UNCHANGED <<cli, blame>>
              /\ blame = {} => \A c \in Bridges : refresh[c].at \in {"post", "write"} => c = b
            BY <2>2, GrantAlone, OneInExchange DEF PostGranted
        <3> PICK x \in Refreshes, c \in Creds :
                    Continues(b, x, c) /\ x.at = "write" /\ c.pair = issued'
            BY <2>2, PostGrantedMoves
        <3>2. refresh'[b].at = "write" /\ cache'[b].pair = issued'
            BY DEF Continues, TypeOK
        <3>3. blame = {} => \A e \in Bridges : refresh'[e].at # "post"
            BY <3>1, <3>2 DEF Continues, TypeOK
        <3>4. QED
            BY <1>2, <3>1, <3>2, <3>3 DEF Untroubled
    <2>3. CASE PostLost(b)
        BY <1>2, <2>3 DEF PostLost, Untroubled
    <2>4. CASE PostDown(b)
        <3>1. UNCHANGED <<issued, doc, cli, blame>> /\ refresh[b].at = "post"
            BY <2>4 DEF PostDown, oauth
        <3>2. \/ \E x \in Refreshes : Continues(b, x, cache[b])
              \/ \E q \in Calls : Ends(b, q, cache[b])
            BY <2>4, PostFailsMoves DEF PostDown
        <3>3. Untroubled'
            BY <3>1, <3>2, IdleType DEF Untroubled, Continues, Ends, TypeOK
        <3>4. \A e \in Bridges : e # b => refresh'[e] = refresh[e] /\ cache'[e] = cache[e]
            BY <3>2 DEF Continues, Ends, TypeOK
        <3>5. Untold => Newest'
            BY <1>1, <3>1, <3>4
        <3>6. QED
            BY <1>2, <3>1, <3>3, <3>5
    <2>5. CASE PostRefused(b)
        <3>1. UNCHANGED <<issued, doc, cli, blame>> /\ refresh[b].at = "post"
            BY <2>5 DEF PostRefused, oauth
        <3>2. blame # {}
            BY <2>5 DEF PostRefused, Untroubled, NewestOnly
        <3>3. \A e \in Bridges : e # b => refresh'[e] = refresh[e] /\ cache'[e] = cache[e]
            BY <2>5, PostRefusedMoves DEF Continues, Ends, TypeOK
        <3>4. Untold => Newest'
            BY <1>1, <3>1, <3>3
        <3>5. QED
            BY <1>2, <3>1, <3>2, <3>4 DEF Untroubled
    <2>6. CASE WriteBack(b)
        <3>1. /\ cache[b].pair = issued /\ UNCHANGED <<issued, cli>>
              /\ blame = {} => \A c \in Bridges : refresh[c].at \in {"post", "write"} => c = b
            BY <2>6, OneInExchange DEF WriteBack, oauth, Unshared
        <3> PICK q \in Calls : Ends(b, q, cache[b])
            BY <2>6, WriteBackMoves
        <3>2. blame = {} => \A e \in Bridges : refresh'[e].at # "post"
            BY <3>1, IdleType DEF Ends, TypeOK
        <3>3. (doc'.pair = issued' /\ blame' = blame) \/ "nowrite" \in blame'
            BY <2>6, <3>1 DEF WriteBack, written
        <3>4. blame' = {} => cli' = 0
            BY <3>1, <3>3 DEF Untroubled
        <3>5. QED
            BY <1>2, <3>2, <3>3, <3>4 DEF Untroubled
    <2>7. QED
        BY <1>3, <2>1, <2>2, <2>3, <2>4, <2>5, <2>6 DEF ProviderStep
<1>4. ASSUME NEW r \in Requests, RequestStep(r) PROVE Untroubled' /\ GrantKept'
    <2>1. CASE GetToken(r) \/ GetAccount(r)
        <3> PICK c \in Creds, q \in Calls : Takes(r, q, c)
            BY <2>1, GetTokenTakes, GetAccountTakes
        <3>1. UNCHANGED <<issued, doc, cli, blame>>
            BY <2>1, RequestFrame
        <3>2. home[r] \in Bridges /\ refresh[home[r]].at = "idle"
            BY <2>1 DEF GetToken, GetAccount, TypeOK
        <3>3. \A b \in Bridges :
                 \/ refresh'[b].at = refresh[b].at /\ cache'[b] = cache[b]
                 \/ refresh[b].at = "idle" /\ refresh'[b].at \in {"idle", "flock"}
            BY <3>2 DEF Takes, TypeOK
        <3>4. Untold => Newest'
            BY <1>1, <3>1, <3>3
        <3>5. QED
            BY <1>2, <3>1, <3>3, <3>4 DEF Untroubled
    <2>2. CASE Sent(r)
        <3> PICK q \in Calls, c \in Creds \cup {NoCreds} : Moved(r, q, c)
            BY <2>2, SentMoves
        <3>1. UNCHANGED <<home, issued, doc, cli, blame, refresh>>
            BY <2>2, SentMoves DEF Kept, world, oauth
        <3>2. \A b \in Bridges : cache'[b] = cache[b] \/ refresh[b].at = "idle"
            BY <3>1 DEF Moved, TypeOK
        <3>3. Untold => Newest'
            BY <1>1, <3>1, <3>2
        <3>4. QED
            BY <1>2, <3>1, <3>2, <3>3 DEF Untroubled
    <2>3. QED
        BY <1>4, <2>1, <2>2 DEF RequestStep, Sent
<1>5. CASE CliRefreshes
    <2>1. cli' = issued' /\ "cli" \in blame'
        BY <1>5 DEF CliRefreshes
    <2>2. QED
        BY <1>2, <2>1 DEF Untroubled
<1>6. CASE CliWrites
    <2>1. doc'.pair = issued /\ UNCHANGED <<issued, cache, refresh, blame>> /\ blame # {}
        BY <1>6 DEF CliWrites, written, oauth, Unshared, Untroubled
    <2>2. QED
        BY <1>2, <2>1 DEF Untroubled
<1>7. CASE (\E n \in Pairs : Age(n)) \/ UNCHANGED vars
    BY <1>7 DEF Age, vars, oauth, Untroubled, GrantKept
<1>8. QED
    BY <1>3, <1>4, <1>5, <1>6, <1>7 DEF Next, Outside, BridgeStep

-----------------------------------------------------------------------------
(* The reload.                                                             *)

LEMMA NotBackStep ==
    TypeOK /\ RetriesCounted /\ LockHeld /\ NewestOnly /\ Unshared /\ NotBack /\ [Next]_vars
    => NotBack'
<1> SUFFICES ASSUME TypeOK, RetriesCounted, LockHeld, NewestOnly, Unshared, NotBack, [Next]_vars
             PROVE  NotBack'
    OBVIOUS
<1>1. /\ issued \in Nat \ {0} /\ doc \in Creds /\ doc.pair \in Nat /\ cli \in Nat /\ NoCreds.pair = 0
      /\ \A b \in Bridges : cache[b].pair \in Nat /\ cache[b].pair <= issued
      /\ \A r \in Requests : /\ req[r].tok \in Nat /\ req[r].tok <= issued
                             /\ home[r] \in Bridges /\ req[r] \in Calls
    BY DEF TypeOK, Calls, Creds, Pairs, NoCreds, NewestOnly
\* A refresh that goes on: c is the document, a new pair, or as before.
<1>2. ASSUME NEW b \in Bridges, NEW x \in Refreshes, NEW c \in Creds, Continues(b, x, c),
             UNCHANGED <<home, doc, cli>>,
             \/ issued' = issued /\ c \in {doc, cache[b]} /\ x.at = "post"
             \/ issued' = issued + 1 /\ c = cache[b] /\ x.at = "post"
             \/ issued' = issued + 1 /\ c.pair = issued'
      PROVE  NotBack'
    BY <1>1, <1>2 DEF Continues, NotBack, Holds, TypeOK
\* One that ends.
<1>3. ASSUME NEW b \in Bridges, NEW q \in Calls, NEW c \in {doc, cache[b]}, Ends(b, q, c),
             refresh[b].by \in Requests, home[refresh[b].by] = b,
             UNCHANGED <<home, cli>>, issued' \in {issued, issued + 1},
             doc' = doc \/ (doc'.pair = cache[b].pair /\ refresh[b].at = "write")
      PROVE  NotBack'
    BY <1>1, <1>3, IdleType DEF Ends, NotBack, Holds, TypeOK
<1>4. ASSUME NEW b \in Bridges, ProviderStep(b) PROVE NotBack'
    <2>0. /\ refresh[b].by \in Requests /\ home[refresh[b].by] = b /\ UNCHANGED home
        BY <1>4, ProviderMoves DEF TypeOK, LockHeld, Refreshes
    <2>1. CASE Flock(b)
        <3>1. UNCHANGED <<issued, doc, cli>>
            BY <2>1 DEF Flock, oauth
        <3>2. CASE \E q \in Calls : Ends(b, q, doc)
            BY <1>1, <1>3, <2>0, <3>1, <3>2
        <3>3. CASE \E x \in Refreshes, c \in {doc, cache[b]} : Continues(b, x, c) /\ x.at = "post"
            <4> PICK x \in Refreshes, c \in {doc, cache[b]} : Continues(b, x, c) /\ x.at = "post"
                BY <3>3
            <4>1. c \in Creds
                BY <2>1, FlockMoves DEF TypeOK, LockHeld
            <4>2. QED
                BY <1>2, <2>0, <3>1, <4>1
        <3>4. QED
            BY <2>1, <3>2, <3>3, FlockMoves
    <2>2. CASE PostGranted(b)
        <3>1. issued' = issued + 1 /\ UNCHANGED <<doc, cli>>
            BY <2>2 DEF PostGranted, Rotate
        <3>2. QED
            BY <1>2, <2>0, <2>2, <3>1, PostGrantedMoves
    <2>3. CASE PostLost(b) \/ PostDown(b)
        <3>1. /\ UNCHANGED <<doc, cli>> /\ issued' \in {issued, issued + 1}
              /\ refresh[b].at = "post" /\ PostFails(b) /\ cache[b] \in Creds
            BY <2>3 DEF PostLost, PostDown, Rotate, oauth, TypeOK, LockHeld
        <3>2. \/ \E x \in Refreshes : Continues(b, x, cache[b]) /\ x.at = "post"
              \/ \E q \in Calls : Ends(b, q, cache[b])
            BY <3>1, PostFailsMoves
        <3>3. QED
            BY <1>2, <1>3, <2>0, <3>1, <3>2
    <2>4. CASE PostRefused(b)
        <3>1. UNCHANGED <<issued, doc, cli>>
            BY <2>4 DEF PostRefused, oauth
        <3>2. QED
            BY <1>2, <1>3, <1>1, <2>0, <2>4, <3>1, PostRefusedMoves
    <2>5. CASE WriteBack(b)
        <3>1. /\ UNCHANGED <<issued, cli>>
              /\ doc' = doc \/ (doc'.pair = cache[b].pair /\ refresh[b].at = "write")
            BY <2>5 DEF WriteBack, oauth, written
        <3>2. QED
            BY <1>3, <2>0, <2>5, <3>1, WriteBackMoves
    <2>6. QED
        BY <1>4, <2>1, <2>2, <2>3, <2>4, <2>5 DEF ProviderStep
<1>5. ASSUME NEW r \in Requests, RequestStep(r) PROVE NotBack'
    <2>1. CASE GetToken(r) \/ GetAccount(r)
        <3> PICK c \in Creds, q \in Calls : Takes(r, q, c)
            BY <2>1, GetTokenTakes, GetAccountTakes
        <3>1. UNCHANGED <<home, issued, doc, cli>>
            BY <2>1, RequestFrame
        <3>2. refresh[home[r]].at = "idle"
            BY <2>1 DEF GetToken, GetAccount
        <3>3. \A b \in Bridges : refresh'[b].at = "write" => refresh[b].at = "write" /\ cache'[b] = cache[b]
            BY <1>1, <3>2 DEF Takes, TypeOK
        <3>4. QED
            BY <1>1, <3>1, <3>2, <3>3 DEF Takes, NotBack, Holds, TypeOK
    <2>2. CASE Sent(r)
        <3> PICK q \in Calls, c \in Creds \cup {NoCreds} : Moved(r, q, c)
            BY <2>2, SentMoves
        <3>1. UNCHANGED <<home, issued, doc, cli, refresh>>
            BY <2>2, SentMoves DEF Kept, world, oauth
        <3>2. req[r].at = "refused" => req[r].tok \in 1..issued /\ (Unwritten => req[r].tok # issued)
            BY <1>1, <3>1 DEF RetriesCounted, Holds, Unshared
        <3>3. ASSUME NEW p \in Requests, p # r, req'[p].reloaded, req'[p].file # req'[p].first
              PROVE  /\ req'[p].first \in (1..issued') \ {doc'.pair, cli', cache'[home'[p]].pair}
                     /\ Holds(p)' => req'[p].tok # req'[p].first
                     /\ \A b \in Bridges : refresh'[b].at = "write" => cache'[b].pair # req'[p].first
            BY <1>1, <3>1, <3>3 DEF Moved, NotBack, Holds, TypeOK
        <3>4. ASSUME req'[r].reloaded, req'[r].file # req'[r].first
              PROVE  /\ req'[r].first \in (1..issued') \ {doc'.pair, cli', cache'[home'[r]].pair}
                     /\ Holds(r)' => req'[r].tok # req'[r].first
                     /\ \A b \in Bridges : refresh'[b].at = "write" => cache'[b].pair # req'[r].first
            <4>1. CASE req[r].reloaded /\ q.first = req[r].first /\ q.file = req[r].file
                BY <1>1, <3>1, <3>4, <4>1 DEF Moved, NotBack, Holds, TypeOK
            <4>2. CASE /\ req[r].at = "refused" /\ q.first = req[r].tok /\ q.file = doc.pair
                       /\ c = NoCreds
                <5>1. req'[r] = q /\ q.tok # q.first /\ cache'[home[r]] = NoCreds
                    BY <1>1, <3>1, <3>2, <4>2 DEF Moved, TypeOK
                <5>2. cli # q.first /\ doc.pair # q.first
                    BY <3>2, <3>4, <4>2, <5>1 DEF Unshared, Unwritten
                <5>3. \A b \in Bridges : refresh'[b].at = "write" => cache'[b].pair # q.first
                    BY <1>1, <3>1, <3>2, <4>2 DEF Unshared, Unwritten, Moved, TypeOK
                <5>4. QED
                    BY <1>1, <3>1, <3>2, <4>2, <5>1, <5>2, <5>3
            <4>3. QED
                BY <3>4, <4>1, <4>2 DEF Moved, TypeOK
        <3>5. QED
            BY <3>3, <3>4 DEF NotBack
    <2>3. QED
        BY <1>5, <2>1, <2>2 DEF RequestStep, Sent
<1>6. CASE CliRefreshes
    <2>1. issued' = issued + 1 /\ cli' = issued' /\ UNCHANGED <<home, doc, cache, refresh, req>>
        BY <1>6 DEF CliRefreshes, Rotate, world
    <2>2. QED
        BY <1>1, <2>1 DEF NotBack, Holds
<1>7. CASE CliWrites
    <2>1. doc'.pair = cli /\ cli' = 0 /\ UNCHANGED <<home, issued, cache, refresh, req>>
        BY <1>7 DEF CliWrites, written, oauth, world
    <2>2. QED
        BY <1>1, <2>1 DEF NotBack, Holds
<1>8. CASE (\E n \in Pairs : Age(n)) \/ UNCHANGED vars
    BY <1>8 DEF Age, vars, oauth, NotBack, Holds
<1>9. QED
    BY <1>4, <1>5, <1>6, <1>7, <1>8 DEF Next, Outside, BridgeStep

-----------------------------------------------------------------------------
(* The theorems.                                                           *)

LEMMA IInvStep == IInv /\ [Next]_vars => IInv'
BY TypeStep, RetriesStep, LockStep, NewestStep, UnsharedStep, UntroubledStep, NotBackStep DEF IInv

LEMMA IInvAlways == Spec => []IInv
BY InitIInv, IInvStep, PTL DEF Spec

\* get_access_token, _refresh_locked and _forward_with_retry keep their state in its types:
\* a call is tried at most MaxRetries times and once more after a reload, and a refresh
\* posts at most MaxPosts times.
THEOREM TypesCorrect == Spec => []TypeOK
<1>1. IInv => TypeOK
    BY DEF IInv
<1>2. QED
    BY <1>1, IInvAlways, PTL

\* "concurrent runs never race": while the file lock can be had, at most one bridge is
\* between the second read of the document and its write.
THEOREM ExchangeExclusive == Spec => []OneExchange
<1>1. IInv => OneExchange
    <2> SUFFICES ASSUME LockHeld, "nolock" \notin blame PROVE OneExchange
        BY DEF IInv, OneExchange
    <2> DEFINE S == {b \in Bridges : refresh[b].at \in {"post", "write"}}
    <2>1. CASE S = {}
        <3>1. Cardinality(S) = 0
            BY <2>1, FS_EmptySet
        <3>2. QED
            BY <3>1 DEF OneExchange
    <2>2. CASE S # {}
        <3> PICK b \in Bridges : b \in S
            BY <2>2
        <3>1. S = {b}
            BY OneInExchange
        <3>2. Cardinality(S) = 1
            BY <3>1, FS_Singleton
        <3>3. QED
            BY <3>2 DEF OneExchange
    <2>3. QED
        BY <2>1, <2>2
<1>2. QED
    BY <1>1, IInvAlways, PTL

\* Unless an answer was lost or the document could not be written, the refresh token the
\* endpoint takes is in the document or about to be written into it, whoever goes without
\* the lock.
THEOREM GrantsAreKept == Spec => []GrantKept
<1>1. IInv => GrantKept
    BY DEF IInv
<1>2. QED
    BY <1>1, IInvAlways, PTL

\* After a 401 and a reload, the refused token is sent again only when the document held
\* it at the reload: whatever the other bridges, the CLI and the other requests do
\* meanwhile, it cannot come back.
THEOREM ReloadIsRead == Spec => []RetryReadsFile
<1>1. IInv => RetryReadsFile
    <2> SUFFICES ASSUME NotBack PROVE RetryReadsFile
        BY DEF IInv
    <2>1. QED
        BY DEF NotBack, Holds, RetryReadsFile
<1>2. QED
    BY <1>1, IInvAlways, PTL

\* As long as no answer was lost, the document and its lock could be used and the CLI kept
\* away, no bridge posts a refresh token that is spent.
THEOREM NoSpentGrant == Spec => OneRefresher
<1>1. IInv /\ [Next]_vars =>
        [blame = {} => \A b \in Bridges : ~PostRefused(b)]_vars
    <2> SUFFICES ASSUME IInv, blame = {}, NEW b \in Bridges, PostRefused(b)
                 PROVE  FALSE
        OBVIOUS
    <2>1. refresh[b].at = "post" /\ cache[b].pair \notin unspent
        BY DEF PostRefused
    <2>2. QED
        BY <2>1 DEF IInv, Untroubled, NewestOnly
<1>2. QED
    BY <1>1, IInvAlways, PTL DEF Spec, OneRefresher
=============================================================================
