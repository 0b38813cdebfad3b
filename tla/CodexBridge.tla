----------------------------- MODULE CodexBridge -----------------------------
(***************************************************************************)
(* The Codex bridge, proxy/codex_bridge: requests that read a token from   *)
(* their process's provider, send, and retry; and the provider, which      *)
(* refreshes under a file lock and writes the rotated pair back into the   *)
(* document it shares with other bridges and with the codex CLI.           *)
(*                                                                         *)
(* A pair is an access token and the refresh token issued with it, and is  *)
(* named by its number.  A grant on a pair's refresh token spends it.      *)
(***************************************************************************)
EXTENDS Integers, FiniteSets, SequencesExt

CONSTANTS
    Bridges,        \* the processes
    Requests,       \* the requests
    Settings,       \* home, known and faults, as below, in the combinations to consider
    MaxRetries,     \* AURORA_CODEX_MAX_INLINE_RETRIES
    MaxPosts,       \* max_attempts of a refresh
    MaxPairs        \* bound on the pairs issued

(* exp    the access token is a JWT with a readable exp                    *)
(* stamp  it is not, and the document has a last_refresh                   *)
(* none   it has neither                                                   *)
AllAges == {"exp", "stamp", "none"}

(* down     the refresh endpoint does not answer, or answers 5xx           *)
(* lost     it spends the grant and its answer is lost                     *)
(* nowrite  the document cannot be written                                 *)
(* cli      the codex CLI refreshes on its own, without the file lock      *)
(* nolock   the lock file cannot be opened, or flock fails                 *)
(* unread   the document cannot be read                                    *)
AllFaults == {"down", "lost", "nowrite", "cli", "nolock", "unread"}

ASSUME CodexAssumption ==
    /\ Settings \subseteq [home : [Requests -> Bridges], known : AllAges, faults : SUBSET AllFaults]
    /\ IsFiniteSet(Requests) /\ IsFiniteSet(Bridges) /\ Requests # {}
    /\ MaxRetries \in Nat /\ MaxPosts \in Nat \ {0} /\ MaxPairs \in Nat \ {0}

VARIABLES
    home,           \* home[r]: the bridge that serves r
    known,          \* what is known of the age of a token
    faults,         \* what can go wrong
    token,          \* token[n]: how the backend and the clock see pair n's access token
    unspent,        \* the pairs whose refresh token the endpoint still takes
    issued,         \* number of pairs issued
    doc,            \* auth.json
    cli,            \* the pair the CLI has been given and has not written; 0 if none
    cache,          \* cache[b]: _creds of b's provider
    refresh,        \* refresh[b]: _refresh_locked of b's provider
    flock,          \* the bridges that hold the lock on the .lock file
    req,            \* req[r]: one call of _forward_with_retry
    blame           \* history: which faults that can cost a pair have happened

vars == <<home, known, faults, token, unspent, issued, doc, cli, cache, refresh, flock, req, blame>>
world == <<home, known, faults, token>>
oauth == <<unspent, issued>>

Pairs == 1..MaxPairs

\* ageof: the pair whose age is_expired works out; 0 if there is nothing to go by.
Creds == [pair : Pairs, ageof : 0..MaxPairs]
NoCreds == [pair |-> 0, ageof |-> 0]

Idle == [at |-> "idle", by |-> CHOOSE r \in Requests : TRUE, posts |-> 0, reread |-> FALSE]

\* Whole, cut and failed streams; "incomplete" ends one as "completed" does.
Streams == {<<"item", "completed">>, <<"item">>, <<"item", "failed">>}

Fresh == [at |-> "token", attempt |-> 0, reloaded |-> FALSE, tok |-> 0, blind |-> FALSE,
          reply |-> "none", events |-> <<>>, first |-> 0, file |-> 0]

Init ==
    /\ \E s \in Settings : home = s.home /\ known = s.known /\ faults = s.faults
    /\ token = [n \in Pairs |-> "fresh"]
    /\ unspent = {1} /\ issued = 1
    /\ doc = [pair |-> 1, ageof |-> IF known = "none" THEN 0 ELSE 1]
    /\ cli = 0 /\ flock = {} /\ blame = {}
    /\ cache = [b \in Bridges |-> NoCreds]
    /\ refresh = [b \in Bridges |-> Idle]
    /\ req = [r \in Requests |-> Fresh]

-----------------------------------------------------------------------------
(* Credentials.                                                            *)

\* Unknown age is never expired.
is_expired(c) == c.ageof # 0 /\ token[c.ageof] \in {"due", "expired"}

\* The creds a refresh returns keep the document they were read with, so without an
\* exp their age is still worked out from the last_refresh before.
refreshed(c, n) == [pair |-> n, ageof |-> IF known = "exp" THEN n ELSE c.ageof]

\* last_refresh is set by every write.
written(n) == [pair |-> n, ageof |-> n]

Accepted(n) == token[n] \in {"fresh", "due"}

Done(how) == [Fresh EXCEPT !.at = "done", !.reply = how]

GotToken(q, c) ==
    [q EXCEPT !.at = "account", !.tok = c.pair, !.blind = (c.ageof = 0)]

\* get_access_token, with the provider's lock.
GetToken(r) ==
    LET b == home[r]
        c == IF cache[b] = NoCreds THEN doc ELSE cache[b]
    IN  /\ req[r].at = "token" /\ refresh[b].at = "idle"
        /\ cache' = [cache EXCEPT ![b] = c]
        /\ IF is_expired(c)
           THEN /\ refresh' = [refresh EXCEPT ![b] = [Idle EXCEPT !.at = "flock", !.by = r]]
                /\ req' = [req EXCEPT ![r].at = "refreshing"]
           ELSE /\ req' = [req EXCEPT ![r] = GotToken(@, c)]
                /\ UNCHANGED refresh
        /\ UNCHANGED <<world, oauth, doc, cli, flock, blame>>

\* get_account_id reads the document again when another request has dropped the creds.
GetAccount(r) ==
    LET b == home[r] IN
    /\ req[r].at = "account" /\ refresh[b].at = "idle"
    /\ cache' = [cache EXCEPT ![b] = IF @ = NoCreds THEN doc ELSE @]
    /\ req' = [req EXCEPT ![r].at = "send"]
    /\ UNCHANGED <<world, oauth, doc, cli, refresh, flock, blame>>

\* _refresh_locked returns: the request goes on with c.
Returns(b, c) ==
    /\ cache' = [cache EXCEPT ![b] = c]
    /\ refresh' = [refresh EXCEPT ![b] = Idle]
    /\ flock' = flock \ {b}
    /\ req' = [req EXCEPT ![refresh[b].by] = GotToken(@, c)]

\* Faulty: the error leaves the lock where it is.
Mutant_Raises(b) ==
    /\ refresh' = [refresh EXCEPT ![b] = Idle]
    /\ req' = [req EXCEPT ![refresh[b].by] = Done("credentials")]
    /\ UNCHANGED <<cache, flock>>

\* CredentialsError: the request is answered 401 credentials_unavailable.
Raises(b) ==
    /\ refresh' = [refresh EXCEPT ![b] = Idle]
    /\ flock' = flock \ {b}
    /\ req' = [req EXCEPT ![refresh[b].by] = Done("credentials")]
    /\ UNCHANGED cache

\* Faulty: what the provider has in memory is refreshed, whatever the document says.
Mutant_Flock(b) ==
    /\ refresh[b].at = "flock" /\ flock = {}
    /\ flock' = {b}
    /\ refresh' = [refresh EXCEPT ![b].at = "post"]
    /\ UNCHANGED <<world, oauth, doc, cli, cache, req, blame>>

\* Faulty: nobody looks whether the lock is free.
Mutant_Flock_unlocked(b) ==
    /\ refresh[b].at = "flock"
    /\ flock' = flock \cup {b}
    /\ cache' = [cache EXCEPT ![b] = doc]
    /\ refresh' = [refresh EXCEPT ![b].at = "post"]
    /\ UNCHANGED <<world, oauth, doc, cli, req, blame>>

\* The document is read again; one that cannot be read leaves what is in memory.
Reread(b, locked) ==
    \/ /\ IF is_expired(doc)
          THEN /\ cache' = [cache EXCEPT ![b] = doc]
               /\ refresh' = [refresh EXCEPT ![b].at = "post"]
               /\ flock' = flock \cup locked
               /\ UNCHANGED req
          ELSE Returns(b, doc)
       /\ blame' = IF locked = {} THEN blame \cup {"nolock"} ELSE blame
    \/ /\ "unread" \in faults \/ locked = {}
       /\ refresh' = [refresh EXCEPT ![b].at = "post"]
       /\ flock' = flock \cup locked
       /\ blame' = blame \cup {IF locked = {} THEN "nolock" ELSE "unread"}
       /\ UNCHANGED <<cache, req>>

\* The lock is taken, or the refresh goes on without it: when flock fails, and when the
\* lock file cannot be opened, which also leaves out the second read.
Flock(b) ==
    /\ refresh[b].at = "flock"
    /\ \/ flock = {} /\ Reread(b, {b})
       \/ "nolock" \in faults /\ Reread(b, {})
    /\ UNCHANGED <<world, oauth, doc, cli>>

\* Faulty: one attempt too many.
Mutant_PostFails(b) ==
    IF refresh[b].posts < MaxPosts
    THEN /\ refresh' = [refresh EXCEPT ![b].posts = @ + 1]
         /\ UNCHANGED <<cache, flock, req>>
    ELSE Raises(b)

\* Network errors and 5xx are tried again.
PostFails(b) ==
    IF refresh[b].posts + 1 < MaxPosts
    THEN /\ refresh' = [refresh EXCEPT ![b].posts = @ + 1]
         /\ UNCHANGED <<cache, flock, req>>
    ELSE Raises(b)

Rotate(n) ==
    /\ issued < MaxPairs
    /\ issued' = issued + 1
    /\ unspent' = (unspent \ {n}) \cup {issued'}

\* The endpoint gives a new pair, and the answer arrives.
PostGranted(b) ==
    /\ refresh[b].at = "post" /\ cache[b].pair \in unspent
    /\ Rotate(cache[b].pair)
    /\ refresh' = [refresh EXCEPT ![b].at = "write"]
    /\ cache' = [cache EXCEPT ![b] = refreshed(@, issued')]
    /\ UNCHANGED <<world, doc, cli, flock, req, blame>>

PostLost(b) ==
    /\ "lost" \in faults /\ refresh[b].at = "post" /\ cache[b].pair \in unspent
    /\ Rotate(cache[b].pair)
    /\ blame' = blame \cup {"lost"}
    /\ PostFails(b)
    /\ UNCHANGED <<world, doc, cli>>

\* At the bound on the pairs the endpoint does not answer either.
PostDown(b) ==
    /\ "down" \in faults \/ issued = MaxPairs
    /\ refresh[b].at = "post"
    /\ PostFails(b)
    /\ UNCHANGED <<world, oauth, doc, cli, blame>>

\* A 4xx: somebody else may have rotated the pair, so the document is read once more.
PostRefused(b) ==
    LET final == refresh[b].reread \/ cache[b].pair = doc.pair IN
    /\ refresh[b].at = "post" /\ cache[b].pair \notin unspent
    /\ \/ (final \/ "unread" \in faults) /\ Raises(b)
       \/ ~final /\ ~is_expired(doc) /\ Returns(b, doc)
       \/ /\ ~final /\ is_expired(doc)
          /\ cache' = [cache EXCEPT ![b] = doc]
          /\ refresh' = [refresh EXCEPT ![b].posts = 0, ![b].reread = TRUE]
          /\ UNCHANGED <<flock, req>>
    /\ UNCHANGED <<world, oauth, doc, cli, blame>>

\* Faulty: the pair that was posted is written.
Mutant_WriteBack(b) ==
    /\ refresh[b].at = "write"
    /\ Returns(b, cache[b])
    /\ UNCHANGED <<world, oauth, cli, doc, blame>>

\* _atomic_write_back.  A failure is logged, and the pair is in memory only.
WriteBack(b) ==
    /\ refresh[b].at = "write"
    /\ Returns(b, cache[b])
    /\ \/ doc' = written(cache[b].pair) /\ UNCHANGED blame
       \/ "nowrite" \in faults /\ blame' = blame \cup {"nowrite"} /\ UNCHANGED doc
    /\ UNCHANGED <<world, oauth, cli>>

-----------------------------------------------------------------------------
(* Requests.                                                               *)

\* The terminal event decides; without one the stream was cut.
aggregate(events) ==
    LET terminal == SelectSeq(events, LAMBDA e : e # "item")
    IN  IF terminal = <<>> THEN "truncated"
        ELSE IF Last(terminal) = "failed" THEN "failed" ELSE "completed"

Retry(q) == [q EXCEPT !.at = "token", !.attempt = @ + 1, !.tok = 0, !.blind = FALSE]

\* Tried again up to the bound.
RetryOr(q, how) == IF q.attempt < MaxRetries THEN Retry(q) ELSE Done(how)

Kept == UNCHANGED <<world, oauth, doc, cli, refresh, flock, blame>>

\* load_credentials raises in one of the two, and the request is answered 401
\* credentials_unavailable.
Unread(r) ==
    /\ "unread" \in faults /\ req[r].at \in {"token", "account"}
    /\ refresh[home[r]].at = "idle" /\ cache[home[r]] = NoCreds
    /\ req' = [req EXCEPT ![r] = Done("credentials")]
    /\ UNCHANGED cache /\ Kept

\* The connection fails, or the backend answers 429, 5xx or another error.  A cap, a wait
\* that is too long, a bad request, and an error body that breaks off end it at once.
Busy(r) ==
    /\ req[r].at = "send"
    /\ \E next \in {RetryOr(req[r], "error"), Done("error")} : req' = [req EXCEPT ![r] = next]
    /\ UNCHANGED cache /\ Kept

\* A streaming client gets the bytes as they come.
Passthrough(r) ==
    /\ req[r].at = "send" /\ Accepted(req[r].tok)
    /\ req' = [req EXCEPT ![r] = Done("passed")]
    /\ UNCHANGED cache /\ Kept

\* For the others the stream is collected; what failed or was cut is tried again, and a
\* failure that names a cap or the token goes to the client, the latter without creds.
Aggregate(r) ==
    /\ req[r].at = "send" /\ Accepted(req[r].tok)
    /\ \E s \in Streams :
         \/ /\ aggregate(s) = "completed"
            /\ req' = [req EXCEPT ![r] = [Done("answered") EXCEPT !.events = s]]
            /\ UNCHANGED cache
         \/ /\ aggregate(s) # "completed"
            /\ req' = [req EXCEPT ![r] = RetryOr(@, "error")]
            /\ UNCHANGED cache
         \/ /\ aggregate(s) = "failed" /\ refresh[home[r]].at = "idle"
            /\ req' = [req EXCEPT ![r] = Done("error")]
            /\ \E c \in {cache[home[r]], NoCreds} : cache' = [cache EXCEPT ![home[r]] = c]
    /\ Kept

\* The backend refuses the token; its answer is on its way.
Refuse(r) ==
    /\ req[r].at = "send" /\ ~Accepted(req[r].tok)
    /\ req' = [req EXCEPT ![r].at = "refused"]
    /\ UNCHANGED cache /\ Kept

\* Faulty: the creds are kept.
Mutant_Unauthorized(r) ==
    /\ req[r].at = "refused" /\ refresh[home[r]].at = "idle"
    /\ req' = [req EXCEPT ![r] =
         IF req[r].reloaded THEN Done("unauthorized")
         ELSE [Retry(@) EXCEPT !.reloaded = TRUE, !.first = req[r].tok, !.file = doc.pair]]
    /\ UNCHANGED cache /\ Kept

\* force_reload, which waits for the provider's lock, and one more try.
Unauthorized(r) ==
    /\ req[r].at = "refused" /\ refresh[home[r]].at = "idle"
    /\ cache' = [cache EXCEPT ![home[r]] = NoCreds]
    /\ req' = [req EXCEPT ![r] =
         IF req[r].reloaded THEN Done("unauthorized")
         ELSE [Retry(@) EXCEPT !.reloaded = TRUE, !.first = req[r].tok, !.file = doc.pair]]
    /\ Kept

-----------------------------------------------------------------------------
(* The clock, the backend and the CLI.                                     *)

\* The leeway begins, then the token expires.
Age(n) ==
    /\ n <= issued /\ token[n] \in {"fresh", "due"}
    /\ \A m \in 1..(n - 1) : token[m] \notin {"fresh", "due"}
    /\ token' = [token EXCEPT ![n] = IF @ = "fresh" THEN "due" ELSE "expired"]
    /\ UNCHANGED <<home, known, faults, oauth, doc, cli, cache, refresh, flock, req, blame>>

CliRefreshes ==
    /\ "cli" \in faults /\ cli = 0 /\ doc.pair \in unspent
    /\ Rotate(doc.pair)
    /\ cli' = issued' /\ blame' = blame \cup {"cli"}
    /\ UNCHANGED <<world, doc, cache, refresh, flock, req>>

CliWrites ==
    /\ cli # 0
    /\ doc' = written(cli) /\ cli' = 0
    /\ UNCHANGED <<world, oauth, cache, refresh, flock, req, blame>>

ProviderStep(b) ==
    \/ Flock(b) \/ PostGranted(b) \/ PostLost(b) \/ PostDown(b)
    \/ PostRefused(b) \/ WriteBack(b)

RequestStep(r) ==
    \/ GetToken(r) \/ GetAccount(r) \/ Unread(r) \/ Busy(r)
    \/ Passthrough(r) \/ Aggregate(r) \/ Refuse(r) \/ Unauthorized(r)

Outside == CliRefreshes \/ CliWrites \/ \E n \in Pairs : Age(n)

BridgeStep == (\E b \in Bridges : ProviderStep(b)) \/ (\E r \in Requests : RequestStep(r))

Next == Outside \/ BridgeStep

Spec == Init /\ [][Next]_vars

\* Every call has a timeout, and the threads run.
FairSpec == Spec /\ WF_vars(BridgeStep)

-----------------------------------------------------------------------------
(* Properties.                                                             *)

Refreshes == [at : {"idle", "flock", "post", "write"}, by : Requests,
              posts : 0..(MaxPosts - 1), reread : BOOLEAN]

Calls == [at : {"token", "refreshing", "account", "send", "refused", "done"},
          attempt : 0..(MaxRetries + 1), reloaded : BOOLEAN, tok : 0..MaxPairs,
          blind : BOOLEAN, events : Streams \cup {<<>>}, first : 0..MaxPairs, file : 0..MaxPairs,
          reply : {"none", "credentials", "error", "passed", "answered", "unauthorized"}]

\* Types; a call takes MaxRetries retries, and one more after the reload, and a refresh
\* posts at most MaxPosts times.
TypeOK ==
    /\ home \in [Requests -> Bridges] /\ known \in AllAges /\ faults \subseteq AllFaults
    /\ unspent \subseteq Pairs /\ issued \in Pairs
    /\ token \in [Pairs -> {"fresh", "due", "expired"}]
    /\ doc \in Creds /\ cli \in 0..MaxPairs
    /\ cache \in [Bridges -> Creds \cup {NoCreds}]
    /\ refresh \in [Bridges -> Refreshes] /\ req \in [Requests -> Calls]
    /\ flock \subseteq Bridges /\ blame \subseteq AllFaults

\* "concurrent runs never race" (credentials.py:290): as long as no answer was lost, the
\* document and the lock could be used and the CLI kept away, no bridge presents a spent
\* refresh token.
OneRefresher ==
    [][blame = {} => \A b \in Bridges : ~PostRefused(b)]_vars

\* A bridge that goes through the rotation keeps what it got: every refresh token the
\* endpoint takes is in the document or on its way into it, unless an answer was lost
\* or the document could not be written.  That takes neither the lock nor a CLI that
\* keeps away: the grant itself lets only one of them through.
GrantKept ==
    blame \cap {"lost", "nowrite"} = {} =>
      \A n \in unspent : \/ n \in {doc.pair, cli}
                         \/ \E b \in Bridges : refresh[b].at = "write" /\ cache[b].pair = n

\* "Another bridge/CLI may have refreshed while we waited" (credentials.py:347): two
\* bridges are never in the exchange at the same time, while the lock can be had.
OneExchange == "nolock" \notin blame => Cardinality({b \in Bridges : refresh[b].at \in {"post", "write"}}) <= 1

\* "401 once -> force reload creds and retry (token may have rotated)" (bridge.py:377):
\* the retry sends the refused token again only when the document held nothing else.
RetryReadsFile ==
    \A r \in Requests :
        req[r].at \in {"send", "refused"} /\ req[r].reloaded /\ req[r].tok = req[r].first
          => req[r].file = req[r].first

\* "Unknown age: don't proactively refresh; a 401 will force it." (credentials.py:128):
\* the 401 of a token of unknown age leads to another token before the client gets it.
UnknownAgeRefreshed ==
    [][\A r \in Requests : req'[r].reply = "unauthorized" /\ req'[r] # req[r] =>
          ~(req[r].blind /\ req[r].tok = req[r].first)]_vars

\* Every request is answered.
RequestEnds == \A r \in Requests : <>(req[r].at = "done")

-----------------------------------------------------------------------------
(* The inductive invariant.                                                *)

Holds(r) == req[r].at \in {"account", "send", "refused"}

\* The retries are counted, and a request that sends has a token.
RetriesCounted ==
    \A r \in Requests :
        /\ req[r].attempt <= MaxRetries + (IF req[r].reloaded THEN 1 ELSE 0)
        /\ Holds(r) => req[r].tok # 0

\* A refresh belongs to a request of its process, and has creds; the file lock is held
\* from the second read of the document to the end, by one bridge, if it can be had.
LockHeld ==
    /\ \A b \in Bridges : refresh[b].at # "idle" =>
          /\ req[refresh[b].by].at = "refreshing" /\ home[refresh[b].by] = b
          /\ cache[b] # NoCreds
    /\ \A b \in flock : refresh[b].at \in {"post", "write"}
    /\ \A b, c \in flock : b = c
    /\ "nolock" \notin blame => \A b \in Bridges : refresh[b].at \in {"post", "write"} => b \in flock

\* The endpoint takes one refresh token, that of the newest pair.
NewestOnly ==
    /\ unspent = {issued} /\ doc.pair <= issued /\ cli <= issued
    /\ \A b \in Bridges : cache[b].pair <= issued
    /\ \A r \in Requests : req[r].tok <= issued

\* A pair granted and not yet written.
Unwritten == cli # 0 \/ \E b \in Bridges : refresh[b].at = "write"

\* Until the newest pair is written, only the one that was granted it has it: no request
\* sends it, and no other bridge holds it.
Unshared ==
    /\ cli # 0 => cli = issued
    /\ \A b \in Bridges :
          /\ refresh[b].at = "write" => cache[b].pair = issued /\ cli = 0
          /\ Unwritten /\ cache[b].pair = issued => refresh[b].at = "write"
          /\ \A c \in Bridges : refresh[b].at = "write" /\ refresh[c].at = "write" => b = c
    /\ Unwritten => doc.pair # issued /\ \A r \in Requests : req[r].tok # issued

\* Without a fault the bridge that posts has the newest pair.
Untroubled ==
    blame = {} => /\ cli = 0
                  /\ \A b \in Bridges : refresh[b].at = "post" => cache[b].pair = issued

\* A token that was refused and that the document did not hold then does not come back.
NotBack ==
    \A r \in Requests : req[r].reloaded /\ req[r].file # req[r].first =>
        /\ req[r].first \in (1..issued) \ {doc.pair, cli, cache[home[r]].pair}
        /\ Holds(r) => req[r].tok # req[r].first
        /\ \A b \in Bridges : refresh[b].at = "write" => cache[b].pair # req[r].first

IInv ==
    /\ TypeOK /\ RetriesCounted /\ LockHeld /\ NewestOnly /\ Unshared
    /\ Untroubled /\ GrantKept /\ NotBack
=============================================================================
