---------------------------- MODULE ClaudeBridge ----------------------------
(***************************************************************************)
(* The Claude bridge (proxy/claude_code_bridge) with a pool of accounts    *)
(* kept in credential files: several bridge processes share the files, and *)
(* each serves several requests at once.  A request takes a token from the *)
(* first available account, which may mean refreshing it under two locks,  *)
(* sends the call upstream, and on an error waits, fails over to another   *)
(* account, or gives up.                                                   *)
(*                                                                         *)
(* The tokens of an account are numbered.  A refresh gives the next token  *)
(* and makes its predecessor's refresh grant worthless; tokens expire in   *)
(* order.  The locks are held in the states named for them: the provider's *)
(* in InProvider, the file's in InFile.                                    *)
(***************************************************************************)
EXTENDS Integers

CONSTANTS
    Procs,          \* bridge processes
    NumAccounts,    \* accounts of the pool, in the order of AURORA_CC_ACCOUNT_POOL
    Requests,       \* requests of the clients
    Settings,       \* what may be the case: [proc, prefix, faults]
    MaxRetries,     \* AURORA_CC_MAX_INLINE_RETRIES
    MaxToken,       \* bound on the tokens of an account
    MaxCrashes      \* bound on the crashes of all processes

(* outage     the refresh endpoint is down for all attempts of a refresh   *)
(* lost       it grants the refresh and the answer is lost                 *)
(* write      the new token cannot be written to the file                  *)
(* restrict   upstream refuses an account (403, 402)                       *)
(* cap        upstream says that an account's quota is used up             *)
(* flaky      network errors, throttling and 5xx                           *)
(* files      the lock file cannot be locked, or the credentials not read  *)
AllFaults == {"outage", "lost", "write", "restrict", "cap", "flaky", "files"}

Accounts == 1..NumAccounts
Tokens   == 1..MaxToken
NoToken  == 0
NoSlot   == 0

ASSUME BridgeAssumption ==
    /\ NumAccounts \in Nat \ {0} /\ MaxToken \in Nat \ {0}
    /\ MaxRetries \in Nat /\ MaxCrashes \in Nat
    /\ \A s \in Settings : /\ s.proc \in [Requests -> Procs]
                          /\ DOMAIN s.prefix = Accounts \X Tokens
                          /\ s.faults \subseteq AllFaults

VARIABLES
    setting,    \* which of Settings this is
    \* the authorization server and the files
    newest,     \* the newest token of an account
    expired,    \* its tokens up to this one are expired
    file,       \* the token in its file
    orphaned,   \* accounts whose newest token was lost on its way to the file
    \* a slot of the pool, <<process, account>>
    creds,      \* the provider's _creds
    last,       \* last_token
    invalid, exhausted,
    refused,    \* history: the newest of its tokens that upstream has refused
    \* a request
    proc,       \* the process that serves it
    st,         \* where it is: see States
    slot,       \* the account it uses
    tok,        \* the token it was given
    attempt,
    sends,      \* the calls it has made upstream
    crashes

server == <<newest, expired>>
pool == <<last, invalid, exhausted, refused>>
request == <<proc, slot, tok, attempt, sends>>
vars == <<setting, server, file, orphaned, creds, pool, st, request, crashes>>

Faults == setting.faults
Prefix(a, t) == setting.prefix[<<a, t>>]    \* token_prefix: its first 20 characters

Slots == Procs \X Accounts

Ended == {"ok", "error", "unavailable", "gone"}
States ==
    {"select",      \* about to choose an account
     "provider",    \* waits for the provider's lock
     "flock",       \* holds it, waits for the lock file
     "post",        \* holds both, asks for a new token
     "write",       \* holds both, has the new token
     "note",        \* has a token, not yet recorded in the slot
     "failed",      \* has a CredentialsError
     "send", "sent"} \cup Ended

InFile     == {"post", "write"}
InProvider == {"flock"} \cup InFile

MySlot(r) == <<proc[r], slot[r]>>
ProviderBusy(s) == \E r \in Requests : MySlot(r) = s /\ st[r] \in InProvider
FileBusy(a)     == \E r \in Requests : slot[r] = a /\ st[r] \in InFile

IsExpired(a, t) == t <= expired[a]
IsAvailable(s)  == s \notin invalid /\ s \notin exhausted

Init ==
    /\ setting \in Settings
    /\ newest = [a \in Accounts |-> 1] /\ file = newest
    /\ expired = [a \in Accounts |-> 0] /\ orphaned = {}
    /\ creds = [s \in Slots |-> NoToken] /\ last = creds /\ refused = creds
    /\ invalid = {} /\ exhausted = {}
    /\ proc = setting.proc
    /\ st = [r \in Requests |-> "select"]
    /\ slot = [r \in Requests |-> NoSlot] /\ tok = [r \in Requests |-> NoToken]
    /\ attempt = [r \in Requests |-> 0] /\ sends = attempt
    /\ crashes = 0

Goto(r, s) == st' = [st EXCEPT ![r] = s]

-----------------------------------------------------------------------------
(* MultiAccountCredentialProvider.get_access_token, in a worker thread.    *)

IsFirst(p, a) ==
    /\ IsAvailable(<<p, a>>)
    /\ \A b \in 1..(a - 1) : ~IsAvailable(<<p, b>>)

\* The first available account in the order of the pool, if any.
_select_slot_locked(r) ==
    /\ st[r] = "select"
    /\ \/ \E a \in Accounts :
            /\ IsFirst(proc[r], a)
            /\ slot' = [slot EXCEPT ![r] = a] /\ Goto(r, "provider")
       \/ /\ \A a \in Accounts : ~IsAvailable(<<proc[r], a>>)
          /\ Goto(r, "unavailable") /\ UNCHANGED slot
    /\ UNCHANGED <<server, file, orphaned, creds, pool, proc, tok, attempt, sends, crashes>>

GiveToken(r, t) == tok' = [tok EXCEPT ![r] = t] /\ Goto(r, "note")

\* The provider's own lock: what it remembers, or else the file, may do.
_load(r) ==
    /\ st[r] = "provider" /\ ~ProviderBusy(MySlot(r))
    /\ LET s == MySlot(r)
           t == IF creds[s] = NoToken THEN file[slot[r]] ELSE creds[s]
       IN  \/ /\ creds' = [creds EXCEPT ![s] = t]
              /\ IF IsExpired(slot[r], t) THEN Goto(r, "flock") /\ UNCHANGED tok
                 ELSE GiveToken(r, t)
           \/ /\ creds[s] = NoToken /\ "files" \in Faults
              /\ Goto(r, "failed") /\ UNCHANGED <<creds, tok>>
    /\ UNCHANGED <<server, file, orphaned, pool, proc, slot, attempt, sends, crashes>>

\* The lock file: another process may have refreshed while we waited.  Without the lock
\* or without the file it goes on all the same.
flock(r) ==
    /\ st[r] = "flock"
    /\ ~FileBusy(slot[r]) \/ "files" \in Faults
    /\ LET fresh == file[slot[r]]
       IN  \/ /\ IsExpired(slot[r], fresh) \/ "files" \in Faults
              /\ Goto(r, "post") /\ UNCHANGED <<creds, tok>>
           \/ /\ ~IsExpired(slot[r], fresh)
              /\ creds' = [creds EXCEPT ![MySlot(r)] = fresh]
              /\ GiveToken(r, fresh)
    /\ UNCHANGED <<server, file, orphaned, pool, proc, slot, attempt, sends, crashes>>

\* The refresh grant of the provider's own token is spent, if it is the newest.
refresh_credentials(r) ==
    /\ st[r] = "post"
    /\ LET a == slot[r]
           live == creds[MySlot(r)] = newest[a]
       IN  \/ /\ live
              /\ newest' = [newest EXCEPT ![a] = @ + 1]
              /\ \/ /\ creds' = [creds EXCEPT ![MySlot(r)] = newest'[a]]
                    /\ Goto(r, "write") /\ UNCHANGED orphaned
                 \/ /\ "lost" \in Faults /\ orphaned' = orphaned \cup {a}
                    /\ Goto(r, "failed") /\ UNCHANGED creds
           \/ /\ ~live \/ "outage" \in Faults
              /\ Goto(r, "failed") /\ UNCHANGED <<newest, orphaned, creds>>
    /\ UNCHANGED <<expired, file, pool, request, crashes>>

\* Faulty: the token is written where the file provider does not read it.
Mutant_atomic_write_creds(r) ==
    /\ st[r] = "write"
    /\ orphaned' = orphaned \ {slot[r]} /\ UNCHANGED file
    /\ GiveToken(r, creds[MySlot(r)])
    /\ UNCHANGED <<server, creds, pool, proc, slot, attempt, sends, crashes>>

\* A failure to write is logged; the request goes on.
_atomic_write_creds(r) ==
    /\ st[r] = "write"
    /\ \/ /\ file' = [file EXCEPT ![slot[r]] = creds[MySlot(r)]]
          /\ orphaned' = orphaned \ {slot[r]}
       \/ "write" \in Faults /\ orphaned' = orphaned \cup {slot[r]} /\ UNCHANGED file
    /\ GiveToken(r, creds[MySlot(r)])
    /\ UNCHANGED <<server, creds, pool, proc, slot, attempt, sends, crashes>>

\* Under the pool's lock again: the token is noted in its slot.
RecordToken(r) ==
    /\ st[r] = "note"
    /\ last' = [last EXCEPT ![MySlot(r)] = tok[r]]
    /\ Goto(r, "send")
    /\ UNCHANGED <<server, file, orphaned, creds, invalid, exhausted, refused, request, crashes>>

\* Faulty: the slot stays in, for the failure may pass.
Mutant_GiveUpSlot(r) ==
    /\ st[r] = "failed"
    /\ Goto(r, "select")
    /\ UNCHANGED <<server, file, orphaned, creds, pool, request, crashes>>

\* except CredentialsError: the slot is out, and the next one is tried.
GiveUpSlot(r) ==
    /\ st[r] = "failed"
    /\ invalid' = invalid \cup {MySlot(r)}
    /\ Goto(r, "select")
    /\ UNCHANGED <<server, file, orphaned, creds, last, exhausted, refused, request, crashes>>

-----------------------------------------------------------------------------
(* _forward_non_streaming and _stream_with_failover.                       *)

Send(r) ==
    /\ st[r] = "send"
    /\ sends' = [sends EXCEPT ![r] = @ + 1]
    /\ Goto(r, "sent")
    /\ UNCHANGED <<server, file, orphaned, creds, pool, proc, slot, tok, attempt, crashes>>

\* 2xx, or an error that no retry and no other account would help.
Answered(r) ==
    /\ st[r] = "sent"
    /\ Goto(r, "ok") \/ Goto(r, "error")
    /\ UNCHANGED <<server, file, orphaned, creds, pool, request, crashes>>

\* Network errors, throttling and 5xx: again after a pause, while attempts last.
\* (A pause longer than the limit gives the error back: see Answered.)
Transient(r) ==
    /\ st[r] = "sent" /\ "flaky" \in Faults
    /\ IF attempt[r] < MaxRetries
       THEN Goto(r, "select") /\ attempt' = [attempt EXCEPT ![r] = @ + 1]
       ELSE Goto(r, "error") /\ UNCHANGED attempt
    /\ UNCHANGED <<server, file, orphaned, creds, pool, proc, slot, tok, sends, crashes>>

\* Faulty: only the token noted last is looked at.
Mutant_find_slot_by_prefix(p, a, t) == {s \in {<<p, a>>} : last[s] = t}

\* Process p's providers whose token begins like account a's token t.
Alike(p, a, t) ==
    {b \in Accounts : creds[<<p, b>>] # NoToken /\ Prefix(b, creds[<<p, b>>]) = Prefix(a, t)}

\* The slot that an error of account a's token t is put down to: the one that handed out
\* this very token last, else the first one whose provider's token begins like it, else
\* none.
_find_slot_by_prefix(p, a, t) ==
    IF last[<<p, a>>] = t THEN {<<p, a>>}
    ELSE {<<p, b>> : b \in {b \in Alike(p, a, t) : \A c \in Alike(p, a, t) : b <= c}}

\* The search by prefix waits for the lock of each provider it asks.  (Meanwhile it has
\* the pool's lock and the event loop, so no step is possible here that the program does
\* not have.)
SearchDone(r) ==
    \/ last[MySlot(r)] = tok[r]
    \/ \A b \in Accounts :
          \/ \E c \in Alike(proc[r], slot[r], tok[r]) : c < b
          \/ ~ProviderBusy(<<proc[r], b>>)

\* None if an account is available, but also if all are invalid.
next_reset_at_is_None(p) ==
    LET mine == {s \in Slots : s[1] = p}
    IN  (\E s \in mine : s \notin invalid' /\ s \notin exhausted') \/ mine \subseteq invalid'

\* Faulty: one failover too many.
Mutant_Failover_limit(r) ==
    IF ~next_reset_at_is_None(proc[r])
    THEN Goto(r, "error") /\ UNCHANGED attempt
    ELSE /\ attempt' = [attempt EXCEPT ![r] = @ + 1]
         /\ IF attempt[r] > MaxRetries THEN Goto(r, "error") ELSE Goto(r, "select")

\* Faulty: failing over is not counted.
Mutant_Failover_count(r) ==
    IF next_reset_at_is_None(proc[r])
    THEN Goto(r, "select") /\ UNCHANGED attempt
    ELSE Goto(r, "error") /\ UNCHANGED attempt

Failover(r) ==
    IF ~next_reset_at_is_None(proc[r])
    THEN Goto(r, "error") /\ UNCHANGED attempt
    ELSE /\ attempt' = [attempt EXCEPT ![r] = @ + 1]
         /\ IF attempt[r] + 1 > MaxRetries THEN Goto(r, "error") ELSE Goto(r, "select")

\* 401, which an expired token may get, and 403 and 402.
AccountInvalid(r) ==
    /\ st[r] = "sent"
    /\ IsExpired(slot[r], tok[r]) \/ "restrict" \in Faults
    /\ SearchDone(r)
    /\ invalid' = invalid \cup _find_slot_by_prefix(proc[r], slot[r], tok[r])
    /\ refused' = [refused EXCEPT ![MySlot(r)] = IF @ < tok[r] THEN tok[r] ELSE @]
    /\ UNCHANGED exhausted
    /\ Failover(r)
    /\ UNCHANGED <<server, file, orphaned, creds, last, proc, slot, tok, sends, crashes>>

\* 429 with a long pause or no tokens left.  The time of the reset is taken from the
\* first header that has one, and may be past.
AccountExhausted(r) ==
    /\ st[r] = "sent" /\ "cap" \in Faults /\ SearchDone(r)
    /\ \/ exhausted' = exhausted \cup _find_slot_by_prefix(proc[r], slot[r], tok[r])
       \/ UNCHANGED exhausted
    /\ UNCHANGED <<invalid, refused>>
    /\ Failover(r)
    /\ UNCHANGED <<server, file, orphaned, creds, last, proc, slot, tok, sends, crashes>>

-----------------------------------------------------------------------------
(* Time, and the death of a process.                                       *)

\* An account's next token expires; the last one of the bound does not.
Expire(a) ==
    /\ expired[a] < newest[a] /\ expired[a] + 1 < MaxToken
    /\ expired' = [expired EXCEPT ![a] = @ + 1]
    /\ UNCHANGED <<newest, file, orphaned, creds, pool, st, request, crashes>>

\* exhausted_until passes.
Reset(s) ==
    /\ s \in exhausted /\ exhausted' = exhausted \ {s}
    /\ UNCHANGED <<server, file, orphaned, creds, last, invalid, refused, st, request, crashes>>

\* A process dies and is started again; its requests under way are gone.
Crash(p) ==
    /\ crashes < MaxCrashes /\ crashes' = crashes + 1
    /\ \E r \in Requests : proc[r] = p /\ st[r] \notin Ended
    /\ creds' = [s \in Slots |-> IF s[1] = p THEN NoToken ELSE creds[s]]
    /\ last' = [s \in Slots |-> IF s[1] = p THEN NoToken ELSE last[s]]
    /\ refused' = [s \in Slots |-> IF s[1] = p THEN NoToken ELSE refused[s]]
    /\ invalid' = {s \in invalid : s[1] # p} /\ exhausted' = {s \in exhausted : s[1] # p}
    /\ st' = [r \in Requests |->
                IF proc[r] = p /\ slot[r] # NoSlot /\ st[r] \notin Ended THEN "gone" ELSE st[r]]
    /\ orphaned' = orphaned \cup {slot[r] : r \in {q \in Requests : proc[q] = p /\ st[q] = "write"}}
    /\ UNCHANGED <<server, file, request>>

Step(r) ==
    \/ _select_slot_locked(r) \/ _load(r) \/ flock(r) \/ refresh_credentials(r)
    \/ _atomic_write_creds(r) \/ RecordToken(r) \/ GiveUpSlot(r) \/ Send(r)
    \/ Answered(r) \/ Transient(r) \/ AccountInvalid(r) \/ AccountExhausted(r)

Over == (\A r \in Requests : st[r] \in Ended) /\ UNCHANGED vars

Next ==
    /\ \/ \E r \in Requests : Step(r)
       \/ \E a \in Accounts : Expire(a)
       \/ \E s \in Slots : Reset(s)
       \/ \E p \in Procs : Crash(p)
       \/ Over
    /\ UNCHANGED setting

Spec == Init /\ [][Next]_vars

\* Threads run, locks are handed on, and the endpoints answer or time out.
FairSpec == Spec /\ \A r \in Requests : WF_vars(Step(r) /\ UNCHANGED setting)

-----------------------------------------------------------------------------
(* Properties.                                                             *)

TypeOK ==
    /\ setting \in Settings
    /\ newest \in [Accounts -> Tokens] /\ file \in [Accounts -> Tokens]
    /\ expired \in [Accounts -> 0..(MaxToken - 1)] /\ orphaned \subseteq Accounts
    /\ creds \in [Slots -> 0..MaxToken] /\ last \in [Slots -> 0..MaxToken]
    /\ refused \in [Slots -> 0..MaxToken]
    /\ invalid \subseteq Slots /\ exhausted \subseteq Slots
    /\ proc \in [Requests -> Procs] /\ st \in [Requests -> States]
    /\ slot \in [Requests -> 0..NumAccounts] /\ tok \in [Requests -> 0..MaxToken]
    /\ attempt \in [Requests -> 0..(MaxRetries + 1)] /\ sends \in [Requests -> Nat] /\ crashes \in 0..MaxCrashes

\* A request makes at most MaxRetries + 1 calls upstream, however throttling, network
\* errors and failovers between accounts mix: they share one counter (bridge.py:326).
BoundedSends == \A r \in Requests : sends[r] <= MaxRetries + 1

\* "The pool's file provider writes the rotated token back to this same file on every
\* refresh" (proxy/README.md:220-221): when no process is refreshing an account, its
\* file holds the newest token, unless a crash, a lost answer or a failed write took it.
FileHoldsNewest ==
    \A a \in Accounts : ~FileBusy(a) /\ a \notin orphaned => file[a] = newest[a]

\* "This is reliable even after a refresh changed the token" (credentials.py:685-687):
\* whatever order requests take, note and use their tokens in, an account whose token
\* upstream has refused is out of the pool, or its provider has a newer token -- as long
\* as no two tokens begin with the same 20 characters.
Telling == \A x, y \in Accounts \X Tokens : setting.prefix[x] = setting.prefix[y] => x = y
RefusedIsOut ==
    Telling => \A s \in Slots : refused[s] = NoToken \/ s \in invalid \/ refused[s] < creds[s]

(* The strengthening that makes the state properties inductive: a          *)
(* provider's lock has one holder; what a refresher holds is expired, then *)
(* newest and known to it alone; an account's newest token is in the file  *)
(* or in the hands of a refresher; a provider's token never gets older; a  *)
(* request has made at most as many calls as it counts.                    *)

Locks ==
    /\ \A r \in Requests : st[r] \notin Ended \cup {"select"} => slot[r] \in Accounts
    /\ \A q, r \in Requests :
         MySlot(q) = MySlot(r) /\ {st[q], st[r]} \subseteq InProvider => q = r

Refreshers ==
    \A r \in Requests :
        /\ st[r] \in {"flock", "post"} => IsExpired(slot[r], creds[MySlot(r)])
        /\ st[r] = "write" => creds[MySlot(r)] = newest[slot[r]]

\* No file and no provider is ahead of the server; what is still to be written is known
\* to its refresher only.
NewestKnown ==
    /\ \A a \in Accounts : file[a] <= newest[a]
    /\ \A s \in Slots : creds[s] <= newest[s[2]]
    /\ \A r \in Requests : st[r] = "write" =>
         /\ file[slot[r]] # newest[slot[r]]
         /\ \A p \in Procs \ {proc[r]} : creds[<<p, slot[r]>>] # newest[slot[r]]

NewestIsSomewhere ==
    \A a \in Accounts \ orphaned :
        file[a] = newest[a] \/ \E r \in Requests : slot[r] = a /\ st[r] = "write"

GivenTokens ==
    \A r \in Requests : st[r] \in {"note", "send", "sent"} => tok[r] <= creds[MySlot(r)]

CallsCounted ==
    \A r \in Requests :
        /\ sends[r] <= MaxRetries + 1
        /\ st[r] \notin Ended => attempt[r] <= MaxRetries /\ sends[r] <= attempt[r] + 1
        /\ st[r] \notin Ended \cup {"sent"} => sends[r] <= attempt[r]

IInv == /\ TypeOK /\ Locks /\ Refreshers /\ NewestKnown /\ NewestIsSomewhere
        /\ GivenTokens /\ CallsCounted /\ RefusedIsOut

\* Every request ends: no two processes wait for each other's locks, and no request
\* goes round the accounts for ever.
RequestEnds == \A r \in Requests : <>(st[r] \in Ended)

\* "only one bridge process should hit the refresh endpoint; others wait, then re-read
\* the rotated token" (credentials.py:447-449): a process with the lock spends the grant
\* that is in the file.
RefreshesWhatIsInFile ==
    \A r \in Requests : st[r] = "post" => creds[MySlot(r)] = file[slot[r]]
=============================================================================
