------------------------ MODULE ClaudeBridge_proofs ------------------------
(***************************************************************************)
(* Proofs about ClaudeBridge, for every number of processes, accounts,     *)
(* requests, tokens, retries and crashes and every set of faults: the      *)
(* inductive invariant IInv and the properties it gives.                   *)
(***************************************************************************)
EXTENDS ClaudeBridge, TLAPS

USE BridgeAssumption DEF BridgeAssumption, AllFaults

LEMMA InitIInv == Init => IInv
<1> SUFFICES ASSUME Init PROVE IInv
    OBVIOUS
<1>1. TypeOK
    BY DEF Init, TypeOK, Accounts, Tokens, Slots, States, NoToken, NoSlot
<1>2. Locks /\ Refreshers /\ CallsCounted /\ GivenTokens
    BY DEF Init, Locks, Refreshers, CallsCounted, GivenTokens, InProvider, InFile, Ended
<1>3. NewestIsSomewhere /\ NewestKnown
    BY DEF Init, NewestIsSomewhere, NewestKnown, Slots, NoToken
<1>4. RefusedIsOut
    BY DEF Init, RefusedIsOut
<1>5. QED
    BY <1>1, <1>2, <1>3, <1>4 DEF IInv

\* The slot of a request under way is one of the pool's.
LEMMA PlacedSlot ==
    ASSUME TypeOK, Locks, NEW r \in Requests, st[r] \notin Ended \cup {"select"}
    PROVE  slot[r] \in Accounts /\ MySlot(r) \in Slots
BY DEF TypeOK, Locks, MySlot, Slots

\* A step of a request that moves it from one state to another, and nobody else.
LEMMA StepMoves ==
    ASSUME TypeOK, NEW r \in Requests, Step(r)
    PROVE  /\ \E s \in States : st' = [st EXCEPT ![r] = s]
           /\ proc' = proc
           /\ \A q \in Requests \ {r} : st'[q] = st[q] /\ slot'[q] = slot[q]
           /\ st[r] # "select" => slot' = slot
           /\ st[r] \notin Ended
<1> USE DEF TypeOK, Goto, GiveToken, States, Ended, pool, server, request
<1>1. CASE _select_slot_locked(r)
    BY <1>1 DEF _select_slot_locked
<1>2. CASE _load(r)
    BY <1>2 DEF _load
<1>3. CASE flock(r)
    BY <1>3 DEF flock
<1>4. CASE refresh_credentials(r)
    BY <1>4 DEF refresh_credentials
<1>5. CASE _atomic_write_creds(r)
    BY <1>5 DEF _atomic_write_creds
<1>6. CASE RecordToken(r)
    BY <1>6 DEF RecordToken
<1>7. CASE GiveUpSlot(r)
    BY <1>7 DEF GiveUpSlot
<1>8. CASE Send(r)
    BY <1>8 DEF Send
<1>9. CASE Answered(r)
    BY <1>9 DEF Answered
<1>10. CASE Transient(r)
    BY <1>10 DEF Transient
<1>11. CASE AccountInvalid(r)
    BY <1>11 DEF AccountInvalid, Failover
<1>12. CASE AccountExhausted(r)
    BY <1>12 DEF AccountExhausted, Failover
<1>13. QED
    BY <1>1, <1>2, <1>3, <1>4, <1>5, <1>6, <1>7, <1>8, <1>9, <1>10, <1>11, <1>12 DEF Step

-----------------------------------------------------------------------------
(* Type correctness.                                                       *)

LEMMA TypeStep == TypeOK /\ Locks /\ Refreshers /\ CallsCounted /\ [Next]_vars => TypeOK'
<1> SUFFICES ASSUME TypeOK, Locks, Refreshers, CallsCounted, [Next]_vars PROVE TypeOK'
    OBVIOUS
<1> USE DEF pool, server, request, GiveToken, Goto, NoToken, NoSlot
<1>0. setting' \in Settings
    BY DEF Next, vars, TypeOK
<1>1. ASSUME NEW r \in Requests, Step(r) PROVE TypeOK'
    <2>1. st' \in [Requests -> States] /\ proc' \in [Requests -> Procs]
        BY <1>1, StepMoves DEF TypeOK
    <2> SUFFICES /\ refused' \in [Slots -> 0..MaxToken]
                 /\ newest' \in [Accounts -> Tokens] /\ file' \in [Accounts -> Tokens]
                 /\ expired' \in [Accounts -> 0..(MaxToken - 1)] /\ orphaned' \subseteq Accounts
                 /\ creds' \in [Slots -> 0..MaxToken] /\ last' \in [Slots -> 0..MaxToken]
                 /\ invalid' \subseteq Slots /\ exhausted' \subseteq Slots
                 /\ slot' \in [Requests -> 0..NumAccounts] /\ tok' \in [Requests -> 0..MaxToken]
                 /\ attempt' \in [Requests -> 0..(MaxRetries + 1)] /\ sends' \in [Requests -> Nat]
                 /\ crashes' \in 0..MaxCrashes
        BY <1>0, <2>1 DEF TypeOK
    <2>2. st[r] # "select" => slot[r] \in Accounts /\ MySlot(r) \in Slots
        BY <1>1, StepMoves, PlacedSlot DEF Ended
    <2>3. CASE _select_slot_locked(r)
        <3>1. CASE UNCHANGED slot
            BY <2>3, <3>1 DEF _select_slot_locked, TypeOK
        <3>2. ASSUME NEW a \in Accounts, slot' = [slot EXCEPT ![r] = a] PROVE slot' \in [Requests -> 0..NumAccounts]
            BY <3>2 DEF Accounts, TypeOK
        <3>3. slot' \in [Requests -> 0..NumAccounts]
            BY <2>3, <3>1, <3>2 DEF _select_slot_locked, TypeOK
        <3>4. QED
            BY <2>3, <3>3 DEF _select_slot_locked, TypeOK
    <2>4. CASE _load(r)
        BY <2>4, <2>2 DEF _load, TypeOK, Tokens
    <2>5. CASE flock(r)
        BY <2>5, <2>2 DEF flock, TypeOK, Tokens
    <2>6. CASE refresh_credentials(r)
        <3>1. st[r] = "post" /\ creds[MySlot(r)] <= expired[slot[r]]
            BY <2>6 DEF refresh_credentials, Refreshers, IsExpired
        <3>2. creds[MySlot(r)] = newest[slot[r]] => newest[slot[r]] + 1 \in Tokens
            BY <3>1, <2>2 DEF TypeOK, Tokens
        <3>3. QED
            BY <2>6, <2>2, <3>2 DEF refresh_credentials, TypeOK, Tokens
    <2>7. CASE _atomic_write_creds(r)
        <3>1. creds[MySlot(r)] = newest[slot[r]] /\ st[r] = "write"
            BY <2>7 DEF _atomic_write_creds, Refreshers
        <3>2. QED
            BY <2>7, <2>2, <3>1 DEF _atomic_write_creds, TypeOK, Tokens
    <2>8. CASE RecordToken(r)
        BY <2>8, <2>2 DEF RecordToken, TypeOK
    <2>9. CASE GiveUpSlot(r)
        BY <2>9, <2>2 DEF GiveUpSlot, TypeOK
    <2>10. CASE Send(r)
        BY <2>10 DEF Send, TypeOK
    <2>11. CASE Answered(r)
        BY <2>11 DEF Answered, TypeOK
    <2>12. CASE Transient(r)
        BY <2>12 DEF Transient, TypeOK
    <2>13. CASE AccountInvalid(r) \/ AccountExhausted(r)
        <3>1. st[r] = "sent" /\ attempt[r] <= MaxRetries
            BY <2>13 DEF AccountInvalid, AccountExhausted, CallsCounted, Ended
        <3>2. attempt' \in [Requests -> 0..(MaxRetries + 1)]
            BY <2>13, <3>1 DEF AccountInvalid, AccountExhausted, Failover, TypeOK
        <3>3. _find_slot_by_prefix(proc[r], slot[r], tok[r]) \subseteq Slots
            <4>1. MySlot(r) \in Slots /\ MySlot(r) = <<proc[r], slot[r]>> /\ proc[r] \in Procs
                BY <3>1, <2>2 DEF MySlot, TypeOK
            <4>2. \A b \in Alike(proc[r], slot[r], tok[r]) : <<proc[r], b>> \in Slots
                BY <4>1 DEF Alike, Slots
            <4>3. QED
                BY <4>1, <4>2 DEF _find_slot_by_prefix
        <3>4. refused' \in [Slots -> 0..MaxToken]
            BY <2>13 DEF AccountInvalid, AccountExhausted, TypeOK
        <3>5. invalid' \subseteq Slots /\ exhausted' \subseteq Slots
            BY <2>13, <3>3 DEF AccountInvalid, AccountExhausted, TypeOK
        <3>6. QED
            BY <2>13, <3>2, <3>4, <3>5 DEF AccountInvalid, AccountExhausted, TypeOK
    <2>14. QED
        BY <1>1, <2>3, <2>4, <2>5, <2>6, <2>7, <2>8, <2>9, <2>10, <2>11, <2>12, <2>13 DEF Step
<1>2. ASSUME NEW a \in Accounts, Expire(a) PROVE TypeOK'
    BY <1>0, <1>2 DEF Expire, TypeOK, Tokens
<1>3. ASSUME NEW s \in Slots, Reset(s) PROVE TypeOK'
    BY <1>0, <1>3 DEF Reset, TypeOK
<1>4. ASSUME NEW p \in Procs, Crash(p) PROVE TypeOK'
    <2>1. st' \in [Requests -> States]
        BY <1>4 DEF Crash, TypeOK, States, Ended
    <2>2. {slot[r] : r \in {q \in Requests : proc[q] = p /\ st[q] = "write"}} \subseteq Accounts
        BY PlacedSlot DEF Ended
    <2>3. QED
        BY <1>0, <1>4, <2>1, <2>2 DEF Crash, TypeOK
<1>5. CASE UNCHANGED vars
    BY <1>5 DEF vars, TypeOK
<1>6. QED
    BY <1>1, <1>2, <1>3, <1>4, <1>5 DEF Next, Over

-----------------------------------------------------------------------------
(* The locks, and what their holders know.                                 *)

\* Who may enter a lock, and where a request is placed.
LEMMA LocksStep == TypeOK /\ Locks /\ [Next]_vars => Locks'
<1> SUFFICES ASSUME TypeOK, Locks, [Next]_vars PROVE Locks'
    OBVIOUS
<1>1. ASSUME NEW r \in Requests, Step(r) PROVE Locks'
    <2>1. /\ \E s \in States : st' = [st EXCEPT ![r] = s]
          /\ proc' = proc
          /\ \A q \in Requests \ {r} : st'[q] = st[q] /\ slot'[q] = slot[q]
          /\ st[r] # "select" => slot' = slot
          /\ st[r] \notin Ended
        BY <1>1, StepMoves
    <2>2. \A q \in Requests : st'[q] \notin Ended \cup {"select"} => slot'[q] \in Accounts
        <3>1. CASE st[r] # "select"
            BY <2>1, <3>1 DEF Locks
        <3>2. CASE st[r] = "select"
            <4>1. _select_slot_locked(r)
                BY <1>1, <3>2 DEF Step, _load, flock, refresh_credentials, _atomic_write_creds,
                    RecordToken, GiveUpSlot, Send, Answered, Transient, AccountInvalid,
                    AccountExhausted
            <4>2. QED
                BY <4>1, <2>1 DEF _select_slot_locked, Locks, TypeOK, Goto, Ended
        <3>3. QED
            BY <3>1, <3>2
    <2>3. st'[r] \in InProvider =>
            /\ st[r] # "select"
            /\ st[r] \in InProvider \/ ~ProviderBusy(MySlot(r))
        BY <1>1 DEF Step, TypeOK, _select_slot_locked, _load, flock, refresh_credentials,
            _atomic_write_creds, RecordToken, GiveUpSlot, Send, Answered, Transient,
            AccountInvalid, AccountExhausted, Failover, Goto, GiveToken, InProvider, InFile
    <2>4. \A q, t \in Requests :
            MySlot(q)' = MySlot(t)' /\ {st'[q], st'[t]} \subseteq InProvider => q = t
        BY <2>1, <2>3 DEF Locks, MySlot, ProviderBusy, TypeOK
    <2>5. QED
        BY <2>2, <2>4 DEF Locks
<1>2. ASSUME NEW p \in Procs, Crash(p) PROVE Locks'
    <2>1. slot' = slot /\ proc' = proc
        BY <1>2 DEF Crash, request
    <2>2. \A q \in Requests : st'[q] = st[q] \/ st'[q] = "gone"
        BY <1>2 DEF Crash
    <2>3. QED
        BY <2>1, <2>2 DEF Locks, MySlot, InProvider, InFile, Ended
<1>3. CASE UNCHANGED <<st, slot, proc>>
    BY <1>3 DEF Locks, MySlot
<1>4. QED
    BY <1>1, <1>2, <1>3 DEF Next, Over, vars, request, Expire, Reset

\* Whoever is about to spend the newest grant is not in the way of one who has yet to
\* write: that one would know a newer token.
LEMMA RefresherAlone ==
    ASSUME TypeOK, Locks, NewestKnown, NEW r \in Requests, NEW q \in Requests, q # r,
           st[r] \in InProvider, creds[MySlot(r)] = newest[slot[r]], st[q] = "write"
    PROVE  slot[q] # slot[r]
<1>1. SUFFICES ASSUME slot[q] = slot[r] PROVE FALSE
    OBVIOUS
<1>2. proc[q] # proc[r]
    BY <1>1 DEF Locks, MySlot, InProvider, InFile
<1>3. proc[r] \in Procs \ {proc[q]}
    BY <1>2 DEF TypeOK
<1>4. creds[<<proc[r], slot[q]>>] # newest[slot[q]]
    BY <1>3 DEF NewestKnown
<1>5. QED
    BY <1>1, <1>4 DEF MySlot

\* The tokens in the hands of those who refresh.
LEMMA RefreshersStep == TypeOK /\ Locks /\ Refreshers /\ NewestKnown /\ [Next]_vars => Refreshers'
<1> SUFFICES ASSUME TypeOK, Locks, Refreshers, NewestKnown, [Next]_vars PROVE Refreshers'
    OBVIOUS
<1>1. ASSUME NEW r \in Requests, Step(r) PROVE Refreshers'
  <2> SUFFICES ASSUME NEW q \in Requests
               PROVE  /\ st'[q] \in {"flock", "post"} => creds'[MySlot(q)'] <= expired'[slot'[q]]
                      /\ st'[q] = "write" => creds'[MySlot(q)'] = newest'[slot'[q]]
      BY DEF Refreshers, IsExpired
  <2>1. /\ \E s \in States : st' = [st EXCEPT ![r] = s]
        /\ proc' = proc
        /\ \A t \in Requests \ {r} : st'[t] = st[t] /\ slot'[t] = slot[t]
        /\ st[r] # "select" => slot' = slot
        /\ st[r] \notin Ended
      BY <1>1, StepMoves
  <2>2. expired' = expired
      BY <1>1 DEF Step, _select_slot_locked, _load, flock, refresh_credentials, server,
          _atomic_write_creds, RecordToken, GiveUpSlot, Send, Answered, Transient,
          AccountInvalid, AccountExhausted
  <2>3. st[r] # "select" => slot[r] \in Accounts /\ MySlot(r) \in Slots
      BY <2>1, PlacedSlot
  <2>4. CASE q # r
    <3>1. st'[q] = st[q] /\ slot'[q] = slot[q] /\ MySlot(q)' = MySlot(q)
        BY <2>4, <2>1 DEF MySlot
    <3>2. SUFFICES ASSUME st[q] \in InProvider
                   PROVE  /\ creds'[MySlot(q)] = creds[MySlot(q)]
                          /\ st[q] = "write" => newest'[slot[q]] = newest[slot[q]]
        BY <3>1, <2>2 DEF Refreshers, IsExpired, InProvider, InFile
    <3>3. st[r] \in InProvider => MySlot(q) # MySlot(r)
        BY <2>4, <3>2 DEF Locks
    <3>4. st[r] = "post" /\ creds[MySlot(r)] = newest[slot[r]] /\ st[q] = "write" => slot[q] # slot[r]
        BY <2>1, <2>4, RefresherAlone, PlacedSlot DEF InFile, InProvider, Ended
    <3>5. CASE _load(r)
        <4>1. MySlot(q) # MySlot(r) /\ newest' = newest
            BY <3>2, <3>5 DEF _load, ProviderBusy, server
        <4>2. creds' = creds \/ \E t : creds' = [creds EXCEPT ![MySlot(r)] = t]
            BY <3>5 DEF _load
        <4>3. MySlot(q) \in Slots
            BY <3>2, PlacedSlot DEF InProvider, InFile, Ended
        <4>4. creds'[MySlot(q)] = creds[MySlot(q)]
            BY <4>1, <4>2, <4>3 DEF TypeOK
        <4>5. QED
            BY <4>1, <4>4
    <3>6. CASE flock(r)
        <4>1. creds' = creds \/ creds' = [creds EXCEPT ![MySlot(r)] = file[slot[r]]]
            BY <3>6 DEF flock
        <4>2. MySlot(q) \in Slots /\ MySlot(q) # MySlot(r) /\ newest' = newest
            BY <3>2, <3>3, <3>6, PlacedSlot DEF flock, server, InProvider, InFile, Ended
        <4>3. QED
            BY <4>1, <4>2 DEF TypeOK
    <3>7. CASE refresh_credentials(r)
        <4>1. creds' = creds \/ creds' = [creds EXCEPT ![MySlot(r)] = newest'[slot[r]]]
            BY <3>7 DEF refresh_credentials
        <4>2. newest' = newest \/ newest' = [newest EXCEPT ![slot[r]] = @ + 1]
            BY <3>7 DEF refresh_credentials
        <4>3. st[r] = "post"
            BY <3>7 DEF refresh_credentials
        <4>4. MySlot(q) \in Slots /\ MySlot(q) # MySlot(r) /\ slot[q] \in Accounts
            BY <3>2, <3>3, <4>3, PlacedSlot DEF InProvider, InFile, Ended
        <4>5. newest' # newest /\ st[q] = "write" => slot[q] # slot[r]
            BY <3>7, <4>3, <3>4 DEF refresh_credentials
        <4>6. QED
            BY <4>1, <4>2, <4>4, <4>5 DEF TypeOK
    <3>8. CASE UNCHANGED <<creds, newest>>
        BY <3>8
    <3>9. QED
        BY <1>1, <3>5, <3>6, <3>7, <3>8 DEF Step, _select_slot_locked, server,
            _atomic_write_creds, RecordToken, GiveUpSlot, Send, Answered, Transient,
            AccountInvalid, AccountExhausted
  <2>5. CASE q = r
    <3>1. CASE _load(r)
        BY <3>1, <2>5, <2>2, <2>1, <2>3 DEF _load, Goto, GiveToken, TypeOK, IsExpired, MySlot
    <3>2. CASE flock(r)
        BY <3>2, <2>5, <2>2, <2>1, <2>3 DEF flock, Goto, GiveToken, TypeOK, IsExpired, MySlot, Refreshers
    <3>3. CASE refresh_credentials(r)
        BY <3>3, <2>5, <2>1, <2>3 DEF refresh_credentials, Goto, TypeOK, MySlot
    <3>4. CASE st'[r] \notin {"flock", "post", "write"}
        BY <3>4, <2>5
    <3>5. QED
        BY <1>1, <3>1, <3>2, <3>3, <3>4 DEF Step, TypeOK, _select_slot_locked,
            _atomic_write_creds, RecordToken, GiveUpSlot, Send, Answered, Transient,
            AccountInvalid, AccountExhausted, Failover, Goto, GiveToken
  <2>6. QED
      BY <2>4, <2>5
<1>2. ASSUME NEW a \in Accounts, Expire(a) PROVE Refreshers'
    <2>1. \A r \in Requests : st[r] \in {"flock", "post"} =>
             expired[slot[r]] <= expired'[slot[r]] /\ creds[MySlot(r)] \in Int /\ expired[slot[r]] \in Int
        <3>1. \A r \in Requests : st[r] \in {"flock", "post"} => slot[r] \in Accounts /\ MySlot(r) \in Slots
            BY PlacedSlot DEF Ended
        <3>2. QED
            BY <1>2, <3>1 DEF Expire, TypeOK
    <2>2. st' = st /\ slot' = slot /\ proc' = proc /\ creds' = creds /\ newest' = newest
        BY <1>2 DEF Expire, request
    <2>3. \A r \in Requests : st[r] \in {"flock", "post"} => expired'[slot[r]] \in Int
        BY <1>2, PlacedSlot DEF Expire, TypeOK, Ended
    <2>4. QED
        BY <2>1, <2>2, <2>3 DEF Refreshers, IsExpired, MySlot
<1>3. ASSUME NEW p \in Procs, Crash(p) PROVE Refreshers'
    <2>1. slot' = slot /\ proc' = proc /\ newest' = newest /\ expired' = expired
        BY <1>3 DEF Crash, request, server
    <2>2. ASSUME NEW r \in Requests, st'[r] \in {"flock", "post", "write"}
          PROVE  st'[r] = st[r] /\ creds'[MySlot(r)] = creds[MySlot(r)]
        <3>1. st'[r] = st[r] /\ st[r] \notin Ended \cup {"select"}
            BY <1>3, <2>2 DEF Crash, Ended
        <3>2. slot[r] \in Accounts /\ MySlot(r) \in Slots
            BY <3>1, PlacedSlot
        <3>3. proc[r] # p
            BY <1>3, <2>2, <3>1, <3>2 DEF Crash, Accounts, NoSlot
        <3>4. QED
            BY <1>3, <3>1, <3>2, <3>3 DEF Crash, MySlot
    <2>3. QED
        BY <2>1, <2>2 DEF Refreshers, IsExpired, MySlot
<1>4. CASE UNCHANGED <<st, slot, proc, creds, newest, expired>>
    BY <1>4 DEF Refreshers, IsExpired, MySlot
<1>5. QED
    BY <1>1, <1>2, <1>3, <1>4 DEF Next, Over, vars, request, server, Reset

-----------------------------------------------------------------------------
(* Tokens only get newer.                                                  *)

\* How a request's step changes the tokens of the providers.
LEMMA CredsChange ==
    ASSUME TypeOK, Locks, NEW r \in Requests, Step(r)
    PROVE  \/ creds' = creds
           \/ /\ st[r] = "provider" /\ creds[MySlot(r)] = NoToken
              /\ creds' = [creds EXCEPT ![MySlot(r)] = file[slot[r]]] /\ UNCHANGED <<newest, file>>
           \/ /\ st[r] = "flock" /\ ~IsExpired(slot[r], file[slot[r]])
              /\ creds' = [creds EXCEPT ![MySlot(r)] = file[slot[r]]] /\ UNCHANGED <<newest, file>>
           \/ /\ st[r] = "post" /\ creds[MySlot(r)] = newest[slot[r]] /\ st'[r] = "write"
              /\ newest' = [newest EXCEPT ![slot[r]] = @ + 1] /\ file' = file
              /\ creds' = [creds EXCEPT ![MySlot(r)] = newest[slot[r]] + 1]
<1> USE DEF server
<1>1. CASE _load(r)
    <2>1. MySlot(r) \in Slots
        BY <1>1, PlacedSlot DEF _load, Ended
    <2>2. creds[MySlot(r)] # NoToken \/ UNCHANGED creds => creds' = creds
        BY <1>1, <2>1 DEF _load, TypeOK
    <2>3. QED
        BY <1>1, <2>2 DEF _load
<1>2. CASE flock(r)
    BY <1>2 DEF flock
<1>3. CASE refresh_credentials(r)
    <2>1. slot[r] \in Accounts
        BY <1>3, PlacedSlot DEF refresh_credentials, Ended
    <2>2. newest' = [newest EXCEPT ![slot[r]] = @ + 1] => newest'[slot[r]] = newest[slot[r]] + 1
        BY <2>1 DEF TypeOK
    <2>3. QED
        BY <1>3, <2>2 DEF refresh_credentials, Goto, TypeOK
<1>4. CASE UNCHANGED creds
    BY <1>4
<1>5. QED
    BY <1>1, <1>2, <1>3, <1>4 DEF Step, _select_slot_locked, _atomic_write_creds, RecordToken,
        GiveUpSlot, Send, Answered, Transient, AccountInvalid, AccountExhausted

LEMMA CredsGrow ==
    ASSUME TypeOK, Locks, Refreshers, NEW r \in Requests, Step(r), NEW s \in Slots
    PROVE  creds[s] <= creds'[s]
<1>1. creds[s] \in Nat /\ creds[s] <= creds[s]
    BY DEF TypeOK
<1>2. CASE st[r] \in {"provider", "flock", "post"} /\ s = MySlot(r)
    <2>1. slot[r] \in Accounts
        BY <1>2, PlacedSlot DEF Ended
    <2>2. file[slot[r]] \in Nat /\ newest[slot[r]] \in Nat /\ expired[slot[r]] \in Nat
        BY <2>1 DEF TypeOK, Tokens
    <2>3. st[r] = "flock" => creds[s] <= expired[slot[r]]
        BY <1>2 DEF Refreshers, IsExpired
    <2>4. creds' = creds \/ \E v : creds' = [creds EXCEPT ![MySlot(r)] = v] /\ creds'[s] = v
        BY <1>2, CredsChange DEF TypeOK
    <2>5. CASE creds' = creds
        BY <1>1, <2>5
    <2>6. CASE st[r] = "provider" /\ creds[MySlot(r)] = NoToken /\ creds' = [creds EXCEPT ![MySlot(r)] = file[slot[r]]]
        BY <1>2, <2>2, <2>6 DEF NoToken, TypeOK
    <2>7. CASE st[r] = "flock" /\ ~IsExpired(slot[r], file[slot[r]]) /\ creds' = [creds EXCEPT ![MySlot(r)] = file[slot[r]]]
        <3>1. creds'[s] = file[slot[r]]
            BY <1>2, <2>7 DEF TypeOK
        <3>2. expired[slot[r]] < file[slot[r]]
            BY <2>2, <2>7 DEF IsExpired
        <3>3. QED
            BY <1>1, <2>2, <2>3, <2>7, <3>1, <3>2
    <2>8. CASE creds[MySlot(r)] = newest[slot[r]] /\ creds' = [creds EXCEPT ![MySlot(r)] = newest[slot[r]] + 1]
        BY <1>2, <2>2, <2>8 DEF TypeOK
    <2>9. QED
        BY <2>5, <2>6, <2>7, <2>8, CredsChange
<1>3. CASE ~(st[r] \in {"provider", "flock", "post"} /\ s = MySlot(r))
    <2>1. creds'[s] = creds[s]
        BY <1>3, CredsChange DEF TypeOK
    <2>2. QED
        BY <1>1, <2>1
<1>4. QED
    BY <1>2, <1>3

\* What is known of the newest token, and where.
LEMMA KnownStep == TypeOK /\ Locks /\ Refreshers /\ NewestKnown /\ [Next]_vars => NewestKnown'
<1> SUFFICES ASSUME TypeOK, Locks, Refreshers, NewestKnown, [Next]_vars PROVE NewestKnown'
    OBVIOUS
<1>1. ASSUME NEW r \in Requests, Step(r) PROVE NewestKnown'
    <2>1. /\ \E s \in States : st' = [st EXCEPT ![r] = s]
          /\ proc' = proc
          /\ \A q \in Requests \ {r} : st'[q] = st[q] /\ slot'[q] = slot[q]
          /\ st[r] # "select" => slot' = slot
          /\ st[r] \notin Ended
        BY <1>1, StepMoves
    <2>2. st[r] # "select" => slot[r] \in Accounts /\ MySlot(r) \in Slots
        BY <2>1, PlacedSlot
    <2>3. CASE _atomic_write_creds(r)
        <3>1. st[r] = "write" /\ newest' = newest /\ creds' = creds /\ slot' = slot /\ st'[r] = "note"
            BY <2>3 DEF _atomic_write_creds, server, GiveToken, Goto, TypeOK
        <3>2. creds[MySlot(r)] = newest[slot[r]] /\ slot[r] \in Accounts
            BY <2>2, <3>1 DEF Refreshers
        <3>3. file' = file \/ file' = [file EXCEPT ![slot[r]] = newest[slot[r]]]
            BY <2>3, <3>2 DEF _atomic_write_creds
        <3>4. \A a \in Accounts : file'[a] <= newest'[a]
            <4>1. \A a \in Accounts : newest[a] \in Nat
                BY DEF TypeOK, Tokens
            <4>2. QED
                BY <3>1, <3>2, <3>3, <4>1 DEF NewestKnown, TypeOK
        <3>5. ASSUME NEW q \in Requests, st'[q] = "write"
              PROVE  file'[slot[q]] = file[slot[q]] /\ q # r /\ st[q] = "write"
            <4>1. q # r /\ st[q] = "write"
                BY <2>1, <3>1, <3>5
            <4>2. slot[q] # slot[r] /\ slot[q] \in Accounts
                BY <3>1, <3>2, <4>1, RefresherAlone, PlacedSlot DEF InProvider, InFile, Ended
            <4>3. QED
                BY <3>3, <4>1, <4>2 DEF TypeOK
        <3>6. QED
            BY <2>1, <3>1, <3>4, <3>5 DEF NewestKnown
    <2>4. CASE st[r] = "post" /\ creds[MySlot(r)] = newest[slot[r]] /\ st'[r] = "write"
               /\ newest' = [newest EXCEPT ![slot[r]] = @ + 1] /\ file' = file
               /\ creds' = [creds EXCEPT ![MySlot(r)] = newest[slot[r]] + 1]
        <3>1. slot' = slot /\ slot[r] \in Accounts /\ MySlot(r) \in Slots /\ newest[slot[r]] \in Nat
            BY <2>1, <2>2, <2>4 DEF TypeOK, Tokens
        <3>2. \A a \in Accounts : newest[a] <= newest'[a] /\ newest[a] \in Nat /\ file[a] \in Nat /\ newest'[a] \in Nat
            BY <2>4, <3>1 DEF TypeOK, Tokens
        <3>3. \A a \in Accounts : file'[a] <= newest'[a]
            BY <2>4, <3>2 DEF NewestKnown
        <3>4. newest'[slot[r]] = newest[slot[r]] + 1
            BY <2>4, <3>1 DEF TypeOK
        <3>5. ASSUME NEW s \in Slots PROVE creds'[s] <= newest'[s[2]]
            <4>1. s[2] \in Accounts /\ creds[s] \in Nat /\ creds[s] <= newest[s[2]]
                BY DEF Slots, TypeOK, NewestKnown
            <4>2. CASE s = MySlot(r)
                BY <2>4, <3>1, <3>4, <4>2 DEF MySlot, TypeOK
            <4>3. CASE s # MySlot(r)
                <5>1. creds'[s] = creds[s]
                    BY <2>4, <4>3 DEF TypeOK
                <5>2. QED
                    BY <3>2, <4>1, <5>1
            <4>4. QED
                BY <4>2, <4>3
        <3>6. ASSUME NEW q \in Requests, st'[q] = "write"
              PROVE  /\ file'[slot[q]] # newest'[slot[q]]
                     /\ \A p \in Procs \ {proc[q]} : creds'[<<p, slot[q]>>] # newest'[slot[q]]
            <4>1. CASE q = r
                <5>1. file'[slot[q]] # newest'[slot[q]]
                    <6>1. file[slot[r]] <= newest[slot[r]] /\ file[slot[r]] \in Nat
                        BY <3>1, <3>2 DEF NewestKnown
                    <6>2. QED
                        BY <2>4, <3>1, <3>4, <4>1, <6>1
                <5>2. ASSUME NEW p \in Procs \ {proc[q]} PROVE creds'[<<p, slot[q]>>] # newest'[slot[q]]
                    <6>1. <<p, slot[r]>> \in Slots /\ <<p, slot[r]>> # MySlot(r)
                        BY <3>1, <4>1, <5>2 DEF Slots, MySlot
                    <6>2. creds'[<<p, slot[r]>>] = creds[<<p, slot[r]>>]
                        BY <2>4, <6>1 DEF TypeOK
                    <6>3. creds[<<p, slot[r]>>] <= newest[slot[r]] /\ creds[<<p, slot[r]>>] \in Nat
                        BY <6>1 DEF NewestKnown, TypeOK
                    <6>4. QED
                        BY <3>1, <3>4, <4>1, <6>2, <6>3
                <5>3. QED
                    BY <5>1, <5>2
            <4>2. CASE q # r
                <5>1. st[q] = "write"
                    BY <2>1, <3>6, <4>2
                <5>2. slot[q] # slot[r] /\ slot[q] \in Accounts
                    BY <2>4, <4>2, <5>1, RefresherAlone, PlacedSlot DEF InProvider, InFile, Ended
                <5>3. newest'[slot[q]] = newest[slot[q]] /\ file'[slot[q]] # newest[slot[q]]
                    BY <2>4, <3>1, <5>1, <5>2 DEF TypeOK, NewestKnown
                <5>4. \A p \in Procs : creds'[<<p, slot[q]>>] = creds[<<p, slot[q]>>]
                    <6>1. \A p \in Procs : <<p, slot[q]>> \in Slots /\ <<p, slot[q]>> # MySlot(r)
                        BY <5>2 DEF Slots, MySlot
                    <6>2. QED
                        BY <2>4, <6>1 DEF TypeOK
                <5>5. QED
                    BY <5>1, <5>3, <5>4 DEF NewestKnown
            <4>3. QED
                BY <4>1, <4>2
        <3>7. QED
            BY <2>1, <3>1, <3>3, <3>5, <3>6 DEF NewestKnown
    <2>5. CASE (st[r] = "provider" \/ st[r] = "flock") /\ UNCHANGED <<newest, file>>
               /\ creds' = [creds EXCEPT ![MySlot(r)] = file[slot[r]]]
        <3>1. slot' = slot /\ slot[r] \in Accounts /\ MySlot(r) \in Slots
            BY <2>1, <2>2, <2>5
        <3>2. ASSUME NEW s \in Slots PROVE creds'[s] <= newest'[s[2]]
            BY <2>5, <3>1 DEF TypeOK, NewestKnown, MySlot
        <3>3. ASSUME NEW q \in Requests, st'[q] = "write"
              PROVE  st[q] = "write" /\ q # r
            <4>1. st'[r] # "write"
                BY <1>1, <2>5 DEF Step, _select_slot_locked, _load, flock, refresh_credentials, TypeOK, GiveToken,
                    _atomic_write_creds, RecordToken, GiveUpSlot, Send, Answered, Transient, Goto,
                    AccountInvalid, AccountExhausted
            <4>2. QED
                BY <2>1, <3>3, <4>1
        <3>4. ASSUME NEW q \in Requests, st'[q] = "write", NEW p \in Procs \ {proc[q]}
              PROVE  creds'[<<p, slot[q]>>] # newest[slot[q]]
            <4>1. st[q] = "write" /\ slot[q] \in Accounts
                BY <3>3, <3>4, PlacedSlot DEF Ended
            <4>2. file[slot[q]] # newest[slot[q]] /\ creds[<<p, slot[q]>>] # newest[slot[q]]
                BY <3>4, <4>1 DEF NewestKnown
            <4>3. <<p, slot[q]>> \in Slots
                BY <4>1 DEF Slots
            <4>4. <<p, slot[q]>> = MySlot(r) => slot[q] = slot[r]
                BY DEF MySlot
            <4>5. QED
                BY <2>5, <4>2, <4>3, <4>4 DEF TypeOK
        <3>5. QED
            BY <2>1, <2>5, <3>1, <3>2, <3>3, <3>4 DEF NewestKnown
    <2>6. CASE creds' = creds /\ ~_atomic_write_creds(r)
        <3>1. file' = file /\ st'[r] # "write"
            BY <1>1, <2>6, <2>2 DEF Step, _select_slot_locked, _load, flock, refresh_credentials, TypeOK, GiveToken,
                RecordToken, GiveUpSlot, Send, Answered, Transient, Goto, Tokens,
                AccountInvalid, AccountExhausted, Failover
        <3>2. CASE newest' = newest
            BY <2>1, <2>6, <3>1, <3>2 DEF NewestKnown
        <3>3. CASE newest' # newest
            <4>1. st[r] = "post" /\ creds[MySlot(r)] = newest[slot[r]] /\ slot' = slot
                  /\ newest' = [newest EXCEPT ![slot[r]] = @ + 1] /\ slot[r] \in Accounts
                BY <1>1, <2>1, <2>2, <3>3 DEF Step, _select_slot_locked, _load, flock, refresh_credentials, server,
                    _atomic_write_creds, RecordToken, GiveUpSlot, Send, Answered, Transient,
                    AccountInvalid, AccountExhausted
            <4>2. \A a \in Accounts : newest[a] <= newest'[a] /\ newest[a] \in Nat /\ file[a] \in Nat /\ newest'[a] \in Nat
                BY <4>1 DEF TypeOK, Tokens
            <4>3. ASSUME NEW q \in Requests, st'[q] = "write"
                  PROVE  st[q] = "write" /\ newest'[slot[q]] = newest[slot[q]]
                <5>1. q # r /\ st[q] = "write"
                    BY <2>1, <3>1, <4>3
                <5>2. slot[q] # slot[r] /\ slot[q] \in Accounts
                    BY <4>1, <5>1, RefresherAlone, PlacedSlot DEF InProvider, InFile, Ended
                <5>3. QED
                    BY <4>1, <5>1, <5>2 DEF TypeOK
            <4>4. \A a \in Accounts : file[a] <= newest'[a]
                BY <4>2 DEF NewestKnown
            <4>5. \A s \in Slots : creds[s] <= newest'[s[2]]
                <5>1. \A s \in Slots : s[2] \in Accounts /\ creds[s] \in Nat /\ creds[s] <= newest[s[2]]
                    BY DEF Slots, TypeOK, NewestKnown
                <5>2. QED
                    BY <4>2, <5>1
            <4>6. QED
                BY <2>1, <2>6, <3>1, <4>1, <4>3, <4>4, <4>5 DEF NewestKnown
        <3>4. QED
            BY <3>2, <3>3
    <2>7. QED
        BY <1>1, <2>3, <2>4, <2>5, <2>6, CredsChange
<1>2. ASSUME NEW p \in Procs, Crash(p) PROVE NewestKnown'
    <2>1. slot' = slot /\ proc' = proc /\ newest' = newest /\ file' = file
        BY <1>2 DEF Crash, request, server
    <2>2. \A s \in Slots : (creds'[s] = creds[s] \/ creds'[s] = 0) /\ newest[s[2]] \in Nat \ {0}
        BY <1>2 DEF Crash, NoToken, TypeOK, Slots, Tokens
    <2>3. \A s \in Slots : creds'[s] <= newest[s[2]]
        BY <2>2 DEF NewestKnown
    <2>4. ASSUME NEW q \in Requests, st'[q] = "write", NEW w \in Procs \ {proc[q]}
          PROVE  st[q] = "write" /\ creds'[<<w, slot[q]>>] # newest[slot[q]]
        <3>1. st[q] = "write"
            BY <1>2, <2>4 DEF Crash
        <3>2. <<w, slot[q]>> \in Slots /\ newest[slot[q]] \in Nat \ {0}
            BY <3>1, PlacedSlot DEF Slots, Ended, TypeOK, Tokens
        <3>3. creds[<<w, slot[q]>>] # newest[slot[q]]
            BY <2>4, <3>1 DEF NewestKnown
        <3>4. QED
            BY <2>2, <3>1, <3>2, <3>3
    <2>5. \A q \in Requests : st'[q] = "write" => st[q] = "write"
        BY <1>2 DEF Crash
    <2>6. QED
        BY <2>1, <2>3, <2>4, <2>5 DEF NewestKnown
<1>3. CASE UNCHANGED <<st, slot, proc, creds, newest, file>>
    BY <1>3 DEF NewestKnown
<1>4. QED
    BY <1>1, <1>2, <1>3 DEF Next, Over, vars, request, server, Reset, Expire

\* Who has a token has one that its provider has, or had.
LEMMA GivenStep == TypeOK /\ TypeOK' /\ Locks /\ Refreshers /\ GivenTokens /\ [Next]_vars => GivenTokens'
<1> SUFFICES ASSUME TypeOK, TypeOK', Locks, Refreshers, GivenTokens, [Next]_vars PROVE GivenTokens'
    OBVIOUS
<1>1. ASSUME NEW r \in Requests, Step(r) PROVE GivenTokens'
    <2>1. /\ proc' = proc
          /\ \A q \in Requests \ {r} : st'[q] = st[q] /\ slot'[q] = slot[q]
          /\ st[r] # "select" => slot' = slot
          /\ st[r] \notin Ended
        BY <1>1, StepMoves
    <2>2. st[r] # "select" => slot[r] \in Accounts /\ MySlot(r) \in Slots
        BY <2>1, PlacedSlot
    <2>3. ASSUME NEW q \in Requests, st[q] \in {"note", "send", "sent"}
          PROVE  tok[q] <= creds'[MySlot(q)]
        <3>1. MySlot(q) \in Slots
            BY <2>3, PlacedSlot DEF Ended
        <3>2. creds[MySlot(q)] <= creds'[MySlot(q)]
            BY <1>1, <3>1, CredsGrow
        <3>3. tok[q] \in Nat /\ creds[MySlot(q)] \in Nat /\ tok[q] <= creds[MySlot(q)]
            BY <2>3, <3>1 DEF GivenTokens, TypeOK
        <3>4. creds'[MySlot(q)] \in Nat
            <4>1. creds' \in [Slots -> 0..MaxToken]
                BY DEF TypeOK
            <4>2. QED
                BY <3>1, <4>1
        <3>5. QED
            BY <3>2, <3>3, <3>4
    <2>4. CASE st'[r] = "note" /\ st[r] # "note"
        <3>1. st[r] # "select" /\ tok' = [tok EXCEPT ![r] = creds'[MySlot(r)]]
            <4>1. _load(r) \/ flock(r) \/ _atomic_write_creds(r)
                BY <1>1, <2>4 DEF Step, TypeOK, _select_slot_locked, refresh_credentials, RecordToken,
                    GiveUpSlot, Send, Answered, Transient, AccountInvalid, AccountExhausted, Failover, Goto
            <4>2. st[r] # "select"
                BY <4>1 DEF _load, flock, _atomic_write_creds
            <4>3. QED
                BY <2>2, <2>4, <4>1, <4>2 DEF _load, flock, _atomic_write_creds, Goto, GiveToken, TypeOK
        <3>2. creds'[MySlot(r)] \in Nat
            <4>1. creds' \in [Slots -> 0..MaxToken]
                BY DEF TypeOK
            <4>2. QED
                BY <2>2, <3>1, <4>1
        <3>3. tok'[r] <= creds'[MySlot(r)] /\ \A q \in Requests \ {r} : tok'[q] = tok[q]
            BY <3>1, <3>2 DEF TypeOK
        <3>4. QED
            BY <2>1, <2>3, <3>1, <3>3 DEF GivenTokens, MySlot
    <2>5. CASE ~(st'[r] = "note" /\ st[r] # "note")
        <3>1. st'[r] \in {"note", "send", "sent"} => st[r] \in {"note", "send", "sent"} /\ tok' = tok
            BY <1>1, <2>5 DEF Step, TypeOK, _select_slot_locked, _load, flock, refresh_credentials, RecordToken,
                GiveUpSlot, Send, Answered, Transient, AccountInvalid, AccountExhausted, Failover, Goto,
                _atomic_write_creds, GiveToken, request
        <3>2. \A q \in Requests \ {r} : tok'[q] = tok[q]
            BY <1>1 DEF Step, TypeOK, _select_slot_locked, _load, flock, refresh_credentials, RecordToken,
                GiveUpSlot, Send, Answered, Transient, AccountInvalid, AccountExhausted,
                _atomic_write_creds, GiveToken, request
        <3>3. st[r] \in {"note", "send", "sent"} => slot' = slot
            BY <2>1
        <3>4. QED
            BY <2>1, <2>3, <3>1, <3>2, <3>3 DEF GivenTokens, MySlot
    <2>6. QED
        BY <2>4, <2>5
<1>2. ASSUME NEW p \in Procs, Crash(p) PROVE GivenTokens'
    <2>1. slot' = slot /\ proc' = proc /\ tok' = tok
        BY <1>2 DEF Crash, request
    <2>2. ASSUME NEW q \in Requests, st'[q] \in {"note", "send", "sent"}
          PROVE  st'[q] = st[q] /\ creds'[MySlot(q)] = creds[MySlot(q)]
        <3>1. st'[q] = st[q] /\ st[q] \notin Ended \cup {"select"}
            BY <1>2, <2>2 DEF Crash, Ended
        <3>2. slot[q] \in Accounts /\ MySlot(q) \in Slots
            BY <3>1, PlacedSlot
        <3>3. proc[q] # p
            BY <1>2, <2>2, <3>1, <3>2 DEF Crash, Accounts, NoSlot
        <3>4. QED
            BY <1>2, <3>1, <3>2, <3>3 DEF Crash, MySlot
    <2>3. QED
        BY <2>1, <2>2 DEF GivenTokens, MySlot
<1>3. CASE UNCHANGED <<st, slot, proc, tok, creds>>
    BY <1>3 DEF GivenTokens, MySlot
<1>4. QED
    BY <1>1, <1>2, <1>3 DEF Next, Over, vars, request, Reset, Expire

\* An error finds the slot of its token, while tokens can be told apart.
LEMMA SlotFound ==
    ASSUME TypeOK, Locks, Telling, NEW r \in Requests, st[r] = "sent", tok[r] # NoToken,
           creds[MySlot(r)] = tok[r]
    PROVE  MySlot(r) \in _find_slot_by_prefix(proc[r], slot[r], tok[r])
<1>1. slot[r] \in Accounts /\ MySlot(r) \in Slots
    BY PlacedSlot DEF Ended
<1>2. <<slot[r], tok[r]>> \in Accounts \X Tokens
    BY <1>1 DEF TypeOK, Tokens, NoToken
<1>3. ASSUME NEW b \in Alike(proc[r], slot[r], tok[r]) PROVE b = slot[r]
    <2>1. b \in Accounts /\ creds[<<proc[r], b>>] # NoToken
          /\ Prefix(b, creds[<<proc[r], b>>]) = Prefix(slot[r], tok[r])
        BY <1>3 DEF Alike
    <2>2. <<proc[r], b>> \in Slots
        BY <2>1 DEF Slots, TypeOK
    <2>3. <<b, creds[<<proc[r], b>>]>> \in Accounts \X Tokens
        BY <2>1, <2>2 DEF TypeOK, Tokens, NoToken
    <2>4. <<b, creds[<<proc[r], b>>]>> = <<slot[r], tok[r]>>
        BY <1>2, <2>1, <2>3, Zenon DEF Telling, Prefix
    <2>5. QED
        BY <2>4
<1>4. slot[r] \in Alike(proc[r], slot[r], tok[r])
    BY <1>1 DEF Alike, MySlot
<1>5. slot[r] <= slot[r]
    BY <1>1 DEF Accounts
<1>6. slot[r] \in {b \in Alike(proc[r], slot[r], tok[r]) : \A c \in Alike(proc[r], slot[r], tok[r]) : b <= c}
    BY <1>3, <1>4, <1>5
<1>7. QED
    BY <1>6 DEF _find_slot_by_prefix, MySlot

LEMMA RefusedStep ==
    TypeOK /\ TypeOK' /\ Locks /\ Refreshers /\ GivenTokens /\ RefusedIsOut /\ [Next]_vars => RefusedIsOut'
<1> SUFFICES ASSUME TypeOK, TypeOK', Locks, Refreshers, GivenTokens, RefusedIsOut, [Next]_vars,
                    Telling', NEW s \in Slots
             PROVE  refused'[s] = NoToken \/ s \in invalid' \/ refused'[s] < creds'[s]
    BY DEF RefusedIsOut
<1>1. Telling
    BY DEF Next, vars, Telling
<1>2. refused[s] = NoToken \/ s \in invalid \/ refused[s] < creds[s]
    BY <1>1 DEF RefusedIsOut
<1>3. refused[s] \in Nat /\ creds[s] \in Nat /\ creds'[s] \in Nat
    BY DEF TypeOK
<1>4. ASSUME NEW r \in Requests, Step(r)
      PROVE  refused'[s] = NoToken \/ s \in invalid' \/ refused'[s] < creds'[s]
    <2>1. creds[s] <= creds'[s]
        BY <1>4, CredsGrow
    <2>2. CASE AccountInvalid(r)
        <3>1. /\ st[r] = "sent" /\ creds' = creds
              /\ invalid' = invalid \cup _find_slot_by_prefix(proc[r], slot[r], tok[r])
              /\ refused' = [refused EXCEPT ![MySlot(r)] = IF @ < tok[r] THEN tok[r] ELSE @]
            BY <2>2 DEF AccountInvalid
        <3>2. CASE refused'[s] = refused[s]
            BY <1>2, <3>1, <3>2
        <3>3. CASE refused'[s] # refused[s]
            <4>1. s = MySlot(r) /\ refused'[s] = tok[r] /\ refused[s] < tok[r]
                BY <3>1, <3>3 DEF TypeOK
            <4>2. tok[r] \in Nat /\ tok[r] # NoToken /\ tok[r] <= creds[s]
                BY <1>3, <3>1, <4>1 DEF TypeOK, GivenTokens, NoToken
            <4>3. CASE creds[s] = tok[r]
                BY <1>1, <3>1, <4>1, <4>2, <4>3, SlotFound
            <4>4. CASE creds[s] # tok[r]
                BY <1>3, <3>1, <4>1, <4>2, <4>4
            <4>5. QED
                BY <4>3, <4>4
        <3>4. QED
            BY <3>2, <3>3
    <2>3. CASE ~AccountInvalid(r)
        <3>1. refused' = refused /\ (invalid' = invalid \/ invalid' = invalid \cup {MySlot(r)})
            BY <1>4, <2>3 DEF Step, pool, _select_slot_locked, _load, flock, refresh_credentials, RecordToken,
                GiveUpSlot, Send, Answered, Transient, AccountExhausted, _atomic_write_creds
        <3>2. QED
            BY <1>2, <1>3, <2>1, <3>1
    <2>4. QED
        BY <2>2, <2>3
<1>5. ASSUME NEW p \in Procs, Crash(p)
      PROVE  refused'[s] = NoToken \/ s \in invalid' \/ refused'[s] < creds'[s]
    BY <1>2, <1>5 DEF Crash
<1>6. CASE UNCHANGED <<refused, invalid, creds>>
    BY <1>2, <1>6
<1>7. QED
    BY <1>4, <1>5, <1>6 DEF Next, Over, vars, pool, Reset, Expire

-----------------------------------------------------------------------------
(* The file, and the count of calls.                                       *)

LEMMA NewestStep ==
    TypeOK /\ Locks /\ Refreshers /\ NewestIsSomewhere /\ [Next]_vars => NewestIsSomewhere'
<1> SUFFICES ASSUME TypeOK, Locks, Refreshers, NewestIsSomewhere, [Next]_vars,
                    NEW a \in Accounts, a \notin orphaned'
             PROVE  file'[a] = newest'[a] \/ \E q \in Requests : slot'[q] = a /\ st'[q] = "write"
    BY DEF NewestIsSomewhere
<1>1. ASSUME NEW r \in Requests, Step(r)
      PROVE  file'[a] = newest'[a] \/ \E q \in Requests : slot'[q] = a /\ st'[q] = "write"
    <2>1. /\ \E s \in States : st' = [st EXCEPT ![r] = s]
          /\ \A q \in Requests \ {r} : st'[q] = st[q] /\ slot'[q] = slot[q]
          /\ st[r] # "select" => slot' = slot
        BY <1>1, StepMoves
    <2>2. CASE _atomic_write_creds(r)
        <3>1. st[r] = "write" /\ newest' = newest /\ slot' = slot
            BY <2>2, <2>1 DEF _atomic_write_creds, server
        <3>2. slot[r] \in Accounts /\ creds[MySlot(r)] = newest[slot[r]]
            BY <3>1, PlacedSlot DEF Refreshers, Ended
        <3>3. CASE slot[r] = a
            BY <2>2, <3>1, <3>2, <3>3 DEF _atomic_write_creds, TypeOK
        <3>4. CASE slot[r] # a
            <4>1. a \notin orphaned /\ file'[a] = file[a]
                BY <2>2, <3>2, <3>4 DEF _atomic_write_creds, TypeOK
            <4>2. QED
                BY <4>1, <3>1, <3>4, <2>1 DEF NewestIsSomewhere
        <3>5. QED
            BY <3>3, <3>4
    <2>3. CASE refresh_credentials(r)
        <3>1. st[r] = "post" /\ file' = file /\ a \notin orphaned
            BY <2>3 DEF refresh_credentials
        <3>2. CASE newest'[a] = newest[a]
            BY <3>1, <3>2, <2>1 DEF NewestIsSomewhere
        <3>3. CASE newest'[a] # newest[a]
            <4>1. slot[r] = a
                BY <2>3, <3>3 DEF refresh_credentials, TypeOK
            <4>2. st'[r] = "write"
                BY <2>3, <3>3, <4>1 DEF refresh_credentials, Goto, TypeOK
            <4>3. QED
                BY <4>1, <4>2, <3>1, <2>1
        <3>4. QED
            BY <3>2, <3>3
    <2>4. CASE st[r] # "write" /\ UNCHANGED <<newest, file, orphaned>>
        BY <2>4, <2>1 DEF NewestIsSomewhere
    <2>5. QED
        BY <1>1, <2>2, <2>3, <2>4 DEF Step, _select_slot_locked, _load, flock, server,
            RecordToken, GiveUpSlot, Send, Answered, Transient, AccountInvalid, AccountExhausted
<1>2. ASSUME NEW p \in Procs, Crash(p)
      PROVE  file'[a] = newest'[a] \/ \E q \in Requests : slot'[q] = a /\ st'[q] = "write"
    <2>1. /\ a \notin orphaned /\ file' = file /\ newest' = newest /\ slot' = slot
          /\ \A q \in Requests : slot[q] = a /\ st[q] = "write" => proc[q] # p
        BY <1>2 DEF Crash, request, server
    <2>2. \A q \in Requests : proc[q] # p => st'[q] = st[q]
        BY <1>2 DEF Crash
    <2>3. QED
        BY <2>1, <2>2 DEF NewestIsSomewhere
<1>3. CASE UNCHANGED <<file, newest, orphaned, slot, st>>
    BY <1>3 DEF NewestIsSomewhere
<1>4. QED
    BY <1>1, <1>2, <1>3 DEF Next, Over, vars, request, server, Reset, Expire

LEMMA CallsStep == TypeOK /\ CallsCounted /\ [Next]_vars => CallsCounted'
<1> SUFFICES ASSUME TypeOK, CallsCounted, [Next]_vars PROVE CallsCounted'
    OBVIOUS
<1>1. ASSUME NEW r \in Requests, Step(r) PROVE CallsCounted'
    <2> SUFFICES ASSUME NEW q \in Requests
                 PROVE  /\ sends'[q] <= MaxRetries + 1
                        /\ st'[q] \notin Ended => attempt'[q] <= MaxRetries /\ sends'[q] <= attempt'[q] + 1
                        /\ st'[q] \notin Ended \cup {"sent"} => sends'[q] <= attempt'[q]
        BY DEF CallsCounted
    <2>1. /\ \A t \in Requests \ {r} : st'[t] = st[t]
          /\ st[r] \notin Ended
        BY <1>1, StepMoves
    <2>2. CASE q # r
        <3>1. sends'[q] = sends[q] /\ attempt'[q] = attempt[q]
            BY <1>1, <2>2 DEF Step, TypeOK, _select_slot_locked, _load, flock, request,
                refresh_credentials, _atomic_write_creds, RecordToken, GiveUpSlot, Send,
                Answered, Transient, AccountInvalid, AccountExhausted, Failover
        <3>2. QED
            BY <3>1, <2>2, <2>1 DEF CallsCounted
    <2>3. CASE q = r
        <3>1. /\ sends[r] \in Nat /\ attempt[r] \in Nat /\ attempt[r] <= MaxRetries
              /\ sends[r] <= attempt[r] + 1
              /\ st[r] # "sent" => sends[r] <= attempt[r]
            BY <2>1 DEF CallsCounted, TypeOK
        <3>2. CASE Send(r)
            BY <3>2, <3>1, <2>3 DEF Send, Goto, TypeOK, Ended
        <3>3. CASE Transient(r)
            BY <3>3, <3>1, <2>3 DEF Transient, Goto, TypeOK, Ended
        <3>4. CASE AccountInvalid(r) \/ AccountExhausted(r)
            <4>1. sends' = sends /\ Failover(r)
                BY <3>4 DEF AccountInvalid, AccountExhausted
            <4>2. CASE st'[r] = "error"
                BY <4>1, <4>2, <3>1, <2>3 DEF Ended
            <4>3. CASE st'[r] # "error"
                <5>1. attempt' = [attempt EXCEPT ![r] = @ + 1] /\ attempt[r] + 1 <= MaxRetries
                    BY <4>1, <4>3 DEF Failover, Goto, TypeOK
                <5>2. QED
                    BY <5>1, <4>1, <3>1, <2>3 DEF TypeOK
            <4>4. QED
                BY <4>2, <4>3
        <3>5. CASE Answered(r)
            BY <3>5, <3>1, <2>3 DEF Answered, request, Goto, TypeOK, Ended
        <3>6. CASE st[r] # "sent" /\ UNCHANGED <<sends, attempt>>
            BY <3>6, <3>1, <2>3
        <3>7. QED
            BY <1>1, <3>2, <3>3, <3>4, <3>5, <3>6 DEF Step, _select_slot_locked, _load, flock,
                refresh_credentials, _atomic_write_creds, RecordToken, GiveUpSlot, request
    <2>4. QED
        BY <2>2, <2>3
<1>2. ASSUME NEW p \in Procs, Crash(p) PROVE CallsCounted'
    <2>1. /\ sends' = sends /\ attempt' = attempt
          /\ \A q \in Requests : st'[q] = st[q] \/ st'[q] = "gone"
        BY <1>2 DEF Crash, request
    <2>2. QED
        BY <2>1 DEF CallsCounted, Ended
<1>3. CASE UNCHANGED <<st, sends, attempt>>
    BY <1>3 DEF CallsCounted
<1>4. QED
    BY <1>1, <1>2, <1>3 DEF Next, Over, vars, request, Reset, Expire

-----------------------------------------------------------------------------
(* The theorems.                                                           *)

\* The invariant that carries the others (credentials.py, bridge.py:315-576).
THEOREM Invariance == Spec => []IInv
<1>1. IInv /\ [Next]_vars => IInv'
    BY TypeStep, LocksStep, RefreshersStep, KnownStep, NewestStep, GivenStep, CallsStep, RefusedStep DEF IInv
<1>2. QED
    BY InitIInv, <1>1, PTL DEF Spec

\* The variables keep their types: no token beyond the bound is ever asked for.
THEOREM TypeCorrect == Spec => []TypeOK
<1>1. IInv => TypeOK
    BY DEF IInv
<1>2. QED
    BY Invariance, <1>1, PTL

\* Throttling, network errors and failovers together never make a request exceed
\* MaxRetries + 1 calls upstream (bridge.py:326, 406-429).
THEOREM CallsAreBounded == Spec => []BoundedSends
<1>1. IInv => BoundedSends
    BY DEF IInv, CallsCounted, BoundedSends
<1>2. QED
    BY Invariance, <1>1, PTL

\* Outside a refresh the file of an account holds its newest token, unless a crash, a
\* lost answer or a failed write took it (credentials.py:441-478).
THEOREM FilesKeepUp == Spec => []FileHoldsNewest
<1>1. IInv => FileHoldsNewest
    BY DEF IInv, NewestIsSomewhere, FileHoldsNewest, FileBusy, InFile
<1>2. QED
    BY Invariance, <1>1, PTL

\* While the first 20 characters tell tokens apart, an account whose token upstream has
\* refused is out of the pool or has a newer token, in whatever order requests take, note
\* and use their tokens (credentials.py:583-595, 684-700).
THEOREM RefusedStaysOut == Spec => []RefusedIsOut
<1>1. IInv => RefusedIsOut
    BY DEF IInv
<1>2. QED
    BY Invariance, <1>1, PTL
=============================================================================
