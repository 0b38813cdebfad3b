--------------------------- MODULE ZBridge_proofs ---------------------------
(***************************************************************************)
(* Proofs about ZBridge, for every set of bridges, every set of frames     *)
(* upstream may send, every number of frames and retries and every set of  *)
(* faults: what the client reads, and what a complete message rests on.    *)
(*                                                                         *)
(* The events a handler yields are read one at a time, so the client lags  *)
(* behind the translator.  Coupled says that what waits in outq is legal   *)
(* for the client event by event and leads it to where the translator is.  *)
(***************************************************************************)
EXTENDS ZBridge, Subsequences_proofs

AllEvents == Events \X Int \X (Kinds \cup {""})

-----------------------------------------------------------------------------
(* Reading a sequence of events.                                           *)

\* The event e is one a client in the state c may read, by AnthropicStream.
LegalEvent(c, e) ==
    \/ e = Event("message_start") /\ c.phase = "idle"
    \/ \E k \in Kinds :
          /\ c.phase = "streaming" /\ e = BlockEvent("start", Cardinality(c.used), k)
          /\ IF k = "tool_use" THEN \A b \in c.open : b[2] = "tool_use" ELSE c.open = {}
    \/ \E b \in c.open : c.phase = "streaming" /\ e = BlockEvent("delta", b[1], b[2])
    \/ \E b \in c.open :
          /\ c.phase = "streaming" /\ e = BlockEvent("stop", b[1], "")
          /\ {d \in c.open : d[1] # b[1]} = c.open \ {b}
    \/ e = Event("message_delta") /\ c.phase = "streaming" /\ c.open = {}
    \/ e = Event("message_stop") /\ c.phase = "stopping"
    \/ e = Event("error") /\ c.phase \notin {"complete", "failed", "aborted"} /\ c.open = {}
    \/ e = Event("error") /\ c.phase \in {"complete", "failed"}

\* The client c reads q legally and is then d.
ReadsBy(c, q, d, cs) ==
    /\ cs[0] = c /\ cs[Len(q)] = d
    /\ \A k \in 1..Len(q) : LegalEvent(cs[k - 1], q[k]) /\ cs[k] = Read(cs[k - 1], q[k])

Reads(c, q, d) == \E cs : ReadsBy(c, q, d, cs)

LEMMA ReadsNothing == ASSUME NEW c, NEW d PROVE Reads(c, <<>>, d) <=> c = d
<1>1. ReadsBy(c, <<>>, c, [k \in 0..0 |-> c])
    BY DEF ReadsBy
<1>2. ASSUME NEW cs, ReadsBy(c, <<>>, d, cs) PROVE c = d
    BY <1>2 DEF ReadsBy
<1>3. QED
    BY <1>1, <1>2 DEF Reads

LEMMA ReadsOne == ASSUME NEW c, NEW e, LegalEvent(c, e) PROVE Reads(c, <<e>>, Read(c, e))
<1> DEFINE cs == [k \in 0..1 |-> IF k = 0 THEN c ELSE Read(c, e)]
<1>1. cs[0] = c /\ cs[1] = Read(c, e) /\ Len(<<e>>) = 1 /\ <<e>>[1] = e
    OBVIOUS
<1> HIDE DEF cs
<1>2. ReadsBy(c, <<e>>, Read(c, e), cs)
    <2>1. \A k \in 1..1 : k = 1 /\ k - 1 = 0
        OBVIOUS
    <2>2. QED
        BY <1>1, <2>1 DEF ReadsBy
<1>3. QED
    BY <1>2 DEF Reads

LEMMA ReadsThen ==
    ASSUME NEW T, NEW p \in Seq(T), NEW q \in Seq(T), NEW c, NEW d, NEW e, Reads(c, p, d), Reads(d, q, e)
    PROVE  Reads(c, p \o q, e)
<1>1. PICK f : ReadsBy(c, p, d, f)
    BY DEF Reads
<1>2. PICK g : ReadsBy(d, q, e, g)
    BY DEF Reads
<1>3. /\ Len(p) \in Nat /\ Len(q) \in Nat /\ Len(p \o q) = Len(p) + Len(q)
      /\ \A k \in 1..Len(p) : (p \o q)[k] = p[k]
      /\ \A k \in 1..Len(q) : (p \o q)[Len(p) + k] = q[k]
    BY SMT
<1> DEFINE h == [k \in 0..(Len(p) + Len(q)) |-> IF k <= Len(p) THEN f[k] ELSE g[k - Len(p)]]
<1>4. /\ \A k \in 0..Len(p) : h[k] = f[k]
      /\ \A k \in 0..Len(q) : h[Len(p) + k] = g[k]
    <2>1. f[Len(p)] = g[0]
        BY <1>1, <1>2 DEF ReadsBy
    <2>2. ASSUME NEW k \in 0..Len(q) PROVE h[Len(p) + k] = g[k]
        BY <1>3, <2>1
    <2>3. QED
        BY <1>3, <2>2
<1> HIDE DEF h
<1>5. h[0] = c /\ h[Len(p) + Len(q)] = e
    BY <1>1, <1>2, <1>3, <1>4 DEF ReadsBy
<1>6. ASSUME NEW k \in 1..(Len(p) + Len(q))
      PROVE  LegalEvent(h[k - 1], (p \o q)[k]) /\ h[k] = Read(h[k - 1], (p \o q)[k])
    <2>1. CASE k <= Len(p)
        <3>1. k \in 1..Len(p) /\ k \in 0..Len(p) /\ k - 1 \in 0..Len(p)
            BY <1>3, <2>1
        <3>2. h[k] = f[k] /\ h[k - 1] = f[k - 1] /\ (p \o q)[k] = p[k]
            BY <1>3, <1>4, <3>1
        <3>3. QED
            BY <1>1, <3>1, <3>2 DEF ReadsBy
    <2>2. CASE k > Len(p)
        <3> DEFINE m == k - Len(p)
        <3>1. m \in 1..Len(q) /\ m \in 0..Len(q) /\ m - 1 \in 0..Len(q)
              /\ Len(p) + m = k /\ Len(p) + (m - 1) = k - 1
            BY <1>3, <2>2
        <3> HIDE DEF m
        <3>2. h[k] = g[m] /\ h[k - 1] = g[m - 1] /\ (p \o q)[k] = q[m]
            BY <1>3, <1>4, <3>1
        <3>3. QED
            BY <1>2, <3>1, <3>2 DEF ReadsBy
    <2>3. QED
        BY <1>3, <2>1, <2>2
<1>7. ReadsBy(c, p \o q, e, h)
    BY <1>3, <1>5, <1>6 DEF ReadsBy
<1>8. QED
    BY <1>7 DEF Reads

LEMMA ReadsHead ==
    ASSUME NEW T, NEW q \in Seq(T), q # <<>>, NEW c, NEW d, Reads(c, q, d)
    PROVE  LegalEvent(c, Head(q)) /\ Reads(Read(c, Head(q)), Tail(q), d)
<1>1. PICK f : ReadsBy(c, q, d, f)
    BY DEF Reads
<1>2. /\ Len(q) \in Nat \ {0} /\ Head(q) = q[1] /\ Len(Tail(q)) = Len(q) - 1
      /\ \A k \in 1..(Len(q) - 1) : Tail(q)[k] = q[k + 1]
    BY SMT
<1>3. f[0] = c /\ LegalEvent(c, q[1]) /\ f[1] = Read(c, q[1])
    <2>1. 1 \in 1..Len(q) /\ 1 - 1 = 0
        BY <1>2
    <2>2. QED
        BY <1>1, <2>1 DEF ReadsBy
<1> DEFINE g == [k \in 0..(Len(q) - 1) |-> f[k + 1]]
<1>4. \A k \in 0..(Len(q) - 1) : g[k] = f[k + 1]
    OBVIOUS
<1> HIDE DEF g
<1>5. g[0] = Read(c, q[1]) /\ g[Len(q) - 1] = d
    BY <1>1, <1>2, <1>3, <1>4 DEF ReadsBy
<1>6. ASSUME NEW k \in 1..(Len(q) - 1)
      PROVE  LegalEvent(g[k - 1], Tail(q)[k]) /\ g[k] = Read(g[k - 1], Tail(q)[k])
    <2>1. k + 1 \in 1..Len(q) /\ k \in 0..(Len(q) - 1) /\ k - 1 \in 0..(Len(q) - 1) /\ (k + 1) - 1 = k /\ (k - 1) + 1 = k
        BY <1>2
    <2>2. g[k] = f[k + 1] /\ g[k - 1] = f[k] /\ Tail(q)[k] = q[k + 1]
        BY <1>2, <1>4, <2>1
    <2>3. QED
        BY <1>1, <2>1, <2>2 DEF ReadsBy
<1>7. ReadsBy(Read(c, q[1]), Tail(q), d, g)
    BY <1>2, <1>5, <1>6 DEF ReadsBy
<1>8. QED
    BY <1>2, <1>3, <1>7 DEF Reads

-----------------------------------------------------------------------------
(* The same, of what the translator knows of the client.                   *)

View(c) == <<c.phase, c.open, c.used>>

\* Whoever reads q with the view u ends with the view v.
Path(u, q, v) == \A c : View(c) = u => \E d : Reads(c, q, d) /\ View(d) = v

LEMMA PathNone == ASSUME NEW u PROVE Path(u, <<>>, u)
BY ReadsNothing DEF Path

LEMMA PathThen ==
    ASSUME NEW T, NEW p \in Seq(T), NEW q \in Seq(T), NEW u, NEW v, NEW w, Path(u, p, v), Path(v, q, w)
    PROVE  Path(u, p \o q, w)
<1>1. SUFFICES ASSUME NEW c, View(c) = u PROVE \E e : Reads(c, p \o q, e) /\ View(e) = w
    BY DEF Path
<1>2. PICK d : Reads(c, p, d) /\ View(d) = v
    BY <1>1 DEF Path
<1>3. PICK e : Reads(d, q, e) /\ View(e) = w
    BY <1>2 DEF Path
<1>4. QED
    BY <1>2, <1>3, ReadsThen

LEMMA PathOne ==
    ASSUME NEW u, NEW v, NEW e, \A c : View(c) = u => LegalEvent(c, e) /\ View(Read(c, e)) = v
    PROVE  Path(u, <<e>>, v)
BY ReadsOne DEF Path

LEMMA ReadStart ==
    ASSUME NEW c, NEW i, NEW k
    PROVE  View(Read(c, BlockEvent("start", i, k))) = <<c.phase, c.open \cup {<<i, k>>}, c.used \cup {i}>>
BY DEF View, Read, BlockEvent

LEMMA ReadDelta ==
    ASSUME NEW c, NEW i, NEW k
    PROVE  View(Read(c, BlockEvent("delta", i, k))) = View(c)
BY DEF View, Read, BlockEvent

LEMMA ReadStop ==
    ASSUME NEW c, NEW i, NEW k
    PROVE  /\ Read(c, BlockEvent("stop", i, k)) =
                [phase |-> c.phase, open |-> {b \in c.open : b[1] # i}, used |-> c.used,
                 last |-> BlockEvent("stop", i, k)]
           /\ View(Read(c, BlockEvent("stop", i, k))) = <<c.phase, {b \in c.open : b[1] # i}, c.used>>
<1>1. Read(c, BlockEvent("stop", i, k)) =
        [phase |-> c.phase, open |-> {b \in c.open : b[1] # i}, used |-> c.used,
         last |-> BlockEvent("stop", i, k)]
    BY DEF Read, BlockEvent
<1>2. QED
    BY <1>1 DEF View

LEMMA ReadNamed ==
    ASSUME NEW c
    PROVE  /\ View(Read(c, Event("message_start"))) = <<"streaming", c.open, c.used>>
           /\ View(Read(c, Event("message_delta"))) = <<"stopping", c.open, c.used>>
           /\ View(Read(c, Event("message_stop"))) = <<"complete", c.open, c.used>>
           /\ View(Read(c, Event("error"))) =
                <<IF c.phase \in {"complete", "failed"} THEN "aborted" ELSE "failed", c.open, c.used>>
BY DEF View, Read, Event

LEMMA UsedCount ==
    ASSUME NEW n \in Nat
    PROVE  Cardinality(0..(n - 1)) = n /\ (0..(n - 1)) \cup {n} = 0..n
<1>1. 0 \in Int /\ n - 1 \in Int /\ (0 > n - 1 <=> n = 0) /\ (n - 1) - 0 + 1 = n
    OBVIOUS
<1>2. Cardinality(0..(n - 1)) = IF 0 > n - 1 THEN 0 ELSE (n - 1) - 0 + 1
    BY <1>1, FS_Interval, Zenon
<1>3. (0..(n - 1)) \cup {n} = 0..n
    OBVIOUS
<1>4. QED
    BY <1>1, <1>2, <1>3

\* A block opens under the next number: a tool block beside others, any other alone.
LEMMA PathStart ==
    ASSUME NEW n \in Nat, NEW k \in Kinds, NEW open,
           IF k = "tool_use" THEN \A b \in open : b[2] = "tool_use" ELSE open = {}
    PROVE  Path(<<"streaming", open, 0..(n - 1)>>, <<BlockEvent("start", n, k)>>,
                <<"streaming", open \cup {<<n, k>>}, 0..n>>)
<1> DEFINE e == BlockEvent("start", n, k)
<1>1. ASSUME NEW c, View(c) = <<"streaming", open, 0..(n - 1)>>
      PROVE  LegalEvent(c, e) /\ View(Read(c, e)) = <<"streaming", open \cup {<<n, k>>}, 0..n>>
    <2>1. c.phase = "streaming" /\ c.open = open /\ c.used = 0..(n - 1)
        BY <1>1 DEF View
    <2>2. Cardinality(c.used) = n /\ c.used \cup {n} = 0..n
        BY <2>1, UsedCount
    <2>3. IF k = "tool_use" THEN \A b \in c.open : b[2] = "tool_use" ELSE c.open = {}
        BY <2>1
    <2>4. LegalEvent(c, e)
        BY <2>1, <2>2, <2>3, Zenon DEF LegalEvent
    <2>5. View(Read(c, e)) = <<c.phase, c.open \cup {<<n, k>>}, c.used \cup {n}>>
        BY ReadStart
    <2>6. QED
        BY <2>1, <2>2, <2>4, <2>5
<1>2. QED
    BY <1>1, PathOne

LEMMA PathDelta ==
    ASSUME NEW used, NEW open, NEW i, NEW k, <<i, k>> \in open
    PROVE  Path(<<"streaming", open, used>>, <<BlockEvent("delta", i, k)>>, <<"streaming", open, used>>)
<1> DEFINE e == BlockEvent("delta", i, k)  u == <<"streaming", open, used>>
<1>1. ASSUME NEW c, View(c) = u PROVE LegalEvent(c, e) /\ View(Read(c, e)) = u
    <2>1. c.phase = "streaming" /\ c.open = open
        BY <1>1 DEF View
    <2>2. <<i, k>> \in c.open /\ e = BlockEvent("delta", <<i, k>>[1], <<i, k>>[2])
        BY <2>1
    <2> HIDE DEF e
    <2>3. LegalEvent(c, e)
        BY <2>1, <2>2, Zenon DEF LegalEvent
    <2>4. QED
        BY <1>1, <2>3, ReadDelta DEF e
<1>2. QED
    BY <1>1, PathOne

LEMMA PathStop ==
    ASSUME NEW used, NEW open, NEW i, NEW k, <<i, k>> \in open, \A b \in open : b[1] = i => b = <<i, k>>
    PROVE  Path(<<"streaming", open, used>>, <<BlockEvent("stop", i, "")>>,
                <<"streaming", open \ {<<i, k>>}, used>>)
<1> DEFINE e == BlockEvent("stop", i, "")
<1>1. ASSUME NEW c, View(c) = <<"streaming", open, used>>
      PROVE  LegalEvent(c, e) /\ View(Read(c, e)) = <<"streaming", open \ {<<i, k>>}, used>>
    <2>1. c.phase = "streaming" /\ c.open = open /\ c.used = used
        BY <1>1 DEF View
    <2>2. <<i, k>> \in c.open /\ e = BlockEvent("stop", <<i, k>>[1], "")
        BY <2>1
    <2>3. {d \in c.open : d[1] # <<i, k>>[1]} = c.open \ {<<i, k>>}
        BY <2>1
    <2>4. {d \in c.open : d[1] # i} = open \ {<<i, k>>}
        BY <2>1
    <2> HIDE DEF e
    <2>5. LegalEvent(c, e)
        BY <2>1, <2>2, <2>3, Zenon DEF LegalEvent
    <2>6. QED
        BY <2>1, <2>4, <2>5, ReadStop DEF e
<1>2. QED
    BY <1>1, PathOne

LEMMA PathNamed ==
    ASSUME NEW open, NEW used
    PROVE  /\ Path(<<"idle", open, used>>, <<Event("message_start")>>, <<"streaming", open, used>>)
           /\ Path(<<"stopping", open, used>>, <<Event("message_stop")>>, <<"complete", open, used>>)
           /\ Path(<<"streaming", {}, used>>, <<Event("message_delta")>>, <<"stopping", {}, used>>)
           /\ \A ph \in {"idle", "streaming"} :
                 Path(<<ph, {}, used>>, <<Event("error")>>, <<"failed", {}, used>>)
           /\ \A ph \in {"complete", "failed"} :
                 Path(<<ph, open, used>>, <<Event("error")>>, <<"aborted", open, used>>)
<1>1. Path(<<"idle", open, used>>, <<Event("message_start")>>, <<"streaming", open, used>>)
    <2>1. ASSUME NEW c, View(c) = <<"idle", open, used>>
          PROVE  LegalEvent(c, Event("message_start")) /\ View(Read(c, Event("message_start"))) = <<"streaming", open, used>>
        <3>1. c.phase = "idle" /\ c.open = open /\ c.used = used
            BY <2>1 DEF View
        <3>2. LegalEvent(c, Event("message_start"))
            BY <3>1, Zenon DEF LegalEvent
        <3>3. View(Read(c, Event("message_start"))) = <<"streaming", c.open, c.used>>
            BY ReadNamed
        <3>4. QED
            BY <3>1, <3>2, <3>3
    <2>2. QED
        BY <2>1, PathOne
<1>2. Path(<<"stopping", open, used>>, <<Event("message_stop")>>, <<"complete", open, used>>)
    <2>1. ASSUME NEW c, View(c) = <<"stopping", open, used>>
          PROVE  LegalEvent(c, Event("message_stop")) /\ View(Read(c, Event("message_stop"))) = <<"complete", open, used>>
        <3>1. c.phase = "stopping" /\ c.open = open /\ c.used = used
            BY <2>1 DEF View
        <3>2. LegalEvent(c, Event("message_stop"))
            BY <3>1, Zenon DEF LegalEvent
        <3>3. View(Read(c, Event("message_stop"))) = <<"complete", c.open, c.used>>
            BY ReadNamed
        <3>4. QED
            BY <3>1, <3>2, <3>3
    <2>2. QED
        BY <2>1, PathOne
<1>3. Path(<<"streaming", {}, used>>, <<Event("message_delta")>>, <<"stopping", {}, used>>)
    <2>1. ASSUME NEW c, View(c) = <<"streaming", {}, used>>
          PROVE  LegalEvent(c, Event("message_delta")) /\ View(Read(c, Event("message_delta"))) = <<"stopping", {}, used>>
        <3>1. c.phase = "streaming" /\ c.open = {} /\ c.used = used
            BY <2>1 DEF View
        <3>2. LegalEvent(c, Event("message_delta"))
            BY <3>1, Zenon DEF LegalEvent
        <3>3. View(Read(c, Event("message_delta"))) = <<"stopping", c.open, c.used>>
            BY ReadNamed
        <3>4. QED
            BY <3>1, <3>2, <3>3
    <2>2. QED
        BY <2>1, PathOne
<1>4. ASSUME NEW ph \in {"idle", "streaming"}
      PROVE  Path(<<ph, {}, used>>, <<Event("error")>>, <<"failed", {}, used>>)
    <2>1. ASSUME NEW c, View(c) = <<ph, {}, used>>
          PROVE  LegalEvent(c, Event("error")) /\ View(Read(c, Event("error"))) = <<"failed", {}, used>>
        <3>1. c.phase \notin {"complete", "failed", "aborted"} /\ c.open = {} /\ c.used = used
            BY <2>1 DEF View
        <3>2. LegalEvent(c, Event("error"))
            BY <3>1, Zenon DEF LegalEvent
        <3>3. View(Read(c, Event("error"))) = <<"failed", c.open, c.used>>
            BY <3>1, ReadNamed
        <3>4. QED
            BY <3>1, <3>2, <3>3
    <2>2. QED
        BY <2>1, PathOne
<1>5. ASSUME NEW ph \in {"complete", "failed"}
      PROVE  Path(<<ph, open, used>>, <<Event("error")>>, <<"aborted", open, used>>)
    <2>1. ASSUME NEW c, View(c) = <<ph, open, used>>
          PROVE  LegalEvent(c, Event("error")) /\ View(Read(c, Event("error"))) = <<"aborted", open, used>>
        <3>1. c.phase \in {"complete", "failed"} /\ c.open = open /\ c.used = used
            BY <2>1 DEF View
        <3>2. LegalEvent(c, Event("error"))
            BY <3>1, Zenon DEF LegalEvent
        <3>3. View(Read(c, Event("error"))) = <<"aborted", c.open, c.used>>
            BY <3>1, ReadNamed
        <3>4. QED
            BY <3>1, <3>2, <3>3
    <2>2. QED
        BY <2>1, PathOne
<1>6. QED
    BY <1>1, <1>2, <1>3, <1>4, <1>5

-----------------------------------------------------------------------------
(* Closing what is open.                                                   *)

ToolBlocks == {<<t[2], "tool_use">> : t \in ToSet(tools)}

LEMMA FunctionIsSeq ==
    ASSUME NEW T, NEW n \in Nat, NEW f \in [1..n -> T]
    PROVE  f \in Seq(T) /\ Len(f) = n
OBVIOUS

LEMMA ToolTyped ==
    ASSUME TypeOK
    PROVE  /\ DOMAIN tools = 1..Len(tools) /\ Len(tools) \in Nat
           /\ \A k \in 1..Len(tools) : tools[k] \in Calls \X Nat /\ tools[k][1] \in Calls
                                      /\ tools[k][2] \in Nat /\ tools[k][2] \in Int
           /\ scalar.idx \in Int /\ scalar = [kind |-> scalar.kind, idx |-> scalar.idx]
<1>1. tools \in Seq(Calls \X Nat) /\ next \in Nat
    BY DEF TypeOK
<1>2. DOMAIN tools = 1..Len(tools) /\ Len(tools) \in Nat /\ \A k \in 1..Len(tools) : tools[k] \in Calls \X Nat
    BY <1>1
<1>3. \A t \in Calls \X Nat : t[1] \in Calls /\ t[2] \in Nat /\ t[2] \in Int
    OBVIOUS
<1>4. scalar \in [kind : {"none", "thinking", "text"}, idx : -1..next]
    BY DEF TypeOK
<1>5. scalar.idx \in Int /\ scalar = [kind |-> scalar.kind, idx |-> scalar.idx]
    BY <1>1, <1>4
<1>6. QED
    BY <1>2, <1>3, <1>5, Zenon

LEMMA BlockTyped ==
    \A i \in Int : \A k \in Kinds \cup {""} :
        /\ BlockEvent("start", i, k) \in AllEvents /\ BlockEvent("delta", i, k) \in AllEvents
        /\ BlockEvent("stop", i, k) \in AllEvents
BY DEF BlockEvent, AllEvents, Events, Kinds

LEMMA StopsTyped ==
    ASSUME TypeOK
    PROVE  /\ _close_all_open_tools \in Seq(AllEvents) /\ _close_current_scalar \in Seq(AllEvents)
           /\ Len(_close_all_open_tools) = Len(tools)
           /\ \A k \in 1..Len(tools) : _close_all_open_tools[k] = BlockEvent("stop", tools[k][2], "")
<1>1. \A i \in Int : BlockEvent("stop", i, "") \in AllEvents
    BY BlockTyped
<1>2. \A k \in 1..Len(tools) : BlockEvent("stop", tools[k][2], "") \in AllEvents
    BY <1>1, ToolTyped, Zenon
<1>3. DOMAIN tools = 1..Len(tools) /\ Len(tools) \in Nat
    BY ToolTyped
<1>4. /\ _close_all_open_tools \in [1..Len(tools) -> AllEvents]
      /\ \A k \in 1..Len(tools) : _close_all_open_tools[k] = BlockEvent("stop", tools[k][2], "")
    BY <1>2, <1>3 DEF _close_all_open_tools
<1> HIDE DEF _close_all_open_tools
<1>5. _close_all_open_tools \in Seq(AllEvents) /\ Len(_close_all_open_tools) = Len(tools)
    BY <1>3, <1>4, FunctionIsSeq, Zenon
<1>6. _close_current_scalar \in Seq(AllEvents)
    <2>1. BlockEvent("stop", scalar.idx, "") \in AllEvents
        BY <1>1, ToolTyped, Zenon
    <2>2. QED
        <3> DEFINE e == BlockEvent("stop", scalar.idx, "")
        <3>1. e \in AllEvents /\ _close_current_scalar = IF scalar = NoScalar THEN <<>> ELSE <<e>>
            BY <2>1 DEF _close_current_scalar
        <3> HIDE DEF e
        <3>2. QED
            BY <3>1
<1>7. QED
    BY <1>4, <1>5, <1>6

\* The tool blocks still open once the first k are closed.
ToolsFrom(k) == {<<tools[j][2], "tool_use">> : j \in (k + 1)..Len(tools)}

LEMMA ToolsStep ==
    ASSUME TypeOK, BlocksApart
    PROVE  /\ ToolsFrom(0) = ToolBlocks /\ ToolsFrom(Len(tools)) = {}
           /\ \A k \in 1..Len(tools) :
                 LET b == <<tools[k][2], "tool_use">>
                 IN  /\ b \in ToolsFrom(k - 1) /\ ToolsFrom(k) = ToolsFrom(k - 1) \ {b}
                     /\ {d \in ToolsFrom(k - 1) : d[1] # b[1]} = ToolsFrom(k - 1) \ {b}
<1>1. Len(tools) \in Nat /\ DOMAIN tools = 1..Len(tools)
    BY ToolTyped
<1>2. ToolsFrom(0) = ToolBlocks
    <2>1. \A t : t \in ToSet(tools) <=> \E j \in 1..Len(tools) : t = tools[j]
        BY <1>1 DEF ToSet
    <2>2. (0 + 1)..Len(tools) = 1..Len(tools)
        OBVIOUS
    <2>3. \A d : d \in ToolBlocks <=> \E t \in ToSet(tools) : d = <<t[2], "tool_use">>
        BY Zenon DEF ToolBlocks
    <2>4. \A d : d \in ToolsFrom(0) <=> \E j \in 1..Len(tools) : d = <<tools[j][2], "tool_use">>
        BY <2>2, Zenon DEF ToolsFrom
    <2>5. \A d : d \in ToolsFrom(0) <=> d \in ToolBlocks
        <3>1. ASSUME NEW d, d \in ToolsFrom(0) PROVE d \in ToolBlocks
            BY <3>1, <2>1, <2>3, <2>4, Zenon
        <3>2. ASSUME NEW d, d \in ToolBlocks PROVE d \in ToolsFrom(0)
            BY <3>2, <2>1, <2>3, <2>4, ZenonT(40)
        <3>3. QED
            BY <3>1, <3>2
    <2>6. QED
        BY <2>5, Zenon
<1>3. ToolsFrom(Len(tools)) = {}
    <2>1. (Len(tools) + 1)..Len(tools) = {}
        BY <1>1
    <2>2. QED
        BY <2>1, Zenon DEF ToolsFrom
<1>4. ASSUME NEW k \in 1..Len(tools)
      PROVE  LET b == <<tools[k][2], "tool_use">>
             IN  /\ b \in ToolsFrom(k - 1) /\ ToolsFrom(k) = ToolsFrom(k - 1) \ {b}
                 /\ {d \in ToolsFrom(k - 1) : d[1] # b[1]} = ToolsFrom(k - 1) \ {b}
    <2> DEFINE b == <<tools[k][2], "tool_use">>
               blk(j) == <<tools[j][2], "tool_use">>
    <2>1. \A j : j \in ((k - 1) + 1)..Len(tools) <=> j = k \/ j \in (k + 1)..Len(tools)
        BY <1>1
    <2>2. \A j \in (k + 1)..Len(tools) : j \in 1..Len(tools) /\ j # k
        BY <1>1
    <2>3. \A j \in (k + 1)..Len(tools) : tools[j][2] # tools[k][2]
        BY <1>1, <2>2 DEF BlocksApart
    <2>4. \A d : d \in ToolsFrom(k - 1) <=> \E j \in ((k - 1) + 1)..Len(tools) : d = blk(j)
        BY Zenon DEF ToolsFrom
    <2>5. \A d : d \in ToolsFrom(k) <=> \E j \in (k + 1)..Len(tools) : d = blk(j)
        BY Zenon DEF ToolsFrom
    <2>6. \A d : d \in ToolsFrom(k - 1) <=> d = b \/ d \in ToolsFrom(k)
        BY <2>1, <2>4, <2>5, Zenon
    <2>7. \A d \in ToolsFrom(k) : d # b /\ d[1] # b[1]
        <3>1. \A j \in (k + 1)..Len(tools) : blk(j)[1] # b[1] /\ blk(j) # b
            BY <2>3
        <3> HIDE DEF b, blk
        <3>2. QED
            BY <2>5, <3>1, Zenon
    <2> HIDE DEF b
    <2>8. /\ b \in ToolsFrom(k - 1) /\ ToolsFrom(k) = ToolsFrom(k - 1) \ {b}
          /\ {d \in ToolsFrom(k - 1) : d[1] # b[1]} = ToolsFrom(k - 1) \ {b}
        BY <2>6, <2>7
    <2>9. QED
        BY <2>8 DEF b
<1>5. QED
    BY <1>2, <1>3, <1>4

LEMMA PathTools ==
    ASSUME TypeOK, BlocksApart, NEW used
    PROVE  Path(<<"streaming", ToolBlocks, used>>, _close_all_open_tools, <<"streaming", {}, used>>)
<1> DEFINE L == Len(tools)  q == _close_all_open_tools
<1>1. Len(q) = L /\ \A k \in 1..L : q[k] = BlockEvent("stop", tools[k][2], "")
    BY StopsTyped, ToolTyped
<1>3. L \in Nat
    BY ToolTyped
<1>2. SUFFICES ASSUME NEW c, View(c) = <<"streaming", ToolBlocks, used>>
               PROVE  \E d : Reads(c, q, d) /\ View(d) = <<"streaming", {}, used>>
    BY DEF Path
<1>4. c.phase = "streaming" /\ c.open = ToolsFrom(0) /\ c.used = used
    BY <1>2, ToolsStep DEF View
<1> HIDE DEF L, q
<1> DEFINE At(k) == [phase |-> "streaming", open |-> ToolsFrom(k), used |-> used,
                     last |-> q[k]]
           cs == [k \in 0..L |-> IF k = 0 THEN c ELSE At(k)]
<1>5. cs[0] = c /\ \A k \in 1..L : cs[k] = At(k)
    BY <1>3
<1> HIDE DEF cs
<1>6. \A k \in 0..L : cs[k].phase = "streaming" /\ cs[k].open = ToolsFrom(k) /\ cs[k].used = used
    <2>1. \A k : At(k).phase = "streaming" /\ At(k).open = ToolsFrom(k) /\ At(k).used = used
        OBVIOUS
    <2>2. \A k \in 0..L : k = 0 \/ k \in 1..L
        BY <1>3
    <2> HIDE DEF At
    <2>3. QED
        BY <1>4, <1>5, <2>1, <2>2, Zenon
<1>7. ASSUME NEW k \in 1..L
      PROVE  LegalEvent(cs[k - 1], q[k]) /\ cs[k] = Read(cs[k - 1], q[k])
    <2> DEFINE b == <<tools[k][2], "tool_use">>
    <2>1. k - 1 \in 0..L
        BY <1>3
    <2>2. /\ b \in ToolsFrom(k - 1) /\ ToolsFrom(k) = ToolsFrom(k - 1) \ {b}
          /\ {d \in ToolsFrom(k - 1) : d[1] # b[1]} = ToolsFrom(k - 1) \ {b}
        BY ToolsStep DEF L
    <2>4. q[k] = BlockEvent("stop", b[1], "")
        BY <1>1
    <2> HIDE DEF b
    <2>5. cs[k - 1].phase = "streaming" /\ cs[k - 1].open = ToolsFrom(k - 1)
          /\ cs[k - 1].used = used
        BY <1>6, <2>1
    <2>6. LegalEvent(cs[k - 1], q[k])
        BY <2>2, <2>4, <2>5, Zenon DEF LegalEvent
    <2>7. Read(cs[k - 1], q[k]) = At(k)
        <3>1. Read(cs[k - 1], BlockEvent("stop", b[1], "")) =
                [phase |-> cs[k - 1].phase, open |-> {d \in cs[k - 1].open : d[1] # b[1]},
                 used |-> cs[k - 1].used, last |-> BlockEvent("stop", b[1], "")]
            BY <2>4, ReadStop, ZenonT(40)
        <3>2. QED
            BY <2>2, <2>4, <2>5, <3>1
    <2>8. QED
        BY <1>5, <2>6, <2>7
<1>8. ReadsBy(c, q, cs[L], cs)
    BY <1>1, <1>3, <1>5, <1>7 DEF ReadsBy
<1>9. View(cs[L]) = <<"streaming", {}, used>>
    <2>1. L \in 0..L /\ ToolsFrom(L) = {}
        BY <1>3, ToolsStep DEF L
    <2>3. QED
        BY <1>6, <2>1 DEF View
<1>10. QED
    BY <1>8, <1>9 DEF Reads, q

LEMMA PathScalar ==
    ASSUME TypeOK, scalar # NoScalar, NEW used
    PROVE  Path(<<"streaming", {<<scalar.idx, scalar.kind>>}, used>>, _close_current_scalar,
                <<"streaming", {}, used>>)
<1> DEFINE b == <<scalar.idx, scalar.kind>>
<1>1. Path(<<"streaming", {b}, used>>, <<BlockEvent("stop", scalar.idx, "")>>, <<"streaming", {b} \ {b}, used>>)
    <2>1. <<scalar.idx, scalar.kind>> \in {b} /\ \A d \in {b} : d[1] = scalar.idx => d = <<scalar.idx, scalar.kind>>
        OBVIOUS
    <2>2. \A open, i, k : <<i, k>> \in open /\ (\A d \in open : d[1] = i => d = <<i, k>>)
             => Path(<<"streaming", open, used>>, <<BlockEvent("stop", i, "")>>, <<"streaming", open \ {<<i, k>>}, used>>)
        BY PathStop
    <2>3. QED
        BY <2>1, <2>2, Zenon
<1>2. {b} \ {b} = {}
    OBVIOUS
<1>3. QED
    BY <1>1, <1>2 DEF _close_current_scalar

\* Either of the two closes all there is.
LEMMA PathClosers ==
    ASSUME TypeOK, BlocksApart, NEW used
    PROVE  /\ Path(<<"streaming", OpenBlocks, used>>, _close_all_open_blocks, <<"streaming", {}, used>>)
           /\ Path(<<"streaming", OpenBlocks, used>>, _close_all_open_tools \o _close_current_scalar,
                   <<"streaming", {}, used>>)
           /\ _close_all_open_blocks \in Seq(AllEvents)
           /\ _close_all_open_tools \o _close_current_scalar \in Seq(AllEvents)
<1>1. OpenBlocks = (IF scalar = NoScalar THEN {} ELSE {<<scalar.idx, scalar.kind>>}) \cup ToolBlocks
    BY DEF OpenBlocks, ToolBlocks
<1>2. _close_all_open_tools \in Seq(AllEvents) /\ _close_current_scalar \in Seq(AllEvents)
    BY StopsTyped
<1>3. CASE scalar = NoScalar
    <2>1. _close_current_scalar = <<>>
        BY <1>3 DEF _close_current_scalar
    <2>2. Path(<<"streaming", OpenBlocks, used>>, _close_all_open_tools, <<"streaming", {}, used>>)
        BY <1>1, <1>3, PathTools
    <2>3. <<>> \o _close_all_open_tools = _close_all_open_tools
          /\ _close_all_open_tools \o <<>> = _close_all_open_tools
        BY <1>2
    <2>4. QED
        BY <1>2, <2>1, <2>2, <2>3 DEF _close_all_open_blocks
<1>4. CASE scalar # NoScalar
    <2>1. tools = <<>>
        BY <1>4 DEF BlocksApart
    <2>2. ToolBlocks = {} /\ Len(_close_all_open_tools) = 0
        BY <2>1, StopsTyped DEF ToolBlocks, ToSet
    <2>3. _close_all_open_tools = <<>>
        BY <1>2, <2>2
    <2>4. Path(<<"streaming", OpenBlocks, used>>, _close_current_scalar, <<"streaming", {}, used>>)
        <3>1. OpenBlocks = {<<scalar.idx, scalar.kind>>}
            BY <1>1, <1>4, <2>2
        <3>2. QED
            BY <1>4, <3>1, PathScalar
    <2>5. <<>> \o _close_current_scalar = _close_current_scalar
          /\ _close_current_scalar \o <<>> = _close_current_scalar
        BY <1>2
    <2>6. QED
        BY <1>2, <2>3, <2>4, <2>5 DEF _close_all_open_blocks
<1>5. QED
    BY <1>3, <1>4

LEMMA NamedTyped == \A name \in Events : Event(name) \in AllEvents /\ <<Event(name)>> \in Seq(AllEvents)
<1>1. \A name \in Events : Event(name) \in AllEvents
    <2>1. 0 \in Int /\ "" \in Kinds \cup {""}
        OBVIOUS
    <2>2. QED
        BY <2>1 DEF Event, AllEvents
<1>2. QED
    BY <1>1

\* The terminal: all blocks closed, message_delta, message_stop.
LEMMA PathEnding ==
    ASSUME TypeOK, BlocksApart, NEW used
    PROVE  /\ Path(<<"streaming", OpenBlocks, used>>, Ending, <<"complete", {}, used>>)
           /\ Ending \in Seq(AllEvents)
<1>1. /\ <<Event("message_delta")>> \in Seq(AllEvents) /\ <<Event("message_stop")>> \in Seq(AllEvents)
    BY NamedTyped DEF Events
<1>2. <<Event("message_delta"), Event("message_stop")>> = <<Event("message_delta")>> \o <<Event("message_stop")>>
    OBVIOUS
<1>3. Path(<<"streaming", {}, used>>, <<Event("message_delta"), Event("message_stop")>>, <<"complete", {}, used>>)
    <2>1. Path(<<"streaming", {}, used>>, <<Event("message_delta")>>, <<"stopping", {}, used>>)
        BY PathNamed
    <2>2. Path(<<"stopping", {}, used>>, <<Event("message_stop")>>, <<"complete", {}, used>>)
        BY PathNamed
    <2>3. QED
        BY <1>1, <1>2, <2>1, <2>2, PathThen
<1>4. <<Event("message_delta"), Event("message_stop")>> \in Seq(AllEvents)
    BY <1>1, <1>2
<1>5. /\ _close_all_open_blocks \in Seq(AllEvents)
      /\ Path(<<"streaming", OpenBlocks, used>>, _close_all_open_blocks, <<"streaming", {}, used>>)
    BY PathClosers
<1>6. Path(<<"streaming", OpenBlocks, used>>, Ending, <<"complete", {}, used>>)
    BY <1>3, <1>4, <1>5, PathThen DEF Ending
<1>7. Ending \in Seq(AllEvents)
    BY <1>4, <1>5, SMT DEF Ending
<1>8. QED
    BY <1>6, <1>7

\* What close() adds to a message that was not ended.
LEMMA PathBroken ==
    ASSUME TypeOK, BlocksApart, NEW used
    PROVE  /\ Path(<<"streaming", OpenBlocks, used>>, _close_all_open_blocks \o <<Event("error")>>,
                   <<"failed", {}, used>>)
           /\ _close_all_open_blocks \o <<Event("error")>> \in Seq(AllEvents)
<1>1. <<Event("error")>> \in Seq(AllEvents)
    BY NamedTyped DEF Events
<1>2. Path(<<"streaming", {}, used>>, <<Event("error")>>, <<"failed", {}, used>>)
    BY PathNamed
<1>3. /\ _close_all_open_blocks \in Seq(AllEvents)
      /\ Path(<<"streaming", OpenBlocks, used>>, _close_all_open_blocks, <<"streaming", {}, used>>)
    BY PathClosers
<1>4. Path(<<"streaming", OpenBlocks, used>>, _close_all_open_blocks \o <<Event("error")>>,
           <<"failed", {}, used>>)
    BY <1>1, <1>2, <1>3, PathThen
<1>5. _close_all_open_blocks \o <<Event("error")>> \in Seq(AllEvents)
    BY <1>1, <1>3, SMT
<1>6. QED
    BY <1>4, <1>5

-----------------------------------------------------------------------------
(* Frames.                                                                 *)

Chunk == Seq(Items \ {"done"})

LEMMA ChunkNotDone == ASSUME NEW f \in Chunk PROVE f # Done /\ f # Torn
<1>1. CASE f = <<>>
    BY <1>1 DEF Done, Torn
<1>2. CASE f # <<>>
    <2>1. f[1] \in Items \ {"done"}
        BY <1>2, SMT DEF Chunk
    <2>2. f[1] # "done" /\ f[1] # "torn"
        BY <2>1 DEF Items
    <2>3. QED
        BY <2>2 DEF Done, Torn
<1>3. QED
    BY <1>1, <1>2

LEMMA ChunkShape ==
    ASSUME NEW f \in Chunk
    PROVE  /\ f # Done /\ f # Torn
           /\ Finished(f) <=> "finish" \in ToSet(f)
           /\ f # <<>> => /\ Tail(f) \in Chunk /\ Head(f) # "done"
                          /\ (Finished(Tail(f)) => Finished(f))
                          /\ (Head(f) = "finish" => Finished(f))
                          /\ (Adds(Tail(f)) => Adds(f))
                          /\ (Head(f) \notin Silent => Adds(f))
<1>1. f # Done /\ f # Torn
    BY ChunkNotDone
<1>2. Finished(f) <=> "finish" \in ToSet(f)
    BY <1>1 DEF Finished
<1>3. ASSUME f # <<>>
      PROVE  /\ Tail(f) \in Chunk /\ Head(f) # "done"
             /\ (Finished(Tail(f)) => Finished(f)) /\ (Head(f) = "finish" => Finished(f))
             /\ (Adds(Tail(f)) => Adds(f)) /\ (Head(f) \notin Silent => Adds(f))
    <2>1. /\ f \in Seq(Items \ {"done"}) /\ Tail(f) \in Seq(Items \ {"done"}) /\ Len(f) \in Nat \ {0}
          /\ Head(f) = f[1] /\ Len(Tail(f)) = Len(f) - 1
          /\ \A k \in 1..Len(Tail(f)) : Tail(f)[k] = f[k + 1] /\ k + 1 \in 1..Len(f)
          /\ 1 \in 1..Len(f) /\ f[1] \in Items \ {"done"}
        BY <1>3, SMT DEF Chunk
    <2>2. ToSet(f) = {f[k] : k \in 1..Len(f)} /\ ToSet(Tail(f)) = {Tail(f)[k] : k \in 1..Len(Tail(f))}
        BY <2>1, Elements, ZenonT(40)
    <2>3. ToSet(Tail(f)) \subseteq ToSet(f) /\ Head(f) \in ToSet(f)
        BY <2>1, <2>2, Zenon
    <2>4. Tail(f) # Done
        BY <2>1, ChunkNotDone DEF Chunk
    <2>5. Finished(Tail(f)) => Finished(f)
        BY <2>3, <2>4 DEF Finished
    <2>6. (Adds(Tail(f)) => Adds(f)) /\ (Head(f) \notin Silent => Adds(f))
        BY <2>1, <2>3 DEF Adds
    <2>7. QED
        BY <2>1, <2>3, <2>5, <2>6 DEF Finished, Chunk
<1>4. QED
    BY <1>1, <1>2, <1>3

LEMMA DoneShape == Head(Done) = "done" /\ Tail(Done) = <<>> /\ Done # <<>> /\ Torn # <<>> /\ Done # Torn /\ Finished(Done)
                   /\ ~Finished(Torn) /\ ~Finished(<<>>) /\ <<>> \in Chunk
                   /\ ~Adds(Torn) /\ ~Adds(Done) /\ ~Adds(<<>>)
<1>1. ToSet(Torn) = {"torn"} /\ ToSet(<<>>) = {} /\ ToSet(Done) = {"done"}
    BY DEF Torn, Done, ToSet
<1>2. ~Adds(Torn) /\ ~Adds(Done) /\ ~Adds(<<>>)
    BY <1>1 DEF Adds, Items, Calls
<1>3. QED
    BY <1>1, <1>2 DEF Done, Torn, Finished, Chunk

LEMMA SetupShape ==
    ASSUME TypeOK
    PROVE  /\ Mode \in {"buffered", "passthrough"} /\ Faults \subseteq AllFaults
           /\ \A f \in Frames : f \in Chunk /\ f # <<>>
           /\ setup.orderly \in BOOLEAN
BY BridgeAssumption DEF TypeOK, Mode, Frames, Faults, Chunk

LEMMA FrameShape == TypeOK => frame = Done \/ frame \in Chunk
BY DEF TypeOK, Chunk

-----------------------------------------------------------------------------
(* What the events waiting for the client promise.                         *)

\* No event of q ends the message as complete.
Quiet(q) == \A e \in ToSet(q) : e[1] # "message_stop"

LEMMA JoinedTyped == ASSUME NEW p \in Seq(AllEvents), NEW q \in Seq(AllEvents) PROVE p \o q \in Seq(AllEvents)
OBVIOUS

LEMMA QuietThen ==
    ASSUME NEW p \in Seq(AllEvents), NEW q \in Seq(AllEvents), Quiet(p), Quiet(q)
    PROVE  Quiet(p \o q) /\ p \o q \in Seq(AllEvents)
<1>1. /\ p \o q \in Seq(AllEvents) /\ Len(p) \in Nat /\ Len(q) \in Nat /\ Len(p \o q) = Len(p) + Len(q)
      /\ \A k \in 1..Len(p) : (p \o q)[k] = p[k]
      /\ \A k \in 1..Len(q) : (p \o q)[Len(p) + k] = q[k]
    BY SMT
<1>2. /\ ToSet(p) = {p[k] : k \in 1..Len(p)} /\ ToSet(q) = {q[k] : k \in 1..Len(q)}
      /\ ToSet(p \o q) = {(p \o q)[k] : k \in 1..Len(p \o q)}
    BY <1>1, Elements, Zenon
<1>3. ASSUME NEW k \in 1..Len(p \o q) PROVE (p \o q)[k] \in ToSet(p) \cup ToSet(q)
    <2>1. CASE k \in 1..Len(p)
        BY <1>1, <1>2, <2>1, Zenon
    <2>2. CASE k \notin 1..Len(p)
        <3> DEFINE m == k - Len(p)
        <3>1. m \in 1..Len(q) /\ Len(p) + m = k
            BY <1>1, <2>2
        <3> HIDE DEF m
        <3>2. (p \o q)[k] = q[m]
            BY <1>1, <3>1
        <3>3. QED
            BY <1>2, <3>1, <3>2, Zenon
    <2>3. QED
        BY <2>1, <2>2
<1>4. ToSet(p \o q) \subseteq ToSet(p) \cup ToSet(q)
    BY <1>2, <1>3, Zenon
<1>5. QED
    BY <1>1, <1>4 DEF Quiet

LEMMA QuietOne ==
    /\ Quiet(<<>>)
    /\ \A e : e[1] # "message_stop" => Quiet(<<e>>)
    /\ \A name \in {"start", "delta", "stop"} : \A i, k : Quiet(<<BlockEvent(name, i, k)>>)
    /\ \A name \in Events \ {"message_stop"} : Quiet(<<Event(name)>>)
<1>1. ToSet(<<>>) = {} /\ \A e : ToSet(<<e>>) = {e}
    BY DEF ToSet
<1>2. \A e : e[1] # "message_stop" => Quiet(<<e>>)
    BY <1>1 DEF Quiet
<1>3. \A name \in {"start", "delta", "stop"} : \A i, k : BlockEvent(name, i, k)[1] # "message_stop"
    BY DEF BlockEvent
<1>4. \A name \in Events \ {"message_stop"} : Event(name)[1] # "message_stop"
    BY DEF Event
<1>5. QED
    BY <1>1, <1>2, <1>3, <1>4, Zenon DEF Quiet

LEMMA OneIsSeq == ASSUME NEW T PROVE \A e \in T : <<e>> \in Seq(T)
OBVIOUS

LEMMA BlockOne ==
    ASSUME NEW i \in Int, NEW k \in Kinds \cup {""}
    PROVE  /\ <<BlockEvent("start", i, k)>> \in Seq(AllEvents) /\ Quiet(<<BlockEvent("start", i, k)>>)
           /\ <<BlockEvent("delta", i, k)>> \in Seq(AllEvents) /\ Quiet(<<BlockEvent("delta", i, k)>>)
           /\ <<BlockEvent("stop", i, k)>> \in Seq(AllEvents) /\ Quiet(<<BlockEvent("stop", i, k)>>)
<1>1. \A e \in AllEvents : <<e>> \in Seq(AllEvents)
    BY OneIsSeq
<1>2. /\ BlockEvent("start", i, k) \in AllEvents /\ BlockEvent("delta", i, k) \in AllEvents
      /\ BlockEvent("stop", i, k) \in AllEvents
    BY BlockTyped
<1>3. /\ Quiet(<<BlockEvent("start", i, k)>>) /\ Quiet(<<BlockEvent("delta", i, k)>>)
      /\ Quiet(<<BlockEvent("stop", i, k)>>)
    BY QuietOne
<1>4. QED
    BY <1>1, <1>2, <1>3

LEMMA QuietStops ==
    ASSUME TypeOK
    PROVE  /\ Quiet(_close_all_open_tools) /\ Quiet(_close_current_scalar)
           /\ _close_all_open_tools \in Seq(AllEvents) /\ _close_current_scalar \in Seq(AllEvents)
<1>1. /\ _close_all_open_tools \in Seq(AllEvents) /\ _close_current_scalar \in Seq(AllEvents)
      /\ Len(_close_all_open_tools) = Len(tools)
      /\ \A k \in 1..Len(tools) : _close_all_open_tools[k] = BlockEvent("stop", tools[k][2], "")
    BY StopsTyped
<1>2. \A q \in Seq(AllEvents) : ToSet(q) = {q[k] : k \in 1..Len(q)}
    BY Elements, Zenon
<1>3. \A i : BlockEvent("stop", i, "")[1] # "message_stop"
    BY DEF BlockEvent
<1>4. Quiet(_close_all_open_tools)
    <2> DEFINE q == _close_all_open_tools
    <2>1. q \in Seq(AllEvents) /\ \A k \in 1..Len(q) : q[k] = BlockEvent("stop", tools[k][2], "")
        BY <1>1
    <2> HIDE DEF q
    <2>2. ToSet(q) = {q[k] : k \in 1..Len(q)}
        BY <1>2, <2>1
    <2>3. \A k \in 1..Len(q) : q[k][1] # "message_stop"
        BY <1>3, <2>1
    <2>4. Quiet(q)
        BY <2>2, <2>3 DEF Quiet
    <2>5. QED
        BY <2>4 DEF q
<1>5. Quiet(_close_current_scalar)
    <2>1. Quiet(<<>>) /\ Quiet(<<BlockEvent("stop", scalar.idx, "")>>)
        BY QuietOne
    <2>2. QED
        BY <2>1 DEF _close_current_scalar
<1>6. QED
    BY <1>1, <1>4, <1>5

\* What close() yields never makes a message complete.
LEMMA QuietClosing ==
    ASSUME TypeOK
    PROVE  /\ Quiet(closing) /\ closing \in Seq(AllEvents)
           /\ Quiet(Append(closing, Event("error"))) /\ Append(closing, Event("error")) \in Seq(AllEvents)
           /\ Quiet(<<Event("error")>>) /\ <<Event("error")>> \in Seq(AllEvents)
<1>1. Quiet(_close_all_open_blocks) /\ _close_all_open_blocks \in Seq(AllEvents)
    BY QuietStops, QuietThen DEF _close_all_open_blocks
<1>2. Quiet(<<Event("error")>>) /\ <<Event("error")>> \in Seq(AllEvents) /\ Event("error") \in AllEvents
    BY QuietOne, NamedTyped DEF Events
<1>3. /\ Quiet(_close_all_open_blocks \o <<Event("error")>>)
      /\ _close_all_open_blocks \o <<Event("error")>> \in Seq(AllEvents)
    BY <1>1, <1>2, QuietThen
<1>4. Quiet(<<>>) /\ <<>> \in Seq(AllEvents)
    BY QuietOne
<1>5. Quiet(closing) /\ closing \in Seq(AllEvents)
    BY <1>3, <1>4 DEF closing
<1> HIDE DEF closing
<1>6. Append(closing, Event("error")) = closing \o <<Event("error")>>
    BY <1>2, <1>5, SMT
<1>7. QED
    BY <1>2, <1>5, <1>6, QuietThen

-----------------------------------------------------------------------------
(* The invariant, step by step.                                            *)

LEMMA InitHolds == ASSUME Init PROVE IInv
<1>1. /\ setup \in Setups /\ phase = "connect" /\ attempt = 0 /\ buf = <<>> /\ sent = "none"
      /\ frame = <<>> /\ outq = <<>> /\ started = FALSE /\ terminal = FALSE /\ errored = FALSE
      /\ scalar = NoScalar /\ tools = <<>> /\ next = 0
    BY Zenon DEF Init
<1>2. client.phase = "idle" /\ client.open = {} /\ client.used = {}
    BY DEF Init
<1>3. TypeOK
    <2>1. \A T : <<>> \in Seq(T)
        OBVIOUS
    <2>2. scalar \in [kind : {"none", "thinking", "text"}, idx : -1..next]
        BY <1>1 DEF NoScalar
    <2>3. attempt \in 0..(Retries + 1) /\ ~(attempt > Retries) /\ next \in Nat /\ phase \in {"connect", "read", "replay", "ended"}
          /\ sent \in {"none", "torn", "data", "finished"}
        BY <1>1, BridgeAssumption DEF BridgeAssumption
    <2>4. QED
        BY <1>1, <2>1, <2>2, <2>3, Zenon DEF TypeOK
<1>4. ToSet(<<>>) = {} /\ ~Finished(<<>>) /\ ~Adds(<<>>) /\ Done # <<>> /\ DOMAIN <<>> = {}
    BY DoneShape DEF ToSet
<1>5. Fresh /\ StreamShape /\ Translated /\ InOrder /\ TranslatedInOrder
    BY <1>1, <1>2, <1>4 DEF Fresh, StreamShape, Translated, InOrder, TranslatedInOrder
<1>6. BlocksApart /\ CompleteIsTrue
    BY <1>1, <1>2, <1>4 DEF BlocksApart, CompleteIsTrue
<1>7. QED
    BY <1>3, <1>5, <1>6 DEF IInv

LEMMA SameStream ==
    ASSUME StreamShape, InOrder, UNCHANGED <<setup, phase, buf, sent>> PROVE StreamShape' /\ InOrder'
<1>1. StreamShape'
    BY DEF StreamShape, Mode
<1>2. InOrder'
    BY DEF InOrder
<1>3. QED
    BY <1>1, <1>2

LEMMA SameBlocks == BlocksApart /\ UNCHANGED <<scalar, tools, next>> => BlocksApart'
BY DEF BlocksApart

\* What every handler of the translator has in common.
Handled ==
    /\ setup' = setup /\ bridge' = bridge /\ client' = client /\ errored' = errored
    /\ frame # <<>> /\ started' \in BOOLEAN /\ (setup.orderly => started')
    /\ frame' \in Chunk /\ (Finished(frame') => Finished(frame)) /\ (Adds(frame') => Adds(frame))
    /\ terminal' \in BOOLEAN /\ (terminal' => terminal \/ (Finished(frame) /\ frame' = <<>>))
    /\ outq' \in Seq(AllEvents) /\ (Quiet(outq') \/ Finished(frame))
    /\ scalar' \in [kind : {"none", "thinking", "text"}, idx : -1..next']
    /\ tools' \in Seq(Calls \X Nat) /\ next' \in Nat
    /\ BlocksApart'

LEMMA HandlerStep == ASSUME IInv, Handled PROVE IInv'
<1> USE DEF Handled
<1>1. UNCHANGED <<setup, phase, attempt, buf, sent, client, errored>>
    BY DEF bridge
<1>2. TypeOK'
    <2>1. Frames' = Frames
        BY <1>1 DEF Frames
    <2>2. QED
        BY <1>1, <2>1 DEF IInv, TypeOK, Chunk, AllEvents
<1>3. StreamShape' /\ InOrder'
    BY <1>1, SameStream DEF IInv
<1>4. Fresh'
    BY <1>1 DEF IInv, Fresh, Mode
<1>5. frame' # Done /\ ~Adds(<<>>)
    BY ChunkNotDone, DoneShape
<1>6. Translated' /\ TranslatedInOrder'
    <2>1. Translated'
        BY <1>1, <1>5 DEF IInv, Translated
    <2>2. TranslatedInOrder'
        <3>1. SUFFICES ASSUME setup.orderly PROVE TranslatedInOrder'
            BY <1>1 DEF TranslatedInOrder
        <3>2. started' /\ Begun'
            BY <3>1 DEF Begun
        <3>3. terminal' => ~Adds(frame')
            BY <1>1, <1>5, <3>1 DEF IInv, TranslatedInOrder
        <3>4. phase' = "replay" /\ (terminal' \/ Finished(frame')) => \A k \in DOMAIN buf' : ~Adds(buf'[k])
            BY <1>1, <3>1 DEF IInv, TranslatedInOrder
        <3> HIDE DEF Begun
        <3>5. QED
            BY <1>5, <3>2, <3>3, <3>4 DEF TranslatedInOrder
    <2>3. QED
        BY <2>1, <2>2
<1>7. CompleteIsTrue'
    <2>1. ASSUME Finished(frame) PROVE sent = "finished"
        BY <2>1 DEF IInv, Translated
    <2>2. QED
        BY <1>1, <2>1 DEF IInv, CompleteIsTrue, Quiet
<1>8. QED
    BY <1>2, <1>3, <1>4, <1>6, <1>7 DEF IInv

LEMMA YieldStep == ASSUME IInv, Yield, UNCHANGED setup PROVE IInv'
<1>1. /\ UNCHANGED <<setup, phase, attempt, buf, sent, frame, started, terminal, errored, scalar, tools, next>>
      /\ outq # <<>> /\ outq' = Tail(outq) /\ client' = Read(client, Head(outq))
    BY DEF Yield, bridge, translator
<1>2. outq \in Seq(AllEvents)
    BY DEF IInv, TypeOK, AllEvents
<1>3. /\ outq' \in Seq(AllEvents) /\ Len(outq) \in Nat \ {0} /\ Head(outq) = outq[1]
      /\ Len(Tail(outq)) = Len(outq) - 1 /\ \A k \in 1..(Len(outq) - 1) : Tail(outq)[k] = outq[k + 1]
    BY <1>1, <1>2, SMT
<1>4. ToSet(outq') \subseteq ToSet(outq) /\ Head(outq) \in ToSet(outq)
    <2>1. ToSet(outq) = {outq[k] : k \in 1..Len(outq)} /\ ToSet(outq') = {outq'[k] : k \in 1..Len(outq')}
        BY <1>2, <1>3, Elements
    <2>2. 1 \in 1..Len(outq) /\ \A k \in 1..(Len(outq) - 1) : k + 1 \in 1..Len(outq)
        BY <1>3
    <2>3. QED
        BY <1>1, <1>3, <2>1, <2>2
<1>5. TypeOK'
    <2>1. Frames' = Frames
        BY <1>1 DEF Frames
    <2>2. QED
        BY <1>1, <1>3, <2>1 DEF IInv, TypeOK, AllEvents
<1>6. StreamShape' /\ InOrder' /\ BlocksApart'
    BY <1>1, SameStream, SameBlocks DEF IInv
<1>7. Fresh' /\ Translated' /\ TranslatedInOrder'
    BY <1>1 DEF IInv, Fresh, Translated, TranslatedInOrder, Mode, Begun
<1>8. CompleteIsTrue'
    <2>1. client'.phase = "complete" => client.phase = "complete" \/ Head(outq)[1] = "message_stop"
        BY <1>1 DEF Read
    <2>2. QED
        BY <1>1, <1>4, <2>1 DEF IInv, CompleteIsTrue
<1>9. QED
    BY <1>5, <1>6, <1>7, <1>8 DEF IInv

LEMMA NothingOpen ==
    ASSUME scalar' = NoScalar, tools' = <<>>, next' \in Nat
    PROVE  BlocksApart' /\ scalar' \in [kind : {"none", "thinking", "text"}, idx : -1..next']
           /\ tools' \in Seq(Calls \X Nat)
<1>1. DOMAIN tools' = {}
    OBVIOUS
<1>2. QED
    BY <1>1 DEF BlocksApart, NoScalar

LEMMA StartStep == ASSUME IInv, _emit_message_start, UNCHANGED setup PROVE IInv'
<1>1. /\ UNCHANGED <<setup, bridge, client, errored, frame, terminal, scalar, tools, next>>
      /\ frame # <<>> /\ frame # Done /\ started' = TRUE /\ outq' = <<Event("message_start")>>
    BY DEF _emit_message_start
<1>2. frame \in Chunk
    BY <1>1, FrameShape DEF IInv
<1>3. outq' \in Seq(AllEvents) /\ Quiet(outq')
    BY <1>1, NamedTyped, QuietOne DEF Events
<1>4. BlocksApart'
    BY <1>1, SameBlocks DEF IInv
<1>5. /\ scalar \in [kind : {"none", "thinking", "text"}, idx : -1..next]
      /\ tools \in Seq(Calls \X Nat) /\ next \in Nat /\ terminal \in BOOLEAN
    BY DEF IInv, TypeOK
<1>6. Handled
    BY <1>1, <1>2, <1>3, <1>4, <1>5 DEF Handled
<1>7. QED
    BY <1>6, HandlerStep

\* The item that is taken is not the last word of an unfinished chunk.
LEMMA TakeItem ==
    ASSUME IInv, NEW x, Item(x), x \in Items \ {"done"}
    PROVE  /\ frame # <<>> /\ outq = <<>> /\ frame \in Chunk
           /\ Tail(frame) \in Chunk /\ (Finished(Tail(frame)) => Finished(frame))
           /\ (Adds(Tail(frame)) => Adds(frame)) /\ ~Adds(<<>>)
           /\ (x = "finish" => Finished(frame))
           /\ (setup.orderly /\ x \notin Silent => ~terminal)
<1>1. frame # <<>> /\ outq = <<>> /\ Head(frame) = x
    BY DEF Item
<1>2. frame # Done
    BY <1>1, DoneShape
<1>3. frame \in Chunk
    BY <1>2, FrameShape DEF IInv
<1>4. setup.orderly /\ x \notin Silent => ~terminal
    BY <1>1, <1>3, ChunkShape DEF IInv, TranslatedInOrder
<1>5. QED
    BY <1>1, <1>3, <1>4, ChunkShape, DoneShape

\* A field that yields nothing.
LEMMA SkipStep == ASSUME IInv, Skip, UNCHANGED setup PROVE IInv'
<1>1. /\ UNCHANGED <<setup, bridge, client, errored, started, terminal, scalar, tools, next, outq>>
      /\ (Item("null") \/ Item("mention")) /\ started /\ frame' = Tail(frame)
    BY DEF Skip
<1>2. /\ frame # <<>> /\ outq = <<>> /\ Tail(frame) \in Chunk
      /\ (Finished(Tail(frame)) => Finished(frame)) /\ (Adds(Tail(frame)) => Adds(frame))
    BY <1>1, TakeItem DEF Items
<1>3. outq' \in Seq(AllEvents) /\ Quiet(outq')
    BY <1>1, <1>2, QuietOne
<1>4. BlocksApart'
    BY <1>1, SameBlocks DEF IInv
<1>5. /\ scalar \in [kind : {"none", "thinking", "text"}, idx : -1..next] /\ started \in BOOLEAN
      /\ tools \in Seq(Calls \X Nat) /\ next \in Nat /\ terminal \in BOOLEAN
    BY DEF IInv, TypeOK
<1>6. Handled
    BY <1>1, <1>2, <1>3, <1>4, <1>5 DEF Handled
<1>7. QED
    BY <1>6, HandlerStep

LEMMA ScalarStep ==
    ASSUME IInv, NEW item \in {"think", "text"}, NEW kind \in {"thinking", "text"}, DeltaScalar(item, kind),
           UNCHANGED setup
    PROVE  IInv'
<1> DEFINE clos == _close_all_open_tools \o _close_current_scalar
           evs == <<BlockEvent("start", next, kind), BlockEvent("delta", next, kind)>>
<1>1. /\ UNCHANGED <<setup, bridge, client, errored, started, terminal>>
      /\ Item(item) /\ started /\ frame' = Tail(frame) /\ tools' = <<>>
      /\ \/ /\ scalar.kind = kind /\ UNCHANGED <<scalar, next>>
            /\ outq' = _close_all_open_tools \o <<BlockEvent("delta", scalar.idx, kind)>>
         \/ /\ scalar.kind # kind /\ scalar' = [kind |-> kind, idx |-> next] /\ next' = next + 1
            /\ outq' = clos \o evs
    BY DEF DeltaScalar
<1>2. /\ frame # <<>> /\ Tail(frame) \in Chunk /\ (Finished(Tail(frame)) => Finished(frame))
      /\ (Adds(Tail(frame)) => Adds(frame))
    BY <1>1, TakeItem DEF Items
<1>3. /\ scalar \in [kind : {"none", "thinking", "text"}, idx : -1..next] /\ next \in Nat /\ TypeOK
      /\ started \in BOOLEAN /\ terminal \in BOOLEAN /\ BlocksApart
    BY DEF IInv, TypeOK
<1>4. scalar.idx \in Int /\ kind \in Kinds \cup {""}
    BY <1>3, ToolTyped DEF Kinds
<1>5. <<>> \in Seq(Calls \X Nat) /\ DOMAIN <<>> = {}
    OBVIOUS
<1>6. /\ Quiet(_close_all_open_tools) /\ Quiet(_close_current_scalar)
      /\ _close_all_open_tools \in Seq(AllEvents) /\ _close_current_scalar \in Seq(AllEvents)
    BY <1>3, QuietStops
<1>7. CASE scalar.kind = kind
    <2>1. UNCHANGED <<scalar, next>> /\ outq' = _close_all_open_tools \o <<BlockEvent("delta", scalar.idx, kind)>>
        BY <1>1, <1>7
    <2>2. <<BlockEvent("delta", scalar.idx, kind)>> \in Seq(AllEvents) /\ Quiet(<<BlockEvent("delta", scalar.idx, kind)>>)
        BY <1>4, BlockOne
    <2>3. outq' \in Seq(AllEvents) /\ Quiet(outq')
        BY <1>6, <2>1, <2>2, QuietThen
    <2>4. BlocksApart'
        BY <1>1, <1>3, <1>5, <2>1 DEF BlocksApart
    <2>5. Handled
        BY <1>1, <1>2, <1>3, <1>5, <2>1, <2>3, <2>4 DEF Handled
    <2>6. QED
        BY <2>5, HandlerStep
<1>8. CASE scalar.kind # kind
    <2>1. scalar' = [kind |-> kind, idx |-> next] /\ next' = next + 1 /\ outq' = clos \o evs
        BY <1>1, <1>8
    <2>2. evs = <<BlockEvent("start", next, kind)>> \o <<BlockEvent("delta", next, kind)>>
        OBVIOUS
    <2>3. /\ <<BlockEvent("start", next, kind)>> \in Seq(AllEvents) /\ Quiet(<<BlockEvent("start", next, kind)>>)
          /\ <<BlockEvent("delta", next, kind)>> \in Seq(AllEvents) /\ Quiet(<<BlockEvent("delta", next, kind)>>)
        <3>1. next \in Int
            BY <1>3
        <3>2. QED
            BY <3>1, <1>4, BlockOne
    <2>4. evs \in Seq(AllEvents) /\ Quiet(evs)
        BY <2>2, <2>3, QuietThen
    <2>5. clos \in Seq(AllEvents) /\ Quiet(clos)
        BY <1>6, QuietThen
    <2> HIDE DEF clos, evs
    <2>6. outq' \in Seq(AllEvents) /\ Quiet(outq')
        BY <2>1, <2>4, <2>5, QuietThen
    <2>7. /\ scalar' \in [kind : {"none", "thinking", "text"}, idx : -1..next'] /\ next' \in Nat
          /\ scalar'.kind # "none" /\ scalar'.idx \in 0..(next' - 1)
        BY <1>3, <2>1
    <2>8. BlocksApart'
        BY <1>1, <1>5, <2>7 DEF BlocksApart
    <2>9. Handled
        BY <1>1, <1>2, <1>3, <1>5, <2>6, <2>7, <2>8 DEF Handled
    <2>10. QED
        BY <2>9, HandlerStep
<1>9. QED
    BY <1>7, <1>8

\* The blocks of the pieces of one tool call: the one that is open, or the next.
Mine(call) == {t \in ToSet(tools) : t[1] = call}
Index(call) == IF Mine(call) = {} THEN next ELSE (CHOOSE t \in Mine(call) : TRUE)[2]

LEMMA MineTyped ==
    ASSUME TypeOK, NEW call
    PROVE  /\ Index(call) \in Nat /\ Index(call) \in Int
           /\ Mine(call) = {} => Index(call) = next
           /\ Mine(call) # {} => \E j \in DOMAIN tools : tools[j][2] = Index(call)
<1>1. next \in Nat
    BY DEF TypeOK
<1>2. CASE Mine(call) = {}
    <2>1. Index(call) = next
        BY <1>2 DEF Index
    <2>2. QED
        BY <1>1, <1>2, <2>1
<1>3. CASE Mine(call) # {}
    <2> DEFINE t == CHOOSE u \in Mine(call) : TRUE
    <2>1. t \in Mine(call)
        BY <1>3
    <2>2. Index(call) = t[2]
        BY <1>3 DEF Index
    <2>3. t \in ToSet(tools)
        BY <2>1 DEF Mine
    <2> HIDE DEF t
    <2>4. PICK j \in DOMAIN tools : t = tools[j]
        BY <2>3 DEF ToSet
    <2>5. t[2] \in Nat /\ t[2] \in Int
        BY <2>4, ToolTyped
    <2>6. QED
        BY <1>3, <2>2, <2>4, <2>5
<1>4. QED
    BY <1>2, <1>3

LEMMA ToolEffect ==
    ASSUME IInv, NEW call \in Calls, DeltaToolCall(call), UNCHANGED setup
    PROVE  /\ UNCHANGED <<setup, bridge, client, errored, started, terminal>>
           /\ Item(call) /\ started /\ frame' = Tail(frame) /\ scalar' = NoScalar
           /\ outq' = _close_current_scalar
                      \o (IF Mine(call) = {} THEN <<BlockEvent("start", Index(call), "tool_use")>> ELSE <<>>)
                      \o <<BlockEvent("delta", Index(call), "tool_use")>>
           /\ tools' = IF Mine(call) = {} THEN Append(tools, <<call, Index(call)>>) ELSE tools
           /\ next' = IF Mine(call) = {} THEN next + 1 ELSE next
BY DEF DeltaToolCall, Mine, Index

LEMMA ToolStep == ASSUME IInv, NEW call \in Calls, DeltaToolCall(call), UNCHANGED setup PROVE IInv'
<1> DEFINE mine == Mine(call)
           i == Index(call)
           opening == IF mine = {} THEN <<BlockEvent("start", i, "tool_use")>> ELSE <<>>
           piece == <<BlockEvent("delta", i, "tool_use")>>
<1>1. /\ UNCHANGED <<setup, bridge, client, errored, started, terminal>>
      /\ Item(call) /\ started /\ frame' = Tail(frame) /\ scalar' = NoScalar
      /\ outq' = _close_current_scalar \o opening \o piece
      /\ tools' = IF mine = {} THEN Append(tools, <<call, i>>) ELSE tools
      /\ next' = IF mine = {} THEN next + 1 ELSE next
    BY ToolEffect
<1>2. /\ frame # <<>> /\ Tail(frame) \in Chunk /\ (Finished(Tail(frame)) => Finished(frame))
      /\ (Adds(Tail(frame)) => Adds(frame))
    BY <1>1, TakeItem DEF Items, Calls
<1>3. next \in Nat /\ started \in BOOLEAN /\ terminal \in BOOLEAN /\ TypeOK /\ BlocksApart /\ tools \in Seq(Calls \X Nat)
    BY DEF IInv, TypeOK
<1>4. i \in Nat /\ i \in Int /\ (mine = {} => i = next)
    BY <1>3, MineTyped
<1> HIDE DEF mine, i
<1>5. opening \in Seq(AllEvents) /\ Quiet(opening)
    <2>1. "tool_use" \in Kinds \cup {""}
        BY DEF Kinds
    <2>2. <<BlockEvent("start", i, "tool_use")>> \in Seq(AllEvents) /\ Quiet(<<BlockEvent("start", i, "tool_use")>>)
        BY <1>4, <2>1, BlockOne
    <2>3. <<>> \in Seq(AllEvents) /\ Quiet(<<>>)
        BY QuietOne
    <2>4. QED
        BY <2>2, <2>3
<1>6. piece \in Seq(AllEvents) /\ Quiet(piece)
    <2>1. "tool_use" \in Kinds \cup {""}
        BY DEF Kinds
    <2>2. QED
        BY <1>4, <2>1, BlockOne
<1> HIDE DEF opening, piece
<1>7. outq' \in Seq(AllEvents) /\ Quiet(outq')
    <2>1. _close_current_scalar \in Seq(AllEvents) /\ Quiet(_close_current_scalar)
        BY <1>3, QuietStops
    <2>2. _close_current_scalar \o opening \in Seq(AllEvents) /\ Quiet(_close_current_scalar \o opening)
        BY <1>5, <2>1, QuietThen
    <2>3. QED
        BY <1>1, <1>6, <2>2, QuietThen
<1>8. next' \in Nat /\ scalar' \in [kind : {"none", "thinking", "text"}, idx : -1..next']
    BY <1>1, <1>3 DEF NoScalar
<1>9. tools' \in Seq(Calls \X Nat) /\ BlocksApart'
    <2>1. CASE mine = {}
        <3>1. <<call, i>> \in Calls \X Nat /\ <<call, i>>[2] = next
            BY <1>4, <2>1
        <3>2. /\ Append(tools, <<call, i>>) \in Seq(Calls \X Nat) /\ Len(Append(tools, <<call, i>>)) = Len(tools) + 1
              /\ Len(tools) \in Nat
              /\ \A j \in 1..Len(tools) : Append(tools, <<call, i>>)[j] = tools[j]
              /\ Append(tools, <<call, i>>)[Len(tools) + 1] = <<call, i>>
            <4> DEFINE x == <<call, i>>  T == Calls \X Nat
            <4>1. x \in T /\ tools \in Seq(T)
                BY <1>3, <3>1
            <4> HIDE DEF x, T
            <4>2. /\ Append(tools, x) \in Seq(T) /\ Len(Append(tools, x)) = Len(tools) + 1 /\ Len(tools) \in Nat
                  /\ \A j \in 1..Len(tools) : Append(tools, x)[j] = tools[j]
                  /\ Append(tools, x)[Len(tools) + 1] = x
                BY <4>1, Appended
            <4>3. QED
                BY <4>2 DEF x, T
        <3>3. tools' = Append(tools, <<call, i>>) /\ next' = next + 1
            BY <1>1, <2>1
        <3>4. DOMAIN tools' = 1..(Len(tools) + 1) /\ DOMAIN tools = 1..Len(tools)
            <4>1. DOMAIN tools' = 1..Len(tools')
                BY <3>2, <3>3, Elements, Zenon
            <4>2. QED
                BY <1>3, <3>2, <3>3, <4>1, ToolTyped
        <3>5. \A j \in DOMAIN tools' : tools'[j][2] < next'
              /\ (IF j \in DOMAIN tools THEN tools'[j] = tools[j] ELSE j = Len(tools) + 1 /\ tools'[j][2] = next)
            <4>1. TAKE j \in DOMAIN tools'
            <4>2. CASE j \in DOMAIN tools
                <5>1. tools'[j] = tools[j] /\ tools[j][2] < next /\ tools[j][2] \in Nat
                    BY <1>3, <3>2, <3>3, <3>4, <4>2, ToolTyped DEF BlocksApart
                <5>2. QED
                    BY <1>3, <3>3, <4>2, <5>1
            <4>3. CASE j \notin DOMAIN tools
                <5>1. j = Len(tools) + 1
                    BY <3>2, <3>4, <4>1, <4>3
                <5>2. tools'[j][2] = next
                    BY <3>1, <3>2, <3>3, <5>1
                <5>3. QED
                    BY <1>3, <3>3, <4>3, <5>1, <5>2
            <4>4. QED
                BY <4>2, <4>3
        <3>6. \A j \in DOMAIN tools : tools[j][2] < next /\ tools[j][2] \in Nat
            BY <1>3, <3>4, ToolTyped DEF BlocksApart
        <3>7. \A j, k \in DOMAIN tools' : tools'[j][2] = tools'[k][2] => j = k
            BY <1>3, <3>5, <3>6 DEF BlocksApart
        <3>8. BlocksApart'
            BY <1>1, <3>5, <3>7 DEF BlocksApart
        <3>9. QED
            BY <3>2, <3>3, <3>8
    <2>2. CASE mine # {}
        BY <1>1, <1>3, <2>2 DEF BlocksApart
    <2>3. QED
        BY <2>1, <2>2
<1>10. Handled
    BY <1>1, <1>2, <1>3, <1>7, <1>8, <1>9 DEF Handled
<1>11. QED
    BY <1>10, HandlerStep

LEMMA TerminalStep == ASSUME IInv, _emit_terminal, UNCHANGED setup PROVE IInv'
<1>1. /\ UNCHANGED <<setup, bridge, client, errored, started, next>> /\ Item("finish") /\ started
      /\ frame' = <<>> /\ outq' = Ending /\ scalar' = NoScalar /\ tools' = <<>> /\ terminal' = TRUE
    BY DEF _emit_terminal
<1>2. frame # <<>> /\ Finished(frame) /\ ~Adds(<<>>)
    BY <1>1, TakeItem DEF Items
<1>3. TypeOK /\ BlocksApart /\ next \in Nat /\ started \in BOOLEAN
    BY DEF IInv, TypeOK
<1>4. outq' \in Seq(AllEvents) /\ <<>> \in Chunk /\ ~Finished(<<>>)
    BY <1>1, <1>3, PathEnding, DoneShape
<1>5. Handled
    BY <1>1, <1>2, <1>3, <1>4, NothingOpen DEF Handled
<1>6. QED
    BY <1>5, HandlerStep

LEMMA DoneStep == ASSUME IInv, _process_done, UNCHANGED setup PROVE IInv'
<1>1. /\ UNCHANGED <<setup, bridge, client, errored, started, next>> /\ Item("done") /\ frame' = <<>>
      /\ \/ terminal /\ UNCHANGED <<outq, scalar, tools, terminal>>
         \/ ~terminal /\ outq' = Ending /\ scalar' = NoScalar /\ tools' = <<>> /\ terminal' = TRUE
    BY DEF _process_done
<1>2. frame = Done
    <2>1. frame # <<>> /\ Head(frame) = "done"
        BY <1>1 DEF Item
    <2>2. QED
        BY <2>1, FrameShape, ChunkShape DEF IInv
<1>3. frame # <<>> /\ Finished(frame) /\ (setup.orderly => started) /\ ~Adds(<<>>)
    BY <1>2, DoneShape DEF IInv, TranslatedInOrder
<1>4. /\ TypeOK /\ BlocksApart /\ next \in Nat /\ started \in BOOLEAN /\ terminal \in BOOLEAN
      /\ scalar \in [kind : {"none", "thinking", "text"}, idx : -1..next] /\ tools \in Seq(Calls \X Nat)
      /\ outq \in Seq(AllEvents)
    BY DEF IInv, TypeOK, AllEvents
<1>5. Ending \in Seq(AllEvents) /\ <<>> \in Chunk /\ ~Finished(<<>>)
    BY <1>4, PathEnding, DoneShape
<1>6. CASE terminal
    <2>1. BlocksApart'
        BY <1>1, <1>4, <1>6, SameBlocks
    <2>2. Handled
        BY <1>1, <1>3, <1>4, <1>5, <1>6, <2>1 DEF Handled
    <2>3. QED
        BY <2>2, HandlerStep
<1>7. CASE ~terminal
    <2>1. Handled
        BY <1>1, <1>3, <1>4, <1>5, <1>7, NothingOpen DEF Handled
    <2>2. QED
        BY <2>1, HandlerStep
<1>8. QED
    BY <1>6, <1>7

-----------------------------------------------------------------------------
(* The steps of the bridge.                                                *)

\* What the captured frames are.
LEMMA BufShape ==
    ASSUME TypeOK
    PROVE  /\ Len(buf) \in Nat /\ DOMAIN buf = 1..Len(buf)
           /\ \A j \in 1..Len(buf) : (buf[j] \in Chunk /\ buf[j] # <<>>) \/ buf[j] = Done \/ buf[j] = Torn
<1>1. buf \in Seq(Frames \cup {Done, Torn})
    BY DEF TypeOK
<1>2. Len(buf) \in Nat /\ DOMAIN buf = 1..Len(buf) /\ \A j \in 1..Len(buf) : buf[j] \in Frames \cup {Done, Torn}
    BY <1>1, SMT
<1>3. QED
    BY <1>2, SetupShape

\* The response ends: what is yet to be read completes no message.
Ended ==
    /\ setup' = setup /\ client' = client /\ frame' = frame
    /\ started' = started /\ terminal' = terminal /\ next' = next
    /\ phase' = "ended" /\ errored' \in BOOLEAN /\ attempt' \in 0..(Retries + 1)
    /\ buf' \in Seq(Frames \cup {Done, Torn}) /\ sent' \in {"none", "torn", "data", "finished"}
    /\ (sent = "finished" => sent' = sent)
    /\ outq' \in Seq(AllEvents) /\ Quiet(outq')
    /\ scalar' \in [kind : {"none", "thinking", "text"}, idx : -1..next']
    /\ tools' \in Seq(Calls \X Nat) /\ BlocksApart'
    /\ (setup.orderly /\ ~started => scalar' = NoScalar /\ tools' = <<>>)

LEMMA EndStep == ASSUME IInv, Idle, Ended PROVE IInv'
<1> USE DEF Ended
<1>1. frame = <<>> /\ outq = <<>> /\ ~Finished(<<>>) /\ <<>> # Done /\ ~Adds(<<>>)
    BY DoneShape DEF Idle
<1>2. TypeOK'
    <2>1. Frames' = Frames
        BY DEF Frames
    <2>2. QED
        BY <1>1, <2>1 DEF IInv, TypeOK, AllEvents
<1>3. Fresh' /\ StreamShape' /\ InOrder'
    BY DEF Fresh, StreamShape, InOrder
<1>4. Translated' /\ TranslatedInOrder'
    BY <1>1 DEF IInv, Translated, TranslatedInOrder
<1>5. CompleteIsTrue'
    BY <1>1 DEF IInv, CompleteIsTrue, Quiet
<1>6. QED
    BY <1>2, <1>3, <1>4, <1>5 DEF IInv

\* A buffered request that has shown nothing to its client yet.
LEMMA Pristine ==
    ASSUME IInv, phase = "connect" \/ (phase = "read" /\ Mode = "buffered")
    PROVE  /\ ~started /\ ~terminal /\ started = FALSE /\ terminal = FALSE /\ frame = <<>> /\ outq = <<>>
           /\ client.phase = "idle" /\ client.open = {} /\ client.used = {}
           /\ scalar = NoScalar /\ tools = <<>> /\ next = 0 /\ ~errored
<1>1. started \in BOOLEAN /\ terminal \in BOOLEAN
    BY DEF IInv, TypeOK
<1>2. QED
    BY <1>1 DEF IInv, Fresh, Translated

\* The translator has not been touched, and will not be.
Untouched ==
    /\ setup' = setup /\ client' = client /\ frame' = frame /\ outq' = outq
    /\ started' = started /\ terminal' = terminal /\ errored' = errored
    /\ scalar' = scalar /\ tools' = tools /\ next' = next

LEMMA UntouchedStep ==
    ASSUME IInv, phase = "connect" \/ (phase = "read" /\ Mode = "buffered"), Untouched,
           phase' \in {"connect", "read"} \/ (phase' = "replay" /\ Mode = "buffered"), attempt' \in 0..Retries,
           buf' \in Seq(Frames \cup {Done, Torn}), sent' \in {"none", "torn", "data", "finished"},
           StreamShape', InOrder', phase' = "read" => Mode = "buffered" \/ sent' = "none",
           phase' = "replay" /\ setup.orderly /\ sent' # "torn" =>
               buf' # <<>> /\ Head(buf') \notin {Done, Torn}
    PROVE  IInv'
<1> USE DEF Untouched
<1>1. /\ ~started /\ ~terminal /\ started = FALSE /\ terminal = FALSE /\ frame = <<>> /\ outq = <<>>
      /\ client.phase = "idle" /\ client.open = {} /\ client.used = {}
      /\ scalar = NoScalar /\ tools = <<>> /\ next = 0 /\ ~errored
    BY Pristine
<1>2. ~Finished(<<>>) /\ <<>> # Done /\ ToSet(<<>>) = {}
    BY DoneShape DEF ToSet
<1>3. TypeOK'
    <2>1. Frames' = Frames
        BY DEF Frames
    <2>2. attempt' \in 0..(Retries + 1) /\ ~(attempt' > Retries)
        BY BridgeAssumption DEF BridgeAssumption
    <2>3. QED
        BY <2>1, <2>2 DEF IInv, TypeOK
<1>4. Fresh'
    BY <1>1 DEF Fresh
<1>5. Translated' /\ TranslatedInOrder'
    <2>1. Translated'
        BY <1>1, <1>2 DEF Translated
    <2>2. TranslatedInOrder'
        BY <1>1, <1>2 DEF TranslatedInOrder, Mode
    <2>3. QED
        BY <2>1, <2>2
<1>6. BlocksApart' /\ CompleteIsTrue'
    <2>1. BlocksApart'
        BY SameBlocks DEF IInv
    <2>2. CompleteIsTrue'
        BY <1>1, <1>2 DEF CompleteIsTrue
    <2>3. QED
        BY <2>1, <2>2
<1>7. QED
    BY <1>3, <1>4, <1>5, <1>6 DEF IInv

LEMMA SameTyped ==
    ASSUME IInv
    PROVE  /\ TypeOK /\ BlocksApart /\ attempt \in 0..(Retries + 1) /\ buf \in Seq(Frames \cup {Done, Torn})
           /\ sent \in {"none", "torn", "data", "finished"} /\ errored \in BOOLEAN
           /\ started \in BOOLEAN /\ terminal \in BOOLEAN
           /\ scalar \in [kind : {"none", "thinking", "text"}, idx : -1..next] /\ tools \in Seq(Calls \X Nat)
           /\ next \in Nat
BY DEF IInv, TypeOK

\* Before the end there is an attempt left to make.
LEMMA AttemptLeft ==
    ASSUME IInv, phase # "ended"
    PROVE  attempt \in 0..Retries /\ attempt + 1 \in 0..(Retries + 1)
<1>1. Retries \in Nat
    BY BridgeAssumption DEF BridgeAssumption
<1>2. attempt \in 0..(Retries + 1) /\ (attempt > Retries => phase = "ended")
    BY DEF IInv, TypeOK
<1>3. attempt \in 0..Retries
    BY <1>1, <1>2, SMT
<1>4. attempt + 1 \in 0..(Retries + 1)
    BY <1>1, <1>3, SMT
<1>5. QED
    BY <1>3, <1>4

\* Another attempt, or the end with nothing but an error.
LEMMA AgainStep ==
    ASSUME IInv, phase = "connect" \/ (phase = "read" /\ Mode = "buffered"), Idle, Again(attempt + 1) \/ GiveUp,
           UNCHANGED <<setup, client, frame, translator>>,
           buf' \in Seq(Frames \cup {Done, Torn}), sent' \in {"none", "data"}, sent # "finished"
    PROVE  IInv'
<1>1. UNCHANGED <<setup, client, frame, started, terminal, errored, scalar, tools, next>>
    BY DEF translator
<1>2. attempt \in 0..Retries /\ attempt + 1 \in 0..(Retries + 1)
    BY AttemptLeft
<1>3. CASE phase' = "connect"
    <2>1. attempt + 1 <= Retries /\ attempt' = attempt + 1 /\ outq' = outq
        BY <1>3 DEF Again, GiveUp
    <2>2. StreamShape' /\ InOrder'
        BY <1>3 DEF StreamShape, InOrder
    <2>3. Untouched
        BY <1>1, <2>1 DEF Untouched
    <2>4. attempt' \in 0..Retries
        <3>1. Retries \in Nat
            BY BridgeAssumption DEF BridgeAssumption
        <3>2. QED
            BY <1>2, <2>1, <3>1, SMT
    <2>5. QED
        BY <1>3, <2>2, <2>3, <2>4, UntouchedStep
<1>4. CASE phase' # "connect"
    <2>1. phase' = "ended" /\ outq' = <<Event("error")>> /\ (attempt' = attempt + 1 \/ attempt' = attempt)
        BY <1>4 DEF Again, GiveUp
    <2>2. outq' \in Seq(AllEvents) /\ Quiet(outq')
        BY <2>1, SameTyped, QuietClosing
    <2>3. BlocksApart'
        BY <1>1, SameBlocks, SameTyped
    <2>4. attempt' \in 0..(Retries + 1)
        BY <1>2, <2>1, SameTyped
    <2>5. Ended
        BY <1>1, <2>1, <2>2, <2>3, <2>4, SameTyped, Pristine DEF Ended
    <2>6. QED
        BY <2>5, EndStep
<1>5. QED
    BY <1>3, <1>4

LEMMA AcceptStep == ASSUME IInv, Accept, UNCHANGED setup PROVE IInv'
<1>1. /\ phase = "connect" /\ phase' = "read" /\ buf' = <<>> /\ sent' = "none"
      /\ UNCHANGED <<setup, attempt, frame, outq, client>> /\ UNCHANGED translator
    BY DEF Accept
<1>2. Untouched
    BY <1>1 DEF Untouched, translator
<1>3. buf' \in Seq(Frames \cup {Done, Torn}) /\ attempt' \in 0..Retries
    <2>1. buf' \in Seq(Frames \cup {Done, Torn})
        BY <1>1
    <2>2. attempt' \in 0..Retries
        BY <1>1, AttemptLeft
    <2>3. QED
        BY <2>1, <2>2
<1>4. StreamShape' /\ InOrder'
    <2>1. DOMAIN buf' = {}
        BY <1>1
    <2>2. QED
        BY <1>1, <2>1 DEF StreamShape, InOrder
<1>5. QED
    BY <1>1, <1>2, <1>3, <1>4, UntouchedStep

LEMMA RefuseStep == ASSUME IInv, Refuse, UNCHANGED setup PROVE IInv'
<1>1. phase = "connect" /\ Idle /\ UNCHANGED <<setup, buf, sent, frame, translator, client>>
    BY DEF Refuse
<1>2. buf' \in Seq(Frames \cup {Done, Torn}) /\ sent' \in {"none", "data"} /\ sent # "finished"
    BY <1>1, SameTyped DEF IInv, StreamShape
<1>3. Again(attempt + 1) \/ GiveUp
    BY DEF Refuse, RetryStatus, RetryDrop
<1>4. QED
    BY <1>1, <1>2, <1>3, AgainStep

\* What is captured when the stream breaks off.
LEMMA TearShape ==
    ASSUME IInv, phase = "read", Tear, UNCHANGED setup
    PROVE  /\ buf' \in Seq(Frames \cup {Done, Torn}) /\ sent' \in {"none", "torn", "data", "finished"}
           /\ (sent = "finished" <=> sent' = "finished") /\ DOMAIN buf' = 1..Len(buf') /\ Len(buf') \in Nat
           /\ \A j \in DOMAIN buf' : /\ Finished(buf'[j]) => sent' = "finished"
                                     /\ buf'[j] = Torn => j = Len(buf')
           /\ (sent' = "torn" => buf' = <<Torn>>) /\ (sent' = "none" => buf' = <<>>)
           /\ (sent' = "finished" => \E j \in DOMAIN buf' : Finished(buf'[j]))
           /\ setup.orderly =>
                /\ \A j \in DOMAIN buf' : Finished(buf'[j]) => \A k \in DOMAIN buf' : k > j => ~Adds(buf'[k])
                /\ sent' # "torn" /\ buf' # <<>> => Head(buf') \notin {Done, Torn}
<1> DEFINE T == Frames \cup {Done, Torn}
<1>1. /\ Len(buf) \in Nat /\ DOMAIN buf = 1..Len(buf)
      /\ \A j \in 1..Len(buf) : (buf[j] \in Chunk /\ buf[j] # <<>>) \/ buf[j] = Done \/ buf[j] = Torn
      /\ buf \in Seq(T) /\ sent \in {"none", "torn", "data", "finished"} /\ Torn \in T
    BY BufShape, SameTyped
<1>2. /\ \A j \in 1..Len(buf) : (Finished(buf[j]) => sent = "finished") /\ buf[j] # Torn
      /\ sent # "torn" /\ (sent = "none" <=> buf = <<>>)
      /\ (sent = "finished" => \E j \in 1..Len(buf) : Finished(buf[j]))
    <2>1. \A j \in 1..Len(buf) : (Finished(buf[j]) => sent = "finished") /\ (buf[j] = Torn => phase = "replay")
        BY <1>1 DEF IInv, StreamShape
    <2>2. sent # "torn" /\ (sent = "none" <=> buf = <<>>)
        BY DEF IInv, StreamShape
    <2>3. sent = "finished" => \E j \in 1..Len(buf) : Finished(buf[j])
        BY <1>1 DEF IInv, StreamShape
    <2>4. QED
        BY <2>1, <2>2, <2>3
<1>3. setup.orderly =>
        /\ \A j \in 1..Len(buf) : Finished(buf[j]) => \A k \in 1..Len(buf) : k > j => ~Adds(buf[k])
        /\ (buf # <<>> => Head(buf) # Done)
    BY <1>1 DEF IInv, InOrder
<1>4. buf # <<>> => 1 \in 1..Len(buf) /\ Head(buf) = buf[1]
    BY <1>1, SMT
<1> HIDE DEF T
<1>5. CASE buf' = buf /\ sent' = sent
    <2>1. buf # <<>> => Head(buf) # Torn
        BY <1>2, <1>4
    <2>2. /\ \A j \in 1..Len(buf) : (Finished(buf[j]) => sent = "finished") /\ (buf[j] = Torn => j = Len(buf))
        BY <1>2
    <2>3. QED
        BY <1>1, <1>2, <1>3, <1>5, <2>1, <2>2 DEF T
<1>6. CASE buf' = Append(buf, Torn) /\ sent' = IF sent = "none" THEN "torn" ELSE sent
    <2>1. /\ buf' \in Seq(T) /\ Len(buf') = Len(buf) + 1
          /\ \A i \in 1..Len(buf) : buf'[i] = buf[i]
          /\ buf'[Len(buf) + 1] = Torn
        BY <1>1, <1>6, Appended
    <2>2. /\ \A i \in 1..Len(buf') : i \in 1..Len(buf) \/ i = Len(buf) + 1
          /\ \A i \in 1..Len(buf) : i \in 1..Len(buf')
        BY <1>1, <2>1
    <2>3. DOMAIN buf' = 1..Len(buf') /\ Head(buf') = buf'[1] /\ Len(buf') \in Nat
        BY <1>1, <2>1, SMT
    <2>4. sent' = "torn" => buf' = <<Torn>>
        <3>1. sent' = "torn" => buf = <<>>
            BY <1>2, <1>6
        <3>2. Append(<<>>, Torn) = <<Torn>>
            OBVIOUS
        <3>3. QED
            BY <1>6, <3>1, <3>2
    <2>5. \A j \in 1..Len(buf') : (Finished(buf'[j]) => sent' = "finished") /\ (buf'[j] = Torn => j = Len(buf'))
        <3>1. TAKE j \in 1..Len(buf')
        <3>2. CASE j \in 1..Len(buf)
            BY <1>2, <1>6, <2>1, <3>2
        <3>3. CASE j = Len(buf) + 1
            BY <2>1, <3>3, DoneShape
        <3>4. QED
            BY <2>2, <3>2, <3>3
    <2>6. sent' = "finished" => \E j \in 1..Len(buf') : Finished(buf'[j])
        BY <1>2, <1>6, <2>1, <2>2
    <2>7. ASSUME setup.orderly, NEW j \in 1..Len(buf'), Finished(buf'[j]), NEW k \in 1..Len(buf'), k > j
          PROVE  ~Adds(buf'[k])
        <3>1. CASE k \in 1..Len(buf)
            <4>1. j \in 1..Len(buf)
                BY <1>1, <2>2, <2>7, <3>1
            <4>2. QED
                BY <1>3, <2>1, <2>7, <3>1, <4>1
        <3>2. CASE k = Len(buf) + 1
            BY <2>1, <3>2, DoneShape
        <3>3. QED
            BY <2>2, <3>1, <3>2
    <2>8. setup.orderly /\ sent' # "torn" => Head(buf') \notin {Done, Torn}
        <3>1. sent' # "torn" => buf # <<>>
            BY <1>2, <1>6
        <3>2. buf # <<>> => Head(buf') = Head(buf) /\ Head(buf) # Torn
            BY <1>2, <1>4, <2>1, <2>3
        <3>3. QED
            BY <1>3, <3>1, <3>2
    <2>9. (sent = "finished" <=> sent' = "finished") /\ sent' \in {"none", "torn", "data", "finished"} /\ sent' # "none"
        BY <1>1, <1>6
    <2>10. QED
        BY <2>1, <2>3, <2>4, <2>5, <2>6, <2>7, <2>8, <2>9 DEF T
<1>7. QED
    BY <1>5, <1>6 DEF Tear

\* A torn frame behind a mention passes for the end of the stream.
LEMMA TornSeen == saw_terminal(<<Torn>>)
<1>1. 1 \in DOMAIN <<Torn>> /\ <<Torn>>[1] = Torn /\ "torn" \in ToSet(Torn)
    BY DEF Torn, ToSet
<1>2. QED
    BY <1>1, Zenon DEF saw_terminal

\* A stream that ends under a buffered request.
LEMMA CapturedStep ==
    ASSUME IInv, phase = "read", Mode = "buffered", Idle, Captured, Tear,
           UNCHANGED <<setup, client, frame, translator>>
    PROVE  IInv'
<1>1. /\ buf' \in Seq(Frames \cup {Done, Torn}) /\ sent' \in {"none", "torn", "data", "finished"}
      /\ (sent = "finished" <=> sent' = "finished") /\ DOMAIN buf' = 1..Len(buf') /\ Len(buf') \in Nat
      /\ \A j \in DOMAIN buf' : /\ Finished(buf'[j]) => sent' = "finished"
                                /\ buf'[j] = Torn => j = Len(buf')
      /\ (sent' = "torn" => buf' = <<Torn>>) /\ (sent' = "none" => buf' = <<>>)
      /\ (sent' = "finished" => \E j \in DOMAIN buf' : Finished(buf'[j]))
      /\ setup.orderly =>
           /\ \A j \in DOMAIN buf' : Finished(buf'[j]) => \A k \in DOMAIN buf' : k > j => ~Adds(buf'[k])
           /\ sent' # "torn" /\ buf' # <<>> => Head(buf') \notin {Done, Torn}
    BY TearShape
<1>2. CASE saw_terminal(buf')
    <2>1. phase' = "replay" /\ UNCHANGED <<attempt, outq>>
        BY <1>2 DEF Captured
    <2>2. Untouched
        BY <2>1 DEF Untouched, translator
    <2>3. buf' # <<>> /\ sent' # "none"
        <3>1. DOMAIN buf' # {}
            BY <1>2 DEF saw_terminal
        <3>2. DOMAIN <<>> = {}
            OBVIOUS
        <3>3. QED
            BY <1>1, <3>1, <3>2
    <2>4. Mode' = "buffered"
        BY DEF Mode
    <2>5. StreamShape'
        BY <1>1, <2>1, <2>3, <2>4 DEF StreamShape
    <2>6. InOrder'
        BY <1>1, <2>1 DEF InOrder
    <2>7. attempt' \in 0..Retries
        BY <2>1, AttemptLeft
    <2>8. QED
        BY <1>1, <2>1, <2>2, <2>3, <2>5, <2>6, <2>7, UntouchedStep
<1>3. CASE ~saw_terminal(buf')
    <2>1. Again(attempt + 1)
        BY <1>3 DEF Captured, RetryDrop
    <2>2. sent' # "torn"
        BY <1>1, <1>3, TornSeen
    <2>3. sent' # "finished"
        <3>1. ASSUME NEW j \in DOMAIN buf', Finished(buf'[j]) PROVE FALSE
            <4>1. "done" \in ToSet(Done)
                BY DEF Done, ToSet
            <4>2. "done" \in ToSet(buf'[j]) \/ "finish" \in ToSet(buf'[j])
                BY <3>1, <4>1 DEF Finished
            <4>3. QED
                BY <1>3, <4>2 DEF saw_terminal
        <3>2. QED
            BY <1>1, <3>1
    <2>4. QED
        BY <1>1, <2>1, <2>2, <2>3, AgainStep
<1>4. QED
    BY <1>2, <1>3

LEMMA CloseStep ==
    ASSUME IInv, Idle, close, phase' = "ended", UNCHANGED <<setup, client, frame, attempt>>,
           buf' \in Seq(Frames \cup {Done, Torn}), sent' \in {"none", "torn", "data", "finished"},
           sent = "finished" => sent' = sent,
           outq' = closing \/ outq' = Append(closing, Event("error"))
    PROVE  IInv'
<1>1. /\ errored' \in BOOLEAN /\ scalar' = NoScalar /\ tools' = <<>>
      /\ UNCHANGED <<started, terminal, next>>
    BY SameTyped DEF close
<1>2. outq' \in Seq(AllEvents) /\ Quiet(outq')
    BY SameTyped, QuietClosing
<1>3. next' \in Nat
    BY <1>1, SameTyped
<1>4. Ended
    BY <1>1, <1>2, <1>3, NothingOpen, SameTyped DEF Ended
<1>5. QED
    BY <1>4, EndStep

LEMMA EOFStep == ASSUME IInv, EOF, UNCHANGED setup PROVE IInv'
<1>1. phase = "read" /\ Idle /\ Tear /\ UNCHANGED <<setup, frame, client>>
    BY DEF EOF
<1>2. CASE Mode = "buffered"
    <2>1. Captured /\ UNCHANGED translator
        BY <1>2 DEF EOF
    <2>2. QED
        BY <1>1, <1>2, <2>1, CapturedStep
<1>3. CASE Mode # "buffered"
    <2>1. outq' = closing /\ close /\ phase' = "ended" /\ UNCHANGED attempt
        BY <1>3 DEF EOF
    <2>2. QED
        BY <1>1, <2>1, TearShape, CloseStep
<1>4. QED
    BY <1>2, <1>3

LEMMA DropStep == ASSUME IInv, Drop, UNCHANGED setup PROVE IInv'
<1>1. phase = "read" /\ Idle /\ Tear /\ UNCHANGED <<setup, frame, client>>
    BY DEF Drop
<1>2. CASE Mode = "buffered"
    <2>1. Captured /\ UNCHANGED translator
        BY <1>2 DEF Drop
    <2>2. QED
        BY <1>1, <1>2, <2>1, CapturedStep
<1>3. CASE Mode # "buffered"
    <2>1. outq' = Append(closing, Event("error")) /\ close /\ phase' = "ended" /\ UNCHANGED attempt
        BY <1>3 DEF Drop
    <2>2. QED
        BY <1>1, <2>1, TearShape, CloseStep
<1>4. QED
    BY <1>2, <1>3

LEMMA ReplayedStep == ASSUME IInv, Replayed, UNCHANGED setup PROVE IInv'
<1>1. /\ Idle /\ outq' = closing /\ close /\ phase' = "ended"
      /\ UNCHANGED <<setup, attempt, buf, sent, frame, client>>
    BY DEF Replayed
<1>2. QED
    BY <1>1, SameTyped, CloseStep

LEMMA SameIsSame ==
    ASSUME IInv,
           UNCHANGED <<setup, phase, attempt, buf, sent, frame, started, terminal, errored, scalar, tools, next, outq, client>>
    PROVE  IInv'
<1>1. UNCHANGED <<setup, phase, attempt, buf, sent, frame, started, terminal, errored, scalar, tools, next, outq, client>>
    OBVIOUS
<1>2. TypeOK' /\ BlocksApart'
    BY <1>1, SameBlocks DEF IInv, TypeOK, Frames
<1>3. Fresh' /\ Translated' /\ TranslatedInOrder' /\ CompleteIsTrue'
    BY <1>1 DEF IInv, Fresh, Translated, TranslatedInOrder, CompleteIsTrue, Mode, Begun
<1>4. StreamShape' /\ InOrder'
    BY <1>1, SameStream DEF IInv
<1>5. QED
    BY <1>2, <1>3, <1>4 DEF IInv

LEMMA OverStep == ASSUME IInv, Over PROVE IInv'
<1>1. UNCHANGED <<setup, phase, attempt, buf, sent, frame, started, terminal, errored, scalar, tools, next, outq, client>>
    BY DEF Over, vars, bridge, translator
<1>2. QED
    BY <1>1, SameIsSame

\* A frame joins the stream: what StreamShape and InOrder say of it.
LEMMA ReceivedShape ==
    ASSUME IInv, NEW f \in Frames \cup {Done}, Receive(f), UNCHANGED setup
    PROVE  /\ StreamShape' /\ InOrder' /\ buf' \in Seq(Frames \cup {Done, Torn})
           /\ sent' \in {"data", "finished"} /\ (Finished(f) => sent' = "finished")
           /\ (sent = "finished" => sent' = "finished")
<1>1. /\ phase = "read" /\ phase' = "read" /\ setup' = setup /\ buf' = Append(buf, f)
      /\ sent' = (IF Finished(f) \/ sent = "finished" THEN "finished" ELSE "data")
      /\ (setup.orderly => (f = Done => sent # "none") /\ (Adds(f) => sent # "finished"))
    BY DEF Receive
<1>2. TypeOK /\ \A g \in Frames : g \in Chunk /\ g # <<>> /\ g # Done /\ g # Torn
    BY SameTyped, SetupShape, ChunkNotDone
<1>3. f # Torn
    BY <1>2, DoneShape
<1>4. /\ sent' \in {"data", "finished"} /\ (Finished(f) => sent' = "finished")
      /\ (sent = "finished" => sent' = "finished") /\ (sent' = "finished" => sent = "finished" \/ Finished(f))
    BY <1>1
<1> DEFINE T == Frames \cup {Done, Torn}
<1>5. f \in T /\ buf \in Seq(T)
    BY SameTyped
<1> HIDE DEF T
<1>6. /\ buf' \in Seq(T) /\ Len(buf') = Len(buf) + 1 /\ Len(buf) \in Nat
      /\ \A i \in 1..Len(buf) : buf'[i] = buf[i]
      /\ buf'[Len(buf) + 1] = f
    BY <1>1, <1>5, Appended
<1>7. /\ DOMAIN buf' = 1..Len(buf') /\ Head(buf') = buf'[1] /\ buf' # <<>> /\ DOMAIN buf = 1..Len(buf)
      /\ (buf = <<>> => Len(buf) = 0) /\ (buf # <<>> => Len(buf) # 0 /\ Head(buf) = buf[1])
    BY <1>5, <1>6, SMT
<1>8. /\ \A i \in 1..Len(buf') : i \in 1..Len(buf) \/ i = Len(buf) + 1
      /\ \A i \in 1..Len(buf) : i \in 1..Len(buf')
      /\ Len(buf) + 1 \in 1..Len(buf')
    BY <1>6
<1>9. /\ \A j \in 1..Len(buf) : (Finished(buf[j]) => sent = "finished") /\ buf[j] # Torn
      /\ (sent = "none" <=> buf = <<>>)
      /\ (sent = "finished" => \E j \in 1..Len(buf) : Finished(buf[j]))
    <2>1. \A j \in 1..Len(buf) : (Finished(buf[j]) => sent = "finished") /\ (buf[j] = Torn => phase = "replay")
        <3>1. phase \in {"read", "replay"} /\ DOMAIN buf = 1..Len(buf)
            BY <1>1, <1>7
        <3>2. \A j \in DOMAIN buf : (Finished(buf[j]) => sent = "finished") /\ (buf[j] = Torn => phase = "replay")
            BY <3>1, Zenon DEF IInv, StreamShape
        <3>3. QED
            BY <3>1, <3>2, Zenon
    <2>2. sent = "none" <=> buf = <<>>
        BY <1>1 DEF IInv, StreamShape
    <2>3. sent = "finished" => \E j \in 1..Len(buf) : Finished(buf[j])
        BY <1>1, <1>7 DEF IInv, StreamShape
    <2>4. QED
        BY <1>1, <2>1, <2>2, <2>3
<1>10. \A j \in 1..Len(buf') : (Finished(buf'[j]) => sent' = "finished") /\ buf'[j] # Torn
    <2>1. TAKE j \in 1..Len(buf')
    <2>2. CASE j \in 1..Len(buf)
        BY <1>4, <1>6, <1>9, <2>2
    <2>3. CASE j = Len(buf) + 1
        BY <1>3, <1>4, <1>6, <2>3
    <2>4. QED
        BY <1>8, <2>2, <2>3
<1>11. sent' = "finished" => \E j \in 1..Len(buf') : Finished(buf'[j])
    <2>1. CASE Finished(f)
        BY <1>6, <1>8, <2>1
    <2>2. CASE sent = "finished"
        BY <1>6, <1>8, <1>9, <2>2
    <2>3. QED
        BY <1>4, <2>1, <2>2
<1>12. StreamShape'
    BY <1>1, <1>4, <1>7, <1>10, <1>11 DEF StreamShape
<1>13. InOrder'
    <2>1. SUFFICES ASSUME setup.orderly PROVE InOrder'
        BY <1>1 DEF InOrder
    <2>2. \A j \in 1..Len(buf) : Finished(buf[j]) => \A k \in 1..Len(buf) : k > j => ~Adds(buf[k])
        BY <1>1, <1>7, <2>1 DEF IInv, InOrder
    <2>3. ASSUME NEW j \in 1..Len(buf'), Finished(buf'[j]), NEW k \in 1..Len(buf'), k > j
          PROVE  ~Adds(buf'[k])
        <3>1. j \in 1..Len(buf)
            BY <1>6, <2>3
        <3>2. Finished(buf[j]) /\ sent = "finished"
            BY <1>6, <1>9, <2>3, <3>1
        <3>3. CASE k \in 1..Len(buf)
            BY <1>6, <2>2, <2>3, <3>1, <3>2, <3>3
        <3>4. CASE k = Len(buf) + 1
            BY <1>1, <1>6, <2>1, <3>2, <3>4
        <3>5. QED
            BY <1>8, <3>3, <3>4
    <2>4. Head(buf') # Done
        <3>1. CASE buf = <<>>
            <4>1. f # Done /\ Head(buf') = f
                BY <1>1, <1>6, <1>7, <1>9, <2>1, <3>1
            <4>2. QED
                BY <4>1
        <3>2. CASE buf # <<>>
            <4>1. 1 \in 1..Len(buf) /\ Head(buf) # Done
                BY <1>1, <1>6, <1>7, <2>1, <3>2 DEF IInv, InOrder
            <4>2. QED
                BY <1>6, <1>7, <3>2, <4>1
        <3>3. QED
            BY <3>1, <3>2
    <2>5. QED
        BY <1>7, <2>3, <2>4 DEF InOrder
<1>14. QED
    BY <1>4, <1>6, <1>12, <1>13 DEF T

LEMMA ReceiveStep == ASSUME IInv, NEW f \in Frames \cup {Done}, Receive(f), UNCHANGED setup PROVE IInv'
<1>1. /\ phase = "read" /\ Idle /\ setup' = setup /\ UNCHANGED <<phase, attempt, outq, client>> /\ UNCHANGED translator
      /\ frame' = (IF Mode = "passthrough" THEN f ELSE <<>>)
      /\ (setup.orderly => (f = Done => sent # "none") /\ (Adds(f) => sent # "finished"))
    BY DEF Receive
<1>2. /\ StreamShape' /\ InOrder' /\ buf' \in Seq(Frames \cup {Done, Torn})
      /\ sent' \in {"data", "finished"} /\ (Finished(f) => sent' = "finished")
      /\ (sent = "finished" => sent' = "finished")
    BY ReceivedShape
<1>3. frame = <<>> /\ outq = <<>>
    BY <1>1 DEF Idle
<1>4. UNCHANGED <<started, terminal, errored, scalar, tools, next>>
    BY <1>1 DEF translator
<1>5. CASE Mode = "buffered"
    <2>1. Untouched
        BY <1>1, <1>3, <1>4, <1>5 DEF Untouched
    <2>2. attempt' \in 0..Retries /\ sent' \in {"none", "torn", "data", "finished"}
        <3>1. attempt' \in 0..Retries
            BY <1>1, AttemptLeft
        <3>2. QED
            BY <1>2, <3>1
    <2>3. QED
        BY <1>1, <1>2, <1>5, <2>1, <2>2, UntouchedStep
<1>6. CASE Mode # "buffered"
    <2>1. Mode = "passthrough" /\ Mode' = "passthrough" /\ frame' = f
        BY <1>1, <1>6, SameTyped, SetupShape DEF Mode
    <2>2. f = Done \/ (f \in Chunk /\ f # <<>> /\ f # Done)
        BY SameTyped, SetupShape, ChunkNotDone
    <2>3. TypeOK'
        <3>1. Frames' = Frames
            BY <1>1 DEF Frames
        <3>2. frame' \in Seq(Items \ {"done"}) \cup {Done}
            BY <2>1, <2>2 DEF Chunk
        <3>3. QED
            BY <1>1, <1>2, <1>4, <3>1, <3>2 DEF IInv, TypeOK
    <2>4. Fresh'
        BY <1>1, <2>1 DEF Fresh
    <2>5. terminal => sent = "finished"
        BY DEF IInv, Translated
    <2>6. Translated'
        BY <1>1, <1>2, <1>4, <2>1, <2>5 DEF IInv, Translated
    <2>7. TranslatedInOrder'
        <3>1. SUFFICES ASSUME setup.orderly PROVE TranslatedInOrder'
            BY <1>1 DEF TranslatedInOrder
        <3>2. sent # "none" => started
            BY <1>1, <1>3, <2>1, <3>1 DEF IInv, TranslatedInOrder, Begun
        <3>3. (frame' = Done => started') /\ (terminal' => ~Adds(frame')) /\ phase' = "read"
            BY <1>1, <1>4, <2>1, <2>5, <3>1, <3>2
        <3>6. terminal' => started'
            BY <1>4, <3>1 DEF IInv, TranslatedInOrder
        <3>7. ~started' => scalar' = NoScalar /\ tools' = <<>>
            BY <1>4, <3>1 DEF IInv, TranslatedInOrder
        <3>4. Begun'
            BY <1>1, <1>4, <2>1, <2>2, <3>1, <3>2 DEF Begun
        <3> HIDE DEF Begun
        <3>5. QED
            BY <3>3, <3>4, <3>6, <3>7 DEF TranslatedInOrder
    <2>8. BlocksApart'
        BY <1>4, SameBlocks, SameTyped
    <2>9. CompleteIsTrue'
        BY <1>1, <1>2 DEF IInv, CompleteIsTrue
    <2>10. QED
        BY <1>2, <2>3, <2>4, <2>6, <2>7, <2>8, <2>9 DEF IInv
<1>7. QED
    BY <1>5, <1>6

LEMMA ReplayStep == ASSUME IInv, Replay, UNCHANGED setup PROVE IInv'
<1>1. /\ phase = "replay" /\ phase' = phase /\ setup' = setup /\ Idle /\ buf # <<>>
      /\ frame' = (IF Head(buf) = Torn THEN <<>> ELSE Head(buf))
      /\ buf' = Tail(buf) /\ UNCHANGED <<attempt, sent, outq, client>> /\ UNCHANGED translator
    BY DEF Replay
<1>2. UNCHANGED <<started, terminal, errored, scalar, tools, next>>
    BY <1>1 DEF translator
<1>3. frame = <<>>
    BY <1>1 DEF Idle
<1> DEFINE T == Frames \cup {Done, Torn}
<1>4. buf \in Seq(T)
    BY SameTyped
<1> HIDE DEF T
<1>5. /\ Len(buf) \in Nat \ {0} /\ Head(buf) = buf[1] /\ buf' \in Seq(T) /\ Len(buf') = Len(buf) - 1
      /\ DOMAIN buf' = 1..Len(buf') /\ DOMAIN buf = 1..Len(buf)
      /\ \A k \in 1..Len(buf') : buf'[k] = buf[k + 1] /\ k + 1 \in 1..Len(buf)
      /\ (buf' # <<>> => Len(buf') # 0 /\ Head(buf') = buf'[1]) /\ (Len(buf') = 0 => buf' = <<>>)
    BY <1>1, <1>4, SMT
<1>6. 1 \in 1..Len(buf)
    BY <1>5
<1>7. (buf[1] \in Chunk /\ buf[1] # <<>> /\ buf[1] # Done /\ buf[1] # Torn) \/ buf[1] = Done \/ buf[1] = Torn
    BY <1>6, SameTyped, BufShape, ChunkNotDone
<1>8. \A j \in 1..Len(buf) : (Finished(buf[j]) => sent = "finished") /\ (buf[j] = Torn => j = Len(buf))
    BY <1>1, <1>5 DEF IInv, StreamShape
<1>9. /\ frame' = (IF buf[1] = Torn THEN <<>> ELSE buf[1]) /\ ~Finished(<<>>) /\ <<>> # Done /\ <<>> \in Chunk
      /\ ~Adds(<<>>) /\ ~Adds(Done) /\ Done # Torn
    BY <1>1, <1>5, DoneShape
<1>10. TypeOK'
    <2>1. Frames' = Frames
        BY <1>1 DEF Frames
    <2>2. frame' \in Seq(Items \ {"done"}) \cup {Done}
        BY <1>7, <1>9 DEF Chunk
    <2>3. QED
        BY <1>1, <1>2, <1>5, <2>1, <2>2 DEF IInv, TypeOK, T
<1>11. sent = "torn" => buf = <<Torn>> /\ buf' = <<>> /\ frame' = <<>>
    <2>1. sent = "torn" => buf = <<Torn>>
        BY <1>1 DEF IInv, StreamShape
    <2>2. Tail(<<Torn>>) = <<>> /\ Head(<<Torn>>) = Torn
        OBVIOUS
    <2>3. QED
        BY <1>1, <2>1, <2>2
<1>12. StreamShape'
    <2>1. \A j \in 1..Len(buf') : (Finished(buf'[j]) => sent = "finished") /\ (buf'[j] = Torn => j = Len(buf'))
        <3>1. TAKE j \in 1..Len(buf')
        <3>2. buf'[j] = buf[j + 1] /\ j + 1 \in 1..Len(buf) /\ (j + 1 = Len(buf) => j = Len(buf'))
            BY <1>5
        <3>3. QED
            BY <1>8, <3>2
    <2>2. Mode = "buffered" /\ Mode' = Mode /\ sent # "none"
        BY <1>1 DEF IInv, StreamShape, Mode
    <2>3. QED
        BY <1>1, <1>5, <1>11, <2>1, <2>2 DEF StreamShape
<1>13. Fresh'
    BY <1>1 DEF Fresh
<1>14. Translated'
    <2>1. (terminal => sent = "finished") /\ ~errored /\ (sent = "torn" => ~started /\ ~terminal)
        BY <1>1 DEF IInv, Translated
    <2>2. Finished(frame') => sent = "finished"
        BY <1>6, <1>8, <1>9
    <2>3. QED
        BY <1>1, <1>2, <1>11, <2>1, <2>2 DEF Translated
<1>15. InOrder' /\ TranslatedInOrder'
    <2>1. SUFFICES ASSUME setup.orderly PROVE InOrder' /\ TranslatedInOrder'
        BY <1>1 DEF InOrder, TranslatedInOrder
    <2>2. \A j \in 1..Len(buf) : Finished(buf[j]) => \A k \in 1..Len(buf) : k > j => ~Adds(buf[k])
        BY <1>1, <1>5, <2>1 DEF IInv, InOrder
    <2>3. /\ (terminal => \A k \in 1..Len(buf) : ~Adds(buf[k]))
          /\ (sent # "torn" => started \/ buf[1] \notin {Done, Torn})
        BY <1>1, <1>3, <1>5, <2>1 DEF IInv, TranslatedInOrder, Begun
    <2>4. InOrder'
        <3>1. ASSUME NEW j \in 1..Len(buf'), Finished(buf'[j]), NEW k \in 1..Len(buf'), k > j
              PROVE  ~Adds(buf'[k])
            <4>1. buf'[j] = buf[j + 1] /\ j + 1 \in 1..Len(buf) /\ buf'[k] = buf[k + 1] /\ k + 1 \in 1..Len(buf)
                  /\ k + 1 > j + 1
                BY <1>5, <3>1
            <4>2. QED
                BY <2>2, <3>1, <4>1
        <3>2. QED
            BY <1>1, <1>5, <3>1 DEF InOrder
    <2>5. Finished(frame') => \A k \in 1..Len(buf') : ~Adds(buf'[k])
        <3>1. Finished(frame') => Finished(buf[1])
            BY <1>9
        <3>2. \A k \in 1..Len(buf') : k + 1 > 1
            BY <1>5
        <3>3. QED
            BY <1>5, <1>6, <2>2, <3>1, <3>2
    <2>6. terminal => (\A k \in 1..Len(buf') : ~Adds(buf'[k])) /\ ~Adds(frame')
        BY <1>5, <1>6, <1>9, <2>3
    <2>7. frame' = Done => started' /\ sent # "torn"
        BY <1>2, <1>9, <1>11, <2>3
    <2>8. sent # "torn" => Begun'
        <3>1. CASE started
            BY <1>2, <3>1 DEF Begun
        <3>2. CASE buf[1] \notin {Done, Torn}
            BY <1>7, <1>9, <3>2 DEF Begun
        <3>3. QED
            BY <2>3, <3>1, <3>2
    <2> HIDE DEF Begun
    <2>9. TranslatedInOrder'
        <3>1. phase' = "replay" /\ sent' = sent /\ DOMAIN buf' = 1..Len(buf')
            BY <1>1, <1>5
        <3>2. terminal' => started'
            BY <1>2, <2>1 DEF IInv, TranslatedInOrder
        <3>3. ~started' => scalar' = NoScalar /\ tools' = <<>>
            BY <1>2, <2>1 DEF IInv, TranslatedInOrder
        <3>4. terminal' \/ Finished(frame') => \A k \in DOMAIN buf' : ~Adds(buf'[k])
            BY <1>2, <2>5, <2>6, <3>1
        <3>5. terminal' => ~Adds(frame')
            BY <1>2, <2>6
        <3>6. frame' = Done => started'
            BY <2>7
        <3>7. sent' # "torn" => Begun'
            BY <2>8, <3>1
        <3>8. QED
            BY <3>1, <3>2, <3>3, <3>4, <3>5, <3>6, <3>7, Zenon DEF TranslatedInOrder
    <2>10. QED
        BY <2>4, <2>9
<1>16. BlocksApart' /\ CompleteIsTrue'
    <2>1. BlocksApart'
        BY <1>2, SameBlocks, SameTyped
    <2>2. QED
        BY <1>1, <2>1 DEF IInv, CompleteIsTrue
<1>17. QED
    BY <1>10, <1>12, <1>13, <1>14, <1>15, <1>16 DEF IInv

LEMMA Preserved == IInv /\ [Next]_vars => IInv'
<1>1. SUFFICES ASSUME IInv, [Next]_vars PROVE IInv'
    OBVIOUS
<1>2. CASE UNCHANGED vars
    <2>1. UNCHANGED <<setup, phase, attempt, buf, sent, frame, started, terminal, errored, scalar, tools, next, outq, client>>
        BY <1>2 DEF vars, bridge, translator
    <2>2. QED
        BY <1>1, <2>1, SameIsSame
<1>3. CASE Next
    <2>1. UNCHANGED setup /\ (Yield \/ Translate \/ Upstream \/ Replay \/ Replayed \/ Over)
        BY <1>3 DEF Next
    <2>2. CASE Yield
        BY <1>1, <2>1, <2>2, YieldStep
    <2>3. CASE Translate
        <3>1. CASE _emit_message_start
            BY <1>1, <2>1, <3>1, StartStep
        <3>2. CASE DeltaScalar("think", "thinking")
            BY <1>1, <2>1, <3>2, ScalarStep
        <3>3. CASE DeltaScalar("text", "text")
            BY <1>1, <2>1, <3>3, ScalarStep
        <3>4. ASSUME NEW c \in Calls, DeltaToolCall(c) PROVE IInv'
            BY <1>1, <2>1, <3>4, ToolStep
        <3>5. CASE _emit_terminal
            BY <1>1, <2>1, <3>5, TerminalStep
        <3>6. CASE _process_done
            BY <1>1, <2>1, <3>6, DoneStep
        <3>7. CASE Skip
            BY <1>1, <2>1, <3>7, SkipStep
        <3>8. QED
            BY <2>3, <3>1, <3>2, <3>3, <3>4, <3>5, <3>6, <3>7 DEF Translate
    <2>4. CASE Upstream
        <3>1. CASE Accept
            BY <1>1, <2>1, <3>1, AcceptStep
        <3>2. CASE Refuse
            BY <1>1, <2>1, <3>2, RefuseStep
        <3>3. CASE EOF
            BY <1>1, <2>1, <3>3, EOFStep
        <3>4. CASE Drop
            BY <1>1, <2>1, <3>4, DropStep
        <3>5. ASSUME NEW f \in Frames \cup {Done}, Receive(f) PROVE IInv'
            BY <1>1, <2>1, <3>5, ReceiveStep
        <3>6. QED
            BY <2>4, <3>1, <3>2, <3>3, <3>4, <3>5 DEF Upstream
    <2>5. CASE Replay
        BY <1>1, <2>1, <2>5, ReplayStep
    <2>6. CASE Replayed
        BY <1>1, <2>1, <2>6, ReplayedStep
    <2>7. CASE Over
        BY <1>1, <2>1, <2>7, OverStep
    <2>8. QED
        BY <2>1, <2>2, <2>3, <2>4, <2>5, <2>6, <2>7
<1>4. QED
    BY <1>1, <1>2, <1>3

\* Every state is typed: what waits for the client are events, the blocks are numbered.
THEOREM TypesCorrect == Spec => []TypeOK
<1>1. IInv => TypeOK
    BY DEF IInv
<1>2. QED
    BY InitHolds, Preserved, <1>1, PTL DEF Spec

\* In whatever order upstream sends and however it fails, a capture that it finished is
\* never asked for again, and the client takes a message for complete only if upstream
\* finished it (bridge.py, _capture_stream, _forward_stream_buffered).
THEOREM FinishedIsFinal == Spec => []FinishedOnce
<1>1. IInv => FinishedOnce
    BY DEF IInv, StreamShape, CompleteIsTrue, FinishedOnce
<1>2. QED
    BY InitHolds, Preserved, <1>1, PTL DEF Spec

-----------------------------------------------------------------------------
(* The client and the translator.                                          *)

Coupled == setup.orderly => \E d : Reads(client, outq, d) /\ Expected(d.phase, d.open, d.used)

\* Expected in the next state, of values that do not change.
ExpectedNext(ph, open, used) ==
    IF phase' = "ended"
    THEN Mode' = "buffered" => IF sent' = "torn" THEN ph = "idle" ELSE ph \in {"complete", "failed"}
    ELSE /\ ph = IF terminal' THEN "complete" ELSE IF started' THEN "streaming" ELSE "idle"
         /\ open = OpenBlocks' /\ used = 0..(next' - 1)

LEMMA CoupledBy ==
    ASSUME NEW ph, NEW open, NEW used,
           client' = client, Path(View(client), outq', <<ph, open, used>>), ExpectedNext(ph, open, used)
    PROVE  Coupled'
<1>1. PICK d : Reads(client, outq', d) /\ View(d) = <<ph, open, used>>
    BY Zenon DEF Path
<1>2. d.phase = ph /\ d.open = open /\ d.used = used
    BY <1>1 DEF View
<1>3. ExpectedNext(d.phase, d.open, d.used)
    BY <1>2
<1>4. Expected(d.phase, d.open, d.used)'
    BY <1>3 DEF Expected, ExpectedNext
<1>5. Reads(client', outq', d)
    BY <1>1
<1>6. QED
    BY <1>4, <1>5 DEF Coupled

LEMMA AtRest ==
    ASSUME Coupled, setup.orderly, outq = <<>>
    PROVE  /\ Expected(client.phase, client.open, client.used)
           /\ phase # "ended" => View(client) = <<IF terminal THEN "complete" ELSE IF started THEN "streaming" ELSE "idle",
                                                 OpenBlocks, 0..(next - 1)>>
<1>1. PICK d : Reads(client, <<>>, d) /\ Expected(d.phase, d.open, d.used)
    BY DEF Coupled
<1>2. client = d
    BY <1>1, ReadsNothing
<1>3. Expected(client.phase, client.open, client.used)
    BY <1>1, <1>2
<1>4. QED
    BY <1>3 DEF Expected, View

\* A step that yields nothing and leaves the translator as it is.
LEMMA CalmStep ==
    ASSUME Coupled, setup.orderly, outq = <<>>, outq' = <<>>, client' = client, phase # "ended", phase' # "ended",
           UNCHANGED <<started, terminal, scalar, tools, next>>
    PROVE  Coupled'
<1> DEFINE ph == IF terminal THEN "complete" ELSE IF started THEN "streaming" ELSE "idle"
<1>1. View(client) = <<ph, OpenBlocks, 0..(next - 1)>>
    BY AtRest
<1>2. ExpectedNext(ph, OpenBlocks, 0..(next - 1))
    BY DEF ExpectedNext, OpenBlocks
<1>3. Path(View(client), outq', View(client))
    BY PathNone
<1> HIDE DEF ph
<1>4. QED
    BY <1>1, <1>2, <1>3, CoupledBy

\* A buffered request, or one that was refused, ends with nothing but an error.
LEMMA ErrorStep ==
    ASSUME IInv, Coupled, setup.orderly, phase = "connect" \/ (phase = "read" /\ Mode = "buffered"),
           phase' = "ended", outq' = <<Event("error")>>, client' = client, sent' # "torn"
    PROVE  Coupled'
<1>1. client.phase = "idle" /\ client.open = {}
    BY Pristine
<1>2. View(client) = <<"idle", {}, client.used>>
    BY <1>1 DEF View
<1>3. Path(<<"idle", {}, client.used>>, <<Event("error")>>, <<"failed", {}, client.used>>)
    BY PathNamed
<1>4. ExpectedNext("failed", {}, client.used)
    BY DEF ExpectedNext
<1>5. QED
    BY <1>2, <1>3, <1>4, CoupledBy

\* close() ends the message with an error unless it is complete or was never begun.
LEMMA ClosingPath ==
    ASSUME IInv, Coupled, setup.orderly, Idle, phase # "ended"
    PROVE  \E open, used : \E ph \in {"idle", "complete", "failed"} :
              /\ Path(View(client), closing, <<ph, open, used>>)
              /\ (ph = "idle" => ~started /\ open = {})
              /\ (ph = "idle" <=> ~started /\ ~terminal)
<1> DEFINE used == 0..(next - 1)
<1>1. View(client) = <<IF terminal THEN "complete" ELSE IF started THEN "streaming" ELSE "idle", OpenBlocks, used>>
    BY AtRest DEF Idle
<1>2. ~errored
    BY DEF IInv, Translated
<1> HIDE DEF used
<1>3. CASE terminal
    <2>1. closing = <<>> /\ View(client) = <<"complete", OpenBlocks, used>>
        BY <1>1, <1>3 DEF closing
    <2>2. QED
        BY <1>3, <2>1, PathNone
<1>4. CASE ~terminal /\ ~started
    <2>1. closing = <<>> /\ View(client) = <<"idle", OpenBlocks, used>>
        BY <1>1, <1>4 DEF closing
    <2>2. OpenBlocks = {}
        <3>1. scalar = NoScalar /\ tools = <<>> /\ ToSet(<<>>) = {}
            BY <1>4 DEF IInv, TranslatedInOrder, ToSet
        <3>2. QED
            BY <3>1 DEF OpenBlocks
    <2>3. QED
        BY <1>4, <2>1, <2>2, PathNone
<1>5. CASE ~terminal /\ started
    <2>1. closing = _close_all_open_blocks \o <<Event("error")>>
        BY <1>2, <1>5 DEF closing
    <2>2. View(client) = <<"streaming", OpenBlocks, used>>
        BY <1>1, <1>5
    <2>3. Path(<<"streaming", OpenBlocks, used>>, closing, <<"failed", {}, used>>)
        BY <2>1, SameTyped, PathBroken
    <2>4. QED
        BY <1>5, <2>2, <2>3
<1>6. QED
    BY <1>3, <1>4, <1>5

LEMMA ClosingStep ==
    ASSUME IInv, Coupled, setup.orderly, Idle, phase # "ended", phase' = "ended", outq' = closing,
           UNCHANGED <<setup, client>>,
           Mode = "buffered" => (sent' = "torn" <=> ~started /\ ~terminal)
    PROVE  Coupled'
<1>1. PICK open, used : \E ph \in {"idle", "complete", "failed"} :
              /\ Path(View(client), closing, <<ph, open, used>>)
              /\ (ph = "idle" <=> ~started /\ ~terminal)
    BY ClosingPath
<1>2. PICK ph \in {"idle", "complete", "failed"} :
              /\ Path(View(client), closing, <<ph, open, used>>)
              /\ (ph = "idle" <=> ~started /\ ~terminal)
    BY <1>1
<1>3. ExpectedNext(ph, open, used)
    BY <1>2 DEF ExpectedNext, Mode
<1>4. Path(View(client), outq', <<ph, open, used>>)
    BY <1>2
<1>5. QED
    BY <1>3, <1>4, CoupledBy

\* The handler of a passthrough request adds an error to whatever close() left.
LEMMA AbortStep ==
    ASSUME IInv, Coupled, setup.orderly, Idle, phase # "ended", phase' = "ended", Mode # "buffered",
           outq' = Append(closing, Event("error")), UNCHANGED <<setup, client>>
    PROVE  Coupled'
<1>1. PICK open, used : \E ph \in {"idle", "complete", "failed"} :
              /\ Path(View(client), closing, <<ph, open, used>>) /\ (ph = "idle" => open = {})
    BY ClosingPath
<1>2. PICK ph \in {"idle", "complete", "failed"} :
              /\ Path(View(client), closing, <<ph, open, used>>) /\ (ph = "idle" => open = {})
    BY <1>1
<1>3. \E end \in {"failed", "aborted"} : Path(<<ph, open, used>>, <<Event("error")>>, <<end, open, used>>)
    <2>1. CASE ph = "idle"
        BY <1>2, <2>1, PathNamed
    <2>2. CASE ph \in {"complete", "failed"}
        BY <2>2, PathNamed
    <2>3. QED
        BY <2>1, <2>2
<1>4. PICK end \in {"failed", "aborted"} : Path(<<ph, open, used>>, <<Event("error")>>, <<end, open, used>>)
    BY <1>3
<1>5. closing \in Seq(AllEvents) /\ <<Event("error")>> \in Seq(AllEvents) /\ Event("error") \in AllEvents
    BY SameTyped, QuietClosing, NamedTyped DEF Events
<1> HIDE DEF closing
<1>6. outq' = closing \o <<Event("error")>>
    BY <1>5, SMT
<1>7. Path(View(client), outq', <<end, open, used>>)
    BY <1>2, <1>4, <1>5, <1>6, PathThen
<1>8. ExpectedNext(end, open, used)
    BY DEF ExpectedNext, Mode
<1>9. QED
    BY <1>7, <1>8, CoupledBy

LEMMA YieldCoupled == ASSUME IInv, Coupled, setup.orderly, Yield, UNCHANGED setup PROVE Coupled'
<1>1. /\ outq # <<>> /\ outq' = Tail(outq) /\ client' = Read(client, Head(outq))
      /\ UNCHANGED <<setup, phase, sent, started, terminal, scalar, tools, next>>
    BY DEF Yield, bridge, translator
<1>2. outq \in Seq(AllEvents)
    BY DEF IInv, TypeOK, AllEvents
<1>3. PICK d : Reads(client, outq, d) /\ Expected(d.phase, d.open, d.used)
    BY DEF Coupled
<1>4. Reads(client', outq', d)
    BY <1>1, <1>2, <1>3, ReadsHead
<1>5. Expected(d.phase, d.open, d.used)'
    BY <1>1, <1>3 DEF Expected, OpenBlocks, Mode
<1>6. QED
    BY <1>4, <1>5 DEF Coupled

\* Only the scalar block is closed.
LEMMA PathCloseScalar ==
    ASSUME TypeOK, BlocksApart, NEW used
    PROVE  Path(<<"streaming", OpenBlocks, used>>, _close_current_scalar, <<"streaming", ToolBlocks, used>>)
<1>1. OpenBlocks = (IF scalar = NoScalar THEN {} ELSE {<<scalar.idx, scalar.kind>>}) \cup ToolBlocks
    BY DEF OpenBlocks, ToolBlocks
<1>2. CASE scalar = NoScalar
    <2>1. _close_current_scalar = <<>> /\ OpenBlocks = ToolBlocks
        BY <1>1, <1>2 DEF _close_current_scalar
    <2>2. QED
        BY <2>1, PathNone
<1>3. CASE scalar # NoScalar
    <2>1. tools = <<>>
        BY <1>3 DEF BlocksApart
    <2>2. ToolBlocks = {}
        BY <2>1 DEF ToolBlocks, ToSet
    <2>3. OpenBlocks = {<<scalar.idx, scalar.kind>>}
        BY <1>1, <1>3, <2>2
    <2>4. QED
        BY <1>3, <2>2, <2>3, PathScalar
<1>4. QED
    BY <1>2, <1>3

\* A handler runs when everything is read and the response goes on.
LEMMA HandlerStarts ==
    ASSUME IInv, Coupled, setup.orderly, outq = <<>>, frame # <<>>, started, ~terminal
    PROVE  View(client) = <<"streaming", OpenBlocks, 0..(next - 1)>> /\ phase # "ended"
<1>1. phase # "ended"
    BY DEF IInv, Translated
<1>2. View(client) = <<IF terminal THEN "complete" ELSE IF started THEN "streaming" ELSE "idle", OpenBlocks, 0..(next - 1)>>
    BY <1>1, AtRest
<1>3. QED
    BY <1>1, <1>2

LEMMA StartCoupled == ASSUME IInv, Coupled, setup.orderly, _emit_message_start, UNCHANGED setup PROVE Coupled'
<1>1. /\ UNCHANGED <<phase, client, terminal, scalar, tools, next>> /\ outq = <<>> /\ ~started
      /\ frame # <<>> /\ frame # Done /\ started' = TRUE /\ outq' = <<Event("message_start")>>
    BY DEF _emit_message_start, bridge
<1>2. ~terminal /\ phase # "ended"
    BY <1>1 DEF IInv, Translated, TranslatedInOrder
<1>3. View(client) = <<IF terminal THEN "complete" ELSE IF started THEN "streaming" ELSE "idle", OpenBlocks, 0..(next - 1)>>
    BY <1>1, <1>2, AtRest
<1>4. View(client) = <<"idle", OpenBlocks, 0..(next - 1)>>
    BY <1>1, <1>2, <1>3
<1>5. Path(<<"idle", OpenBlocks, 0..(next - 1)>>, outq', <<"streaming", OpenBlocks, 0..(next - 1)>>)
    BY <1>1, PathNamed
<1>6. ExpectedNext("streaming", OpenBlocks, 0..(next - 1))
    BY <1>1, <1>2 DEF ExpectedNext, OpenBlocks
<1>7. QED
    BY <1>1, <1>4, <1>5, <1>6, CoupledBy

LEMMA ScalarCoupled ==
    ASSUME IInv, Coupled, setup.orderly, NEW item \in {"think", "text"}, NEW kind \in {"thinking", "text"},
           DeltaScalar(item, kind), UNCHANGED setup
    PROVE  Coupled'
<1> DEFINE clos == _close_all_open_tools \o _close_current_scalar
           first == <<BlockEvent("start", next, kind)>>
           second == <<BlockEvent("delta", next, kind)>>
           used == 0..(next - 1)
<1>1. /\ UNCHANGED <<phase, client, started, terminal>>
      /\ Item(item) /\ started /\ tools' = <<>>
      /\ \/ /\ scalar.kind = kind /\ UNCHANGED <<scalar, next>>
            /\ outq' = _close_all_open_tools \o <<BlockEvent("delta", scalar.idx, kind)>>
         \/ /\ scalar.kind # kind /\ scalar' = [kind |-> kind, idx |-> next] /\ next' = next + 1
            /\ outq' = clos \o <<BlockEvent("start", next, kind), BlockEvent("delta", next, kind)>>
    BY DEF DeltaScalar, bridge
<1>2. frame # <<>> /\ ~terminal /\ outq = <<>>
    BY <1>1, TakeItem DEF Silent, Items
<1>3. /\ next \in Nat /\ next \in Int /\ TypeOK /\ BlocksApart /\ scalar.idx \in Int
      /\ scalar = [kind |-> scalar.kind, idx |-> scalar.idx]
    <2>1. next \in Nat /\ TypeOK /\ BlocksApart
        BY SameTyped
    <2>2. QED
        BY <2>1, ToolTyped
<1>4. View(client) = <<"streaming", OpenBlocks, used>> /\ phase # "ended"
    BY <1>1, <1>2, HandlerStarts
<1>5. kind \in Kinds /\ kind # "tool_use" /\ kind # "none" /\ kind \in Kinds \cup {""}
    BY DEF Kinds
<1>6. ToSet(<<>>) = {}
    BY DEF ToSet
<1>7. CASE scalar.kind = kind
    <2>1. scalar # NoScalar /\ tools = <<>>
        <3>1. NoScalar.kind = "none"
            BY DEF NoScalar
        <3>2. scalar # NoScalar
            BY <1>5, <1>7, <3>1
        <3>3. QED
            BY <1>3, <3>2 DEF BlocksApart
    <2>2. OpenBlocks = {<<scalar.idx, kind>>} /\ OpenBlocks' = OpenBlocks
        BY <1>1, <1>6, <1>7, <2>1 DEF OpenBlocks
    <2>3. _close_all_open_tools = <<>>
        <3>1. _close_all_open_tools \in Seq(AllEvents) /\ Len(_close_all_open_tools) = Len(tools) /\ Len(tools) = 0
            BY <1>3, <2>1, StopsTyped
        <3>2. QED
            BY <3>1
    <2>4. outq' = <<BlockEvent("delta", scalar.idx, kind)>>
        <3>1. <<BlockEvent("delta", scalar.idx, kind)>> \in Seq(AllEvents)
            BY <1>3, <1>5, BlockOne
        <3>2. \A q \in Seq(AllEvents) : <<>> \o q = q
            OBVIOUS
        <3>3. outq' = _close_all_open_tools \o <<BlockEvent("delta", scalar.idx, kind)>>
            BY <1>1, <1>7
        <3>4. QED
            BY <2>3, <3>1, <3>2, <3>3
    <2>5. Path(<<"streaming", OpenBlocks, used>>, outq', <<"streaming", OpenBlocks, used>>)
        <3>1. <<scalar.idx, kind>> \in OpenBlocks
            BY <2>2
        <3>2. QED
            BY <2>4, <3>1, PathDelta
    <2>6. ExpectedNext("streaming", OpenBlocks, used)
        BY <1>1, <1>2, <1>4, <1>7, <2>2 DEF ExpectedNext
    <2>7. QED
        BY <1>1, <1>4, <2>5, <2>6, CoupledBy
<1>8. CASE scalar.kind # kind
    <2> DEFINE blocks == {<<next, kind>>}  nums == 0..next
    <2>1. scalar' = [kind |-> kind, idx |-> next] /\ next' = next + 1
          /\ outq' = clos \o <<BlockEvent("start", next, kind), BlockEvent("delta", next, kind)>>
        BY <1>1, <1>8
    <2>2. <<BlockEvent("start", next, kind), BlockEvent("delta", next, kind)>> = first \o second
        OBVIOUS
    <2>3. first \in Seq(AllEvents) /\ second \in Seq(AllEvents)
        BY <1>3, <1>5, BlockOne
    <2>4. Path(<<"streaming", OpenBlocks, used>>, clos, <<"streaming", {}, used>>) /\ clos \in Seq(AllEvents)
        BY <1>3, PathClosers
    <2>5. Path(<<"streaming", {}, used>>, first, <<"streaming", blocks, nums>>)
        <3>1. Path(<<"streaming", {}, used>>, first, <<"streaming", {} \cup {<<next, kind>>}, nums>>)
            BY <1>3, <1>5, PathStart
        <3>2. {} \cup {<<next, kind>>} = blocks
            OBVIOUS
        <3>3. QED
            BY <3>1, <3>2
    <2>6. Path(<<"streaming", blocks, nums>>, second, <<"streaming", blocks, nums>>)
        <3>1. <<next, kind>> \in blocks
            OBVIOUS
        <3> HIDE DEF blocks, nums
        <3>2. QED
            BY <3>1, PathDelta
    <2>7. OpenBlocks' = blocks /\ 0..(next' - 1) = nums
        <3>1. scalar' # NoScalar /\ scalar'.idx = next /\ scalar'.kind = kind
            BY <1>5, <2>1 DEF NoScalar
        <3>2. next' - 1 = next
            BY <1>3, <2>1
        <3>3. QED
            BY <1>1, <1>6, <3>1, <3>2 DEF OpenBlocks
    <2>8. ExpectedNext("streaming", blocks, nums)
        BY <1>1, <1>2, <1>4, <2>7 DEF ExpectedNext
    <2> HIDE DEF clos, first, second, blocks, nums, used
    <2>9. first \o second \in Seq(AllEvents) /\ Path(<<"streaming", {}, used>>, first \o second, <<"streaming", blocks, nums>>)
        BY <2>3, <2>5, <2>6, PathThen, JoinedTyped
    <2>10. Path(<<"streaming", OpenBlocks, used>>, outq', <<"streaming", blocks, nums>>)
        BY <2>1, <2>2, <2>4, <2>9, PathThen
    <2>11. QED
        BY <1>1, <1>4, <2>8, <2>10, CoupledBy
<1>9. QED
    BY <1>7, <1>8

LEMMA ToolCoupled ==
    ASSUME IInv, Coupled, setup.orderly, NEW call \in Calls, DeltaToolCall(call), UNCHANGED setup
    PROVE  Coupled'
<1> DEFINE mine == Mine(call)
           i == Index(call)
           opening == IF mine = {} THEN <<BlockEvent("start", i, "tool_use")>> ELSE <<>>
           piece == <<BlockEvent("delta", i, "tool_use")>>
           used == 0..(next - 1)
           blocks == IF mine = {} THEN ToolBlocks \cup {<<i, "tool_use">>} ELSE ToolBlocks
           nums == IF mine = {} THEN 0..next ELSE 0..(next - 1)
<1>1. /\ UNCHANGED <<phase, client, started, terminal>>
      /\ Item(call) /\ started /\ scalar' = NoScalar
      /\ outq' = _close_current_scalar \o opening \o piece
      /\ tools' = IF mine = {} THEN Append(tools, <<call, i>>) ELSE tools
      /\ next' = IF mine = {} THEN next + 1 ELSE next
    BY ToolEffect DEF bridge
<1>2. frame # <<>> /\ ~terminal /\ outq = <<>>
    BY <1>1, TakeItem DEF Silent, Items, Calls
<1>3. next \in Nat /\ TypeOK /\ BlocksApart /\ tools \in Seq(Calls \X Nat)
    BY SameTyped
<1>4. i \in Nat /\ i \in Int /\ (mine = {} => i = next) /\ (mine # {} => \E j \in DOMAIN tools : tools[j][2] = i)
    BY <1>3, MineTyped
<1>5. View(client) = <<"streaming", OpenBlocks, used>> /\ phase # "ended"
    BY <1>1, <1>2, HandlerStarts
<1> HIDE DEF mine, i
<1>6. "tool_use" \in Kinds /\ "tool_use" \in Kinds \cup {""} /\ \A b \in ToolBlocks : b[2] = "tool_use"
    BY DEF Kinds, ToolBlocks
<1>7. opening \in Seq(AllEvents) /\ piece \in Seq(AllEvents) /\ _close_current_scalar \in Seq(AllEvents)
    <2>1. <<BlockEvent("start", i, "tool_use")>> \in Seq(AllEvents) /\ piece \in Seq(AllEvents)
        BY <1>4, <1>6, BlockOne
    <2>2. <<>> \in Seq(AllEvents)
        OBVIOUS
    <2>3. QED
        BY <1>3, <2>1, <2>2, StopsTyped
<1>8. Path(<<"streaming", OpenBlocks, used>>, _close_current_scalar, <<"streaming", ToolBlocks, used>>)
    BY <1>3, PathCloseScalar
<1>9. Path(<<"streaming", ToolBlocks, used>>, opening, <<"streaming", blocks, nums>>)
    <2>1. CASE mine = {}
        <3>1. i = next
            BY <1>4, <2>1
        <3>2. Path(<<"streaming", ToolBlocks, used>>, <<BlockEvent("start", next, "tool_use")>>,
                   <<"streaming", ToolBlocks \cup {<<next, "tool_use">>}, 0..next>>)
            BY <1>3, <1>6, PathStart
        <3>3. QED
            BY <2>1, <3>1, <3>2
    <2>2. CASE mine # {}
        BY <2>2, PathNone
    <2>3. QED
        BY <2>1, <2>2
<1>10. <<i, "tool_use">> \in blocks
    <2>1. CASE mine = {}
        BY <2>1
    <2>2. CASE mine # {}
        <3>1. PICK j \in DOMAIN tools : tools[j][2] = i
            BY <1>4, <2>2
        <3>2. tools[j] \in ToSet(tools)
            BY <3>1 DEF ToSet
        <3>3. QED
            BY <2>2, <3>1, <3>2 DEF ToolBlocks
    <2>3. QED
        BY <2>1, <2>2
<1>11. Path(<<"streaming", blocks, nums>>, piece, <<"streaming", blocks, nums>>)
    BY <1>10, PathDelta
<1>12. OpenBlocks' = blocks /\ 0..(next' - 1) = nums
    <2>1. CASE mine = {}
        <3> DEFINE x == <<call, i>>  T == Calls \X Nat
        <3>1. x \in T /\ tools \in Seq(T) /\ x[2] = i
            BY <1>3, <1>4
        <3> HIDE DEF x, T
        <3>2. ToSet(Append(tools, x)) = ToSet(tools) \cup {x}
            BY <3>1, AppendElements
        <3>3. ToSet(tools') = ToSet(tools) \cup {x}
            BY <1>1, <2>1, <3>2 DEF x
        <3>4. {<<t[2], "tool_use">> : t \in ToSet(tools')} = ToolBlocks \cup {<<i, "tool_use">>}
            BY <3>1, <3>3 DEF ToolBlocks
        <3>5. OpenBlocks' = blocks
            BY <1>1, <2>1, <3>4 DEF OpenBlocks
        <3>6. next' - 1 = next
            BY <1>1, <1>3, <2>1
        <3>7. QED
            BY <2>1, <3>5, <3>6
    <2>2. CASE mine # {}
        BY <1>1, <2>2 DEF OpenBlocks, ToolBlocks
    <2>3. QED
        BY <2>1, <2>2
<1>13. ExpectedNext("streaming", blocks, nums)
    BY <1>1, <1>2, <1>5, <1>12 DEF ExpectedNext
<1> HIDE DEF opening, piece, blocks, nums, used
<1>14. Path(<<"streaming", OpenBlocks, used>>, _close_current_scalar \o opening, <<"streaming", blocks, nums>>)
       /\ _close_current_scalar \o opening \in Seq(AllEvents)
    BY <1>7, <1>8, <1>9, PathThen, JoinedTyped
<1>15. Path(<<"streaming", OpenBlocks, used>>, outq', <<"streaming", blocks, nums>>)
    BY <1>1, <1>7, <1>11, <1>14, PathThen
<1>16. QED
    BY <1>1, <1>5, <1>13, <1>15, CoupledBy

\* A terminal, sent or made up.
LEMMA EndingCoupled ==
    ASSUME IInv, Coupled, setup.orderly, outq = <<>>, frame # <<>>, started, ~terminal,
           UNCHANGED <<phase, client, next>>, outq' = Ending, scalar' = NoScalar, tools' = <<>>, terminal' = TRUE
    PROVE  Coupled'
<1>1. View(client) = <<"streaming", OpenBlocks, 0..(next - 1)>> /\ phase # "ended"
    BY HandlerStarts
<1>2. Path(<<"streaming", OpenBlocks, 0..(next - 1)>>, outq', <<"complete", {}, 0..(next - 1)>>)
    BY SameTyped, PathEnding
<1>3. OpenBlocks' = {}
    <2>1. ToSet(<<>>) = {}
        BY DEF ToSet
    <2>2. QED
        BY <2>1 DEF OpenBlocks
<1>4. ExpectedNext("complete", {}, 0..(next - 1))
    BY <1>1, <1>3 DEF ExpectedNext
<1>5. QED
    BY <1>1, <1>2, <1>4, CoupledBy

LEMMA TerminalCoupled == ASSUME IInv, Coupled, setup.orderly, _emit_terminal, UNCHANGED setup PROVE Coupled'
<1>1. /\ UNCHANGED <<phase, client, next>> /\ Item("finish") /\ started
      /\ outq' = Ending /\ scalar' = NoScalar /\ tools' = <<>> /\ terminal' = TRUE
    BY DEF _emit_terminal, bridge
<1>2. frame # <<>> /\ outq = <<>> /\ ~terminal
    BY <1>1, TakeItem DEF Silent, Items
<1>3. QED
    BY <1>1, <1>2, EndingCoupled

LEMMA DoneCoupled == ASSUME IInv, Coupled, setup.orderly, _process_done, UNCHANGED setup PROVE Coupled'
<1>1. /\ UNCHANGED <<phase, client, started, next>> /\ Item("done")
      /\ \/ terminal /\ UNCHANGED <<outq, scalar, tools, terminal>>
         \/ ~terminal /\ outq' = Ending /\ scalar' = NoScalar /\ tools' = <<>> /\ terminal' = TRUE
    BY DEF _process_done, bridge
<1>2. frame # <<>> /\ outq = <<>> /\ Head(frame) = "done"
    BY <1>1 DEF Item
<1>3. frame = Done
    BY <1>2, FrameShape, ChunkShape DEF IInv
<1>4. started /\ phase # "ended"
    BY <1>2, <1>3 DEF IInv, Translated, TranslatedInOrder
<1>5. CASE terminal
    BY <1>1, <1>2, <1>4, <1>5, CalmStep
<1>6. CASE ~terminal
    BY <1>1, <1>2, <1>4, <1>6, EndingCoupled
<1>7. QED
    BY <1>5, <1>6

LEMMA SkipCoupled == ASSUME IInv, Coupled, setup.orderly, Skip, UNCHANGED setup PROVE Coupled'
<1>1. /\ UNCHANGED <<phase, client, outq, started, terminal, scalar, tools, next>> /\ outq = <<>> /\ frame # <<>>
    BY DEF Skip, bridge, Item
<1>2. phase # "ended"
    BY <1>1 DEF IInv, Translated
<1>3. QED
    BY <1>1, <1>2, CalmStep

LEMMA AgainCoupled ==
    ASSUME IInv, Coupled, setup.orderly, phase = "connect" \/ (phase = "read" /\ Mode = "buffered"), Idle,
           Again(attempt + 1) \/ GiveUp, UNCHANGED <<client, translator>>, sent' # "torn"
    PROVE  Coupled'
<1>1. outq = <<>> /\ UNCHANGED <<client, started, terminal, scalar, tools, next>>
    BY DEF Idle, translator
<1>2. CASE phase' = "connect" /\ UNCHANGED outq
    BY <1>1, <1>2, CalmStep
<1>3. CASE phase' = "ended" /\ outq' = <<Event("error")>>
    BY <1>1, <1>3, ErrorStep
<1>4. QED
    BY <1>2, <1>3 DEF Again, GiveUp

LEMMA CapturedCoupled ==
    ASSUME IInv, Coupled, setup.orderly, phase = "read", Mode = "buffered", Idle, Captured, Tear,
           UNCHANGED <<setup, client, translator>>
    PROVE  Coupled'
<1>1. outq = <<>> /\ UNCHANGED <<client, started, terminal, scalar, tools, next>>
    BY DEF Idle, translator
<1>2. CASE saw_terminal(buf')
    <2>1. phase' = "replay" /\ UNCHANGED outq
        BY <1>2 DEF Captured
    <2>2. QED
        BY <1>1, <2>1, CalmStep
<1>3. CASE ~saw_terminal(buf')
    <2>1. Again(attempt + 1)
        BY <1>3 DEF Captured, RetryDrop
    <2>2. sent' # "torn"
        BY <1>3, TearShape, TornSeen
    <2>3. QED
        BY <2>1, <2>2, AgainCoupled
<1>4. QED
    BY <1>2, <1>3

LEMMA UpstreamCoupled == ASSUME IInv, Coupled, setup.orderly, Upstream, UNCHANGED setup PROVE Coupled'
<1>1. CASE Accept
    <2>1. outq = <<>> /\ phase = "connect" /\ phase' = "read" /\ UNCHANGED <<client, outq, started, terminal, scalar, tools, next>>
        BY <1>1 DEF Accept, Idle, translator
    <2>2. QED
        BY <2>1, CalmStep
<1>2. CASE Refuse
    <2>1. phase = "connect" /\ Idle /\ UNCHANGED <<sent, client, translator>>
        BY <1>2 DEF Refuse
    <2>2. Again(attempt + 1) \/ GiveUp
        BY <1>2 DEF Refuse, RetryStatus, RetryDrop
    <2>3. sent' # "torn"
        BY <2>1 DEF IInv, StreamShape
    <2>4. QED
        BY <2>1, <2>2, <2>3, AgainCoupled
<1>3. CASE EOF
    <2>1. phase = "read" /\ Idle /\ Tear /\ UNCHANGED client
        BY <1>3 DEF EOF
    <2>2. CASE Mode = "buffered"
        <3>1. Captured /\ UNCHANGED translator
            BY <1>3, <2>2 DEF EOF
        <3>2. QED
            BY <2>1, <2>2, <3>1, CapturedCoupled
    <2>3. CASE Mode # "buffered"
        <3>1. outq' = closing /\ phase' = "ended"
            BY <1>3, <2>3 DEF EOF
        <3>2. QED
            BY <2>1, <2>3, <3>1, ClosingStep
    <2>4. QED
        BY <2>2, <2>3
<1>4. CASE Drop
    <2>1. phase = "read" /\ Idle /\ Tear /\ UNCHANGED client
        BY <1>4 DEF Drop
    <2>2. CASE Mode = "buffered"
        <3>1. Captured /\ UNCHANGED translator
            BY <1>4, <2>2 DEF Drop
        <3>2. QED
            BY <2>1, <2>2, <3>1, CapturedCoupled
    <2>3. CASE Mode # "buffered"
        <3>1. outq' = Append(closing, Event("error")) /\ phase' = "ended"
            BY <1>4, <2>3 DEF Drop
        <3>2. QED
            BY <2>1, <2>3, <3>1, AbortStep
    <2>4. QED
        BY <2>2, <2>3
<1>5. ASSUME NEW f \in Frames \cup {Done}, Receive(f) PROVE Coupled'
    <2>1. outq = <<>> /\ phase = "read" /\ UNCHANGED <<phase, client, outq, started, terminal, scalar, tools, next>>
        BY <1>5 DEF Receive, Idle, translator
    <2>2. QED
        BY <2>1, CalmStep
<1>6. QED
    BY <1>1, <1>2, <1>3, <1>4, <1>5 DEF Upstream

LEMMA ReplayCoupled == ASSUME IInv, Coupled, setup.orderly, Replay \/ Replayed, UNCHANGED setup PROVE Coupled'
<1>1. CASE Replay
    <2>1. outq = <<>> /\ phase = "replay" /\ UNCHANGED <<phase, client, outq, started, terminal, scalar, tools, next>>
        BY <1>1 DEF Replay, Idle, translator
    <2>2. QED
        BY <2>1, CalmStep
<1>2. CASE Replayed
    <2>1. phase = "replay" /\ Idle /\ buf = <<>> /\ outq' = closing /\ phase' = "ended" /\ UNCHANGED <<sent, client>>
        BY <1>2 DEF Replayed
    <2>2. sent' = "torn" <=> ~started /\ ~terminal
        BY <2>1 DEF IInv, Translated, TranslatedInOrder, Begun, Idle
    <2>3. QED
        BY <2>1, <2>2, ClosingStep
<1>3. QED
    BY <1>1, <1>2

LEMMA CoupledInit == Init => Coupled
<1>1. SUFFICES ASSUME Init PROVE Coupled
    OBVIOUS
<1>2. /\ phase = "connect" /\ outq = <<>> /\ started = FALSE /\ terminal = FALSE
      /\ scalar = NoScalar /\ tools = <<>> /\ next = 0
    BY <1>1, Zenon DEF Init
<1>3. client.phase = "idle" /\ client.open = {} /\ client.used = {}
    BY <1>1 DEF Init
<1>4. ToSet(<<>>) = {} /\ 0..(0 - 1) = {}
    BY DEF ToSet
<1>5. Expected(client.phase, client.open, client.used)
    BY <1>2, <1>3, <1>4 DEF Expected, OpenBlocks
<1>6. Reads(client, outq, client)
    BY <1>2, ReadsNothing
<1>7. QED
    BY <1>5, <1>6 DEF Coupled

LEMMA CoupledPreserved == IInv /\ Coupled /\ [Next]_vars => Coupled'
<1>1. SUFFICES ASSUME IInv, Coupled, [Next]_vars, setup.orderly PROVE Coupled'
    <2>1. UNCHANGED setup \/ ~[Next]_vars
        BY DEF Next, vars
    <2>2. QED
        BY <1>1, <2>1 DEF Coupled
<1>2. CASE UNCHANGED vars
    <2>1. UNCHANGED <<setup, phase, sent, started, terminal, scalar, tools, next, outq, client>>
        BY <1>2 DEF vars, bridge, translator
    <2>2. PICK d : Reads(client, outq, d) /\ Expected(d.phase, d.open, d.used)
        BY <1>1 DEF Coupled
    <2>3. Expected(d.phase, d.open, d.used)'
        BY <2>1, <2>2 DEF Expected, OpenBlocks, Mode
    <2>4. Reads(client', outq', d)
        BY <2>1, <2>2
    <2>5. QED
        BY <2>3, <2>4 DEF Coupled
<1>3. CASE Next
    <2>1. UNCHANGED setup /\ (Yield \/ Translate \/ Upstream \/ Replay \/ Replayed \/ Over)
        BY <1>3 DEF Next
    <2>2. CASE Yield
        BY <1>1, <2>1, <2>2, YieldCoupled
    <2>3. CASE Translate
        <3>1. ASSUME NEW c \in Calls, DeltaToolCall(c) PROVE Coupled'
            BY <1>1, <2>1, <3>1, ToolCoupled
        <3>2. CASE DeltaScalar("think", "thinking")
            BY <1>1, <2>1, <3>2, ScalarCoupled
        <3>3. CASE DeltaScalar("text", "text")
            BY <1>1, <2>1, <3>3, ScalarCoupled
        <3>4. QED
            BY <1>1, <2>1, <2>3, <3>1, <3>2, <3>3, StartCoupled, SkipCoupled, TerminalCoupled, DoneCoupled DEF Translate
    <2>4. CASE Upstream
        BY <1>1, <2>1, <2>4, UpstreamCoupled
    <2>5. CASE Replay \/ Replayed
        BY <1>1, <2>1, <2>5, ReplayCoupled
    <2>6. CASE Over
        BY <1>2, <2>6 DEF Over
    <2>7. QED
        BY <2>1, <2>2, <2>3, <2>4, <2>5, <2>6
<1>4. QED
    BY <1>1, <1>2, <1>3

-----------------------------------------------------------------------------
(* What the client reads.                                                  *)

\* A legal event, once read, is a step of AnthropicStream.
LEMMA SameCardinality == ASSUME NEW S PROVE Protocol!Cardinality(S) = Cardinality(S)
BY Zenon DEF Protocol!Cardinality, Cardinality

LEMMA LegalIsStep == ASSUME NEW e, LegalEvent(client, e), client' = Read(client, e) PROVE Protocol!Next
<1>1. CASE e = Event("message_start") /\ client.phase = "idle"
    <2>1. client'.phase = "streaming" /\ client'.open = client.open /\ client'.used = client.used /\ client'.last = e
        BY <1>1 DEF Read, Event
    <2>2. Protocol!MessageStart
        BY <1>1, <2>1, Zenon DEF Protocol!MessageStart, Event
    <2>3. QED
        BY <2>2 DEF Protocol!Next
<1>2. ASSUME NEW k \in Kinds, client.phase = "streaming", e = BlockEvent("start", Cardinality(client.used), k),
             IF k = "tool_use" THEN \A b \in client.open : b[2] = "tool_use" ELSE client.open = {}
      PROVE  Protocol!Next
    <2> DEFINE i == Cardinality(client.used)
    <2>1. client' = [phase |-> client.phase, open |-> client.open \cup {<<i, k>>}, used |-> client.used \cup {i},
                     last |-> <<"start", i, k>>]
        BY <1>2 DEF Read, BlockEvent
    <2> HIDE DEF i
    <2>2. /\ client'.phase = client.phase /\ client'.open = client.open \cup {<<i, k>>}
          /\ client'.used = client.used \cup {i} /\ client'.last = <<"start", i, k>>
        BY <2>1
    <2>3. Protocol!BlockStart(k)
        BY <1>2, <2>2, SameCardinality, Zenon DEF Protocol!BlockStart, i
    <2>4. k \in Protocol!Kinds
        BY DEF Kinds, Protocol!Kinds
    <2>5. QED
        BY <2>3, <2>4, Zenon DEF Protocol!Next
<1>3. ASSUME NEW b \in client.open, client.phase = "streaming", e = BlockEvent("delta", b[1], b[2])
      PROVE  Protocol!Next
    <2>1. client' = [phase |-> client.phase, open |-> client.open, used |-> client.used,
                     last |-> <<"delta", b[1], b[2]>>]
        BY <1>3 DEF Read, BlockEvent
    <2>2. Protocol!BlockDelta(b)
        BY <1>3, <2>1 DEF Protocol!BlockDelta
    <2>3. QED
        BY <2>2, Zenon DEF Protocol!Next
<1>4. ASSUME NEW b \in client.open, client.phase = "streaming", e = BlockEvent("stop", b[1], ""),
             {d \in client.open : d[1] # b[1]} = client.open \ {b}
      PROVE  Protocol!Next
    <2> DEFINE left == {d \in client.open : d[1] # b[1]}
               stop == BlockEvent("stop", b[1], "")
    <2>1. /\ Read(client, stop) = [phase |-> client.phase, open |-> left, used |-> client.used,
                                  last |-> stop]
          /\ left = client.open \ {b} /\ e = stop
        BY <1>4, ReadStop
    <2> HIDE DEF left, stop
    <2>2. client'.phase = client.phase /\ client'.open = client.open \ {b} /\ client'.used = client.used /\ client'.last = e
        BY <2>1
    <2>3. Protocol!BlockStop(b)
        BY <1>4, <2>2, Zenon DEF Protocol!BlockStop, BlockEvent
    <2>4. QED
        BY <2>3, Zenon DEF Protocol!Next
<1>5. CASE e = Event("message_delta") /\ client.phase = "streaming" /\ client.open = {}
    <2>1. client'.phase = "stopping" /\ client'.open = client.open /\ client'.used = client.used /\ client'.last = e
        BY <1>5 DEF Read, Event
    <2>2. Protocol!MessageDelta
        BY <1>5, <2>1, Zenon DEF Protocol!MessageDelta, Event
    <2>3. QED
        BY <2>2 DEF Protocol!Next
<1>6. CASE e = Event("message_stop") /\ client.phase = "stopping"
    <2>1. client'.phase = "complete" /\ client'.open = client.open /\ client'.used = client.used /\ client'.last = e
        BY <1>6 DEF Read, Event
    <2>2. Protocol!MessageStop
        BY <1>6, <2>1, Zenon DEF Protocol!MessageStop, Event
    <2>3. QED
        BY <2>2 DEF Protocol!Next
<1>7. CASE e = Event("error") /\ client.phase \notin {"complete", "failed", "aborted"} /\ client.open = {}
    <2>1. client'.phase = "failed" /\ client'.open = client.open /\ client'.used = client.used /\ client'.last = e
        BY <1>7 DEF Read, Event
    <2>2. Protocol!Error
        BY <1>7, <2>1, Zenon DEF Protocol!Error, Event
    <2>3. QED
        BY <2>2 DEF Protocol!Next
<1>8. CASE e = Event("error") /\ client.phase \in {"complete", "failed"}
    <2>1. client'.phase = "aborted" /\ client'.open = client.open /\ client'.used = client.used /\ client'.last = e
        BY <1>8 DEF Read, Event
    <2>2. Protocol!LateError
        BY <1>8, <2>1, Zenon DEF Protocol!LateError, Event
    <2>3. QED
        BY <2>2 DEF Protocol!Next
<1>9. QED
    BY <1>1, <1>2, <1>3, <1>4, <1>5, <1>6, <1>7, <1>8, Zenon DEF LegalEvent

LEMMA ClientStep == IInv /\ Coupled /\ setup.orderly /\ [Next]_vars => [Protocol!Next]_Protocol!vars
<1>1. SUFFICES ASSUME IInv, Coupled, setup.orderly, [Next]_vars PROVE [Protocol!Next]_Protocol!vars
    OBVIOUS
<1>2. CASE Yield
    <2>1. outq # <<>> /\ client' = Read(client, Head(outq)) /\ outq \in Seq(AllEvents)
        BY <1>1, <1>2 DEF Yield, IInv, TypeOK, AllEvents
    <2>2. PICK d : Reads(client, outq, d)
        BY <1>1 DEF Coupled
    <2>3. LegalEvent(client, Head(outq))
        BY <2>1, <2>2, ReadsHead
    <2>4. QED
        BY <2>1, <2>3, LegalIsStep
<1>3. CASE UNCHANGED client
    BY <1>3 DEF Protocol!vars
<1>4. Yield \/ UNCHANGED client
    <2>1. UNCHANGED vars => UNCHANGED client
        BY DEF vars
    <2>2. Translate => UNCHANGED client
        BY DEF Translate, _emit_message_start, Skip, DeltaScalar, DeltaToolCall, _emit_terminal, _process_done
    <2>3. Upstream => UNCHANGED client
        BY DEF Upstream, Accept, Refuse, EOF, Drop, Receive
    <2>4. Replay \/ Replayed \/ Over => UNCHANGED client
        BY <2>1 DEF Replay, Replayed, Over
    <2>5. QED
        BY <1>1, <2>1, <2>2, <2>3, <2>4 DEF Next
<1>5. QED
    BY <1>2, <1>3, <1>4

\* However upstream's stream is cut into frames and wherever and however it stops, what the
\* client of an orderly upstream reads is a legal Anthropic stream (sse_translator.py), in
\* both modes.
THEOREM ClientReadsProtocol == Spec => ClientSpec
<1> DEFINE Inv == IInv /\ Coupled
<1>1. Init => Inv
    BY InitHolds, CoupledInit
<1>2. Inv /\ [Next]_vars => Inv'
    BY Preserved, CoupledPreserved
<1>3. Init => Protocol!Init
    <2>1. ASSUME Init PROVE client.phase = "idle" /\ client.open = {} /\ client.used = {}
        BY <2>1 DEF Init
    <2>2. ASSUME Init PROVE client.last = <<"none", 0, "">>
        <3> DEFINE l == <<"none", 0, "">>
        <3>1. client = [phase |-> "idle", open |-> {}, used |-> {}, last |-> l]
            BY <2>2, Zenon DEF Init
        <3> HIDE DEF l
        <3>2. client.last = l
            BY <3>1
        <3>3. QED
            BY <3>2 DEF l
    <2>3. QED
        BY <2>1, <2>2, Zenon DEF Protocol!Init
<1>4. Inv /\ [Next]_vars => [setup.orderly => Protocol!Next]_(Protocol!vars)
    BY ClientStep
<1> HIDE DEF Inv
<1>5. QED
    BY <1>1, <1>2, <1>3, <1>4, PTL DEF Spec, ClientSpec

\* A buffered request of an orderly upstream that has ended gave its client a whole message
\* or one error, except, and exactly, when its last capture was nothing but a torn frame
\* (bridge.py:442 takes it for complete, and its replay yields nothing).
THEOREM NotSilent == Spec => []NeverSilent
<1> DEFINE Inv == IInv /\ Coupled
<1>1. Init => Inv
    BY InitHolds, CoupledInit
<1>2. Inv /\ [Next]_vars => Inv'
    BY Preserved, CoupledPreserved
<1>3. Inv => NeverSilent
    <2>1. SUFFICES ASSUME Inv, setup.orderly, Mode = "buffered", phase = "ended", outq = <<>>
                   PROVE  IF sent = "torn" THEN client.phase = "idle" ELSE client.phase \in {"complete", "failed"}
        BY DEF NeverSilent
    <2>2. Expected(client.phase, client.open, client.used)
        BY <2>1, AtRest
    <2>3. QED
        BY <2>1, <2>2 DEF Expected
<1> HIDE DEF Inv
<1>4. QED
    BY <1>1, <1>2, <1>3, PTL DEF Spec
=============================================================================
