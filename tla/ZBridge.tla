------------------------------ MODULE ZBridge ------------------------------
(***************************************************************************)
(* One streaming request through the GLM bridge, proxy/zbridge: the        *)
(* translator from GLM chunks to Anthropic events (sse_translator.py) and  *)
(* the two ways bridge.py drives it.  "passthrough" translates each frame  *)
(* as it comes; "buffered" captures the whole upstream stream first, with  *)
(* retries, and then replays it.                                           *)
(*                                                                         *)
(* The translator is a generator: a handler's events go to outq and are    *)
(* read by the client one at a time before the next handler runs.          *)
(***************************************************************************)
EXTENDS Integers, SequencesExt

CONSTANTS
    Setups,         \* the bridges to consider: [mode, frames, faults, orderly]
    MaxFrames,      \* bound on the frames of one upstream stream
    Retries         \* ZB_STREAM_BUFFER_RETRIES

(* drop    the connection fails                                            *)
(* cut     the stream ends early without an error                          *)
(* torn    what ends ends inside a frame, behind the bytes of [DONE] or of *)
(*         "finish_reason"                                                 *)
(* http    upstream answers with an error status, or cannot be reached     *)
AllFaults == {"drop", "cut", "torn", "http"}

\* What a chunk holds, in the translator's order.  "null" is any field it yields nothing
\* for; "mention" is one more of them, whose bytes hold "finish_reason" or [DONE] though
\* the chunk finishes nothing ("finish_reason": null, or a text about [DONE]).
Items == {"think", "text", "finish", "done", "null", "mention"} \cup {"call0", "call1"}
Calls == {"call0", "call1"}
Silent == {"null", "mention"}

ASSUME BridgeAssumption ==
    /\ MaxFrames \in Nat /\ Retries \in Nat
    /\ \A s \in Setups : /\ s.mode \in {"buffered", "passthrough"}
                        /\ s.frames \subseteq Seq(Items \ {"done"}) \ {<<>>}
                        /\ s.faults \subseteq AllFaults
                        /\ s.orderly \in BOOLEAN

VARIABLES
    setup,      \* which of Setups this is
    \* the bridge
    phase,      \* connect, read, replay, ended
    attempt,    \* attempts to capture the stream
    buf,        \* frames captured by the current attempt
    \* upstream
    sent,       \* none, data, finished: how far this stream is; torn: only a torn frame came
    \* the translator
    frame,      \* items of the current frame still to be processed
    started, terminal, errored,
    scalar,     \* the open thinking or text block, [kind, idx]
    tools,      \* the open tool blocks in the order of their opening, <<call, idx>>
    next,       \* _next_index
    outq,       \* events yielded and not yet read
    \* the client
    client

bridge == <<phase, attempt, buf, sent>>
translator == <<started, terminal, errored, scalar, tools, next>>
vars == <<setup, bridge, frame, translator, outq, client>>

Mode == setup.mode      \* "buffered" or "passthrough"
Frames == setup.frames  \* the frames upstream may send: sequences of items
Faults == setup.faults

NoScalar == [kind |-> "none", idx |-> -1]
Done == <<"done">>
Torn == <<"torn">>      \* the first bytes of a frame: no frame to the translator

\* Upstream ends the message with f; f adds something to the message.
Finished(f) == f = Done \/ "finish" \in ToSet(f)
Adds(f) == ToSet(f) \cap (Items \ (Silent \cup {"done"})) # {}

Init ==
    /\ setup \in Setups
    /\ phase = "connect" /\ attempt = 0 /\ buf = <<>> /\ sent = "none"
    /\ frame = <<>> /\ outq = <<>>
    /\ started = FALSE /\ terminal = FALSE /\ errored = FALSE
    /\ scalar = NoScalar /\ tools = <<>> /\ next = 0
    /\ client = [phase |-> "idle", open |-> {}, used |-> {}, last |-> <<"none", 0, "">>]

-----------------------------------------------------------------------------
(* The events, and a client that believes each of them.                    *)

Event(name) == <<name, 0, "">>
BlockEvent(name, i, k) == <<name, i, k>>

Read(c, e) ==
    [phase  |-> CASE e[1] = "message_start" -> "streaming"
                  [] e[1] = "message_delta" -> "stopping"
                  [] e[1] = "message_stop"  -> "complete"
                  [] e[1] = "error"         -> IF c.phase \in {"complete", "failed"}
                                               THEN "aborted" ELSE "failed"
                  [] OTHER                  -> c.phase,
     open   |-> CASE e[1] = "start" -> c.open \cup {<<e[2], e[3]>>}
                  [] e[1] = "stop"  -> {b \in c.open : b[1] # e[2]}
                  [] OTHER          -> c.open,
     used   |-> IF e[1] = "start" THEN c.used \cup {e[2]} ELSE c.used,
     last   |-> e]

Yield ==
    /\ outq # <<>>
    /\ client' = Read(client, Head(outq))
    /\ outq' = Tail(outq)
    /\ UNCHANGED <<bridge, frame, translator>>

-----------------------------------------------------------------------------
(* The translator.  Every handler runs when its predecessor's events are   *)
(* read; Item(x) takes the next item of the frame.                         *)

Item(x) == outq = <<>> /\ frame # <<>> /\ Head(frame) = x

_close_current_scalar ==
    IF scalar = NoScalar THEN <<>> ELSE <<BlockEvent("stop", scalar.idx, "")>>

_close_all_open_tools ==
    [j \in DOMAIN tools |-> BlockEvent("stop", tools[j][2], "")]

_close_all_open_blocks == _close_current_scalar \o _close_all_open_tools

\* _process_data opens the message on the first chunk, whatever it holds.
_emit_message_start ==
    /\ outq = <<>> /\ frame # <<>> /\ frame # Done /\ ~started
    /\ outq' = <<Event("message_start")>>
    /\ started' = TRUE
    /\ UNCHANGED <<bridge, frame, terminal, errored, scalar, tools, next, client>>

\* A field of the chunk that yields nothing.
Skip ==
    /\ (Item("null") \/ Item("mention")) /\ started
    /\ frame' = Tail(frame)
    /\ UNCHANGED <<bridge, started, terminal, errored, scalar, tools, next, outq, client>>

\* _delta_thinking and _delta_text.
DeltaScalar(item, kind) ==
    /\ Item(item) /\ started
    /\ frame' = Tail(frame)
    /\ tools' = <<>>
    /\ IF scalar.kind = kind
       THEN /\ outq' = _close_all_open_tools \o <<BlockEvent("delta", scalar.idx, kind)>>
            /\ UNCHANGED <<scalar, next>>
       ELSE /\ outq' = _close_all_open_tools \o _close_current_scalar
                       \o <<BlockEvent("start", next, kind), BlockEvent("delta", next, kind)>>
            /\ scalar' = [kind |-> kind, idx |-> next]
            /\ next' = next + 1
    /\ UNCHANGED <<bridge, started, terminal, errored, client>>

\* _delta_tool_calls for one call: its first piece opens the block.
DeltaToolCall(call) ==
    /\ Item(call) /\ started
    /\ frame' = Tail(frame)
    /\ scalar' = NoScalar
    /\ LET mine == {t \in ToSet(tools) : t[1] = call}
           i    == IF mine = {} THEN next ELSE (CHOOSE t \in mine : TRUE)[2]
       IN  /\ outq' = _close_current_scalar
                      \o (IF mine = {} THEN <<BlockEvent("start", i, "tool_use")>> ELSE <<>>)
                      \o <<BlockEvent("delta", i, "tool_use")>>
           /\ tools' = IF mine = {} THEN Append(tools, <<call, i>>) ELSE tools
           /\ next'  = IF mine = {} THEN next + 1 ELSE next
    /\ UNCHANGED <<bridge, started, terminal, errored, client>>

Ending == _close_all_open_blocks \o <<Event("message_delta"), Event("message_stop")>>

\* The rest of the chunk is dropped.
_emit_terminal ==
    /\ Item("finish") /\ started
    /\ frame' = <<>>
    /\ outq' = Ending
    /\ scalar' = NoScalar /\ tools' = <<>> /\ terminal' = TRUE
    /\ UNCHANGED <<bridge, started, errored, next, client>>

\* Faulty: the flag that a terminal was sent is not looked at.
Mutant_process_done ==
    /\ Item("done")
    /\ frame' = <<>>
    /\ outq' = Ending
    /\ scalar' = NoScalar /\ tools' = <<>> /\ terminal' = TRUE
    /\ UNCHANGED <<bridge, started, errored, next, client>>

\* [DONE]: a terminal is made up when none was sent (_synthesize_terminal).
_process_done ==
    /\ Item("done")
    /\ frame' = <<>>
    /\ IF terminal
       THEN UNCHANGED <<outq, scalar, tools, terminal>>
       ELSE /\ outq' = Ending
            /\ scalar' = NoScalar /\ tools' = <<>> /\ terminal' = TRUE
    /\ UNCHANGED <<bridge, started, errored, next, client>>

\* Faulty: a message that broke off is ended as if it were whole.
Mutant_closing == IF terminal \/ errored \/ ~started THEN <<>> ELSE Ending

\* What close() yields: nothing after a terminal or before the first chunk.
closing == IF terminal \/ errored \/ ~started THEN <<>>
           ELSE _close_all_open_blocks \o <<Event("error")>>

close ==
    /\ errored' = (errored \/ (started /\ ~terminal))
    /\ scalar' = NoScalar /\ tools' = <<>>
    /\ UNCHANGED <<started, terminal, next>>

-----------------------------------------------------------------------------
(* The bridge.                                                             *)

Idle == outq = <<>> /\ frame = <<>>

\* The request to upstream is answered with 2xx.
Accept ==
    /\ phase = "connect" /\ Idle
    /\ phase' = "read" /\ buf' = <<>> /\ sent' = "none"
    /\ UNCHANGED <<attempt, frame, translator, outq, client>>

\* Faulty: one attempt too many.
Mutant_Again(n) ==
    IF n <= Retries + 1
    THEN phase' = "connect" /\ attempt' = n /\ UNCHANGED outq
    ELSE phase' = "ended" /\ attempt' = n /\ outq' = <<Event("error")>>

\* The test of the capture's loop, with n attempts counted.  The error frame is the
\* only thing the client of a buffered request that gives up ever reads.
Again(n) ==
    IF n <= Retries
    THEN phase' = "connect" /\ attempt' = n /\ UNCHANGED outq
    ELSE phase' = "ended" /\ attempt' = n /\ outq' = <<Event("error")>>

GiveUp == phase' = "ended" /\ outq' = <<Event("error")>> /\ UNCHANGED attempt

\* An error status that is worth another attempt is counted if there is one left.
RetryStatus == Mode = "buffered" /\ attempt < Retries /\ Again(attempt + 1)

\* Faulty: a failed connection is not counted.
Mutant_RetryDrop == IF Mode = "buffered" THEN Again(attempt) ELSE GiveUp

\* A failed connection, or a capture that looks unfinished, is always counted.
RetryDrop == IF Mode = "buffered" THEN Again(attempt + 1) ELSE GiveUp

\* An error status, retryable or not, or no connection.
Refuse ==
    /\ phase = "connect" /\ Idle /\ "http" \in Faults
    /\ RetryStatus \/ RetryDrop \/ GiveUp
    /\ UNCHANGED <<buf, sent, frame, translator, client>>

\* A frame arrives: kept, or translated at once.  An orderly upstream begins with a
\* chunk and adds nothing to a message it has finished; the bridge checks neither.
Receive(f) ==
    /\ phase = "read" /\ Idle /\ Len(buf) < MaxFrames
    /\ setup.orderly => (f = Done => sent # "none") /\ (Adds(f) => sent # "finished")
    /\ sent' = IF Finished(f) \/ sent = "finished" THEN "finished" ELSE "data"
    /\ buf' = Append(buf, f)
    /\ frame' = IF Mode = "passthrough" THEN f ELSE <<>>
    /\ UNCHANGED <<phase, attempt, translator, outq, client>>

\* Faulty: only the end of the stream is searched.
Mutant_saw_terminal(b) ==
    b # <<>> /\ {"done", "finish", "mention", "torn"} \cap ToSet(Last(b)) # {}

\* b"[DONE]" in buf or b'"finish_reason"' in buf: the bytes, whatever they say.
saw_terminal(b) ==
    \E j \in DOMAIN b : {"done", "finish", "mention", "torn"} \cap ToSet(b[j]) # {}

\* Faulty: a capture that looks unfinished is replayed once the attempts are used up.
Mutant_Captured ==
    IF saw_terminal(buf') \/ attempt = Retries
    THEN phase' = "replay" /\ UNCHANGED <<attempt, outq>> ELSE RetryDrop

\* The captured stream is replayed if it looks finished.
Captured ==
    IF saw_terminal(buf') THEN phase' = "replay" /\ UNCHANGED <<attempt, outq>> ELSE RetryDrop

\* The stream may break off inside a frame.
Tear ==
    \/ UNCHANGED <<buf, sent>>
    \/ /\ "torn" \in Faults
       /\ buf' = Append(buf, Torn)
       /\ sent' = IF sent = "none" THEN "torn" ELSE sent

\* The upstream stream ends: after its last frame, or early.
EOF ==
    /\ phase = "read" /\ Idle /\ Tear
    /\ sent = "finished" \/ "cut" \in Faults
    /\ IF Mode = "buffered"
       THEN Captured /\ UNCHANGED translator
       ELSE /\ outq' = closing /\ close
            /\ phase' = "ended" /\ UNCHANGED attempt
    /\ UNCHANGED <<frame, client>>

\* httpx.HTTPError: the passthrough generator closes the translator and then
\* yields an error frame of its own.
Drop ==
    /\ phase = "read" /\ Idle /\ "drop" \in Faults /\ Tear
    /\ IF Mode = "buffered"
       THEN Captured /\ UNCHANGED translator
       ELSE /\ outq' = Append(closing, Event("error")) /\ close
            /\ phase' = "ended" /\ UNCHANGED attempt
    /\ UNCHANGED <<frame, client>>

\* translator.feed(buffered), frame by frame.
Replay ==
    /\ phase = "replay" /\ Idle /\ buf # <<>>
    /\ frame' = IF Head(buf) = Torn THEN <<>> ELSE Head(buf)
    /\ buf' = Tail(buf)
    /\ UNCHANGED <<phase, attempt, sent, translator, outq, client>>

Replayed ==
    /\ phase = "replay" /\ Idle /\ buf = <<>>
    /\ outq' = closing /\ close
    /\ phase' = "ended"
    /\ UNCHANGED <<attempt, buf, sent, frame, client>>

\* The response is complete.
Over == phase = "ended" /\ outq = <<>> /\ UNCHANGED vars

Translate ==
    \/ _emit_message_start \/ Skip \/ DeltaScalar("think", "thinking") \/ DeltaScalar("text", "text")
    \/ \E c \in Calls : DeltaToolCall(c)
    \/ _emit_terminal \/ _process_done

Upstream == Accept \/ Refuse \/ EOF \/ Drop \/ \E f \in Frames \cup {Done} : Receive(f)

Next == (Yield \/ Translate \/ Upstream \/ Replay \/ Replayed \/ Over) /\ UNCHANGED setup

Spec == Init /\ [][Next]_vars

\* The client reads, the handlers run, and upstream answers, sends or fails within
\* the read timeout; MaxFrames makes its stream finite.
FairSpec == /\ Spec
            /\ WF_vars((Yield \/ Translate \/ Replay \/ Replayed) /\ UNCHANGED setup)
            /\ WF_vars(Upstream /\ UNCHANGED setup)

-----------------------------------------------------------------------------
(* Properties.                                                             *)

Events == {"message_start", "start", "delta", "stop", "message_delta", "message_stop", "error"}
Kinds == {"thinking", "text", "tool_use"}

TypeOK ==
    /\ setup \in Setups
    /\ phase \in {"connect", "read", "replay", "ended"}
    /\ attempt \in 0..(Retries + 1) /\ (attempt > Retries => phase = "ended")
    /\ buf \in Seq(Frames \cup {Done, Torn}) /\ sent \in {"none", "torn", "data", "finished"}
    /\ frame \in Seq(Items \ {"done"}) \cup {Done}
    /\ started \in BOOLEAN /\ terminal \in BOOLEAN /\ errored \in BOOLEAN
    /\ scalar \in [kind : {"none", "thinking", "text"}, idx : -1..next]
    /\ tools \in Seq(Calls \X Nat) /\ next \in Nat
    /\ outq \in Seq(Events \X Int \X (Kinds \cup {""}))

\* What the client of an orderly upstream reads is a legal Anthropic stream
\* (sse_translator.py): blocks are numbered, opened and closed in step, and nothing
\* follows message_stop or an error but the error of a connection that failed.
Protocol == INSTANCE AnthropicStream WITH
    phase <- client.phase, open <- client.open, used <- client.used, last <- client.last
ClientSpec == Protocol!Init /\ [][setup.orderly => Protocol!Next]_(Protocol!vars)

\* "Capture the FULL GLM SSE stream" (bridge.py:379), with a substring search for its end
\* (bridge.py:437-442): a capture that upstream finished is never asked for again, and
\* the client takes a message for complete only if upstream finished it, though captures
\* that only look finished are replayed too.
FinishedOnce ==
    /\ phase = "connect" => sent # "finished"
    /\ client.phase = "complete" => sent = "finished"

\* A buffered request whose response has ended gave its client a whole message or one
\* error.  The one exception is a capture of nothing but a torn frame: bridge.py:442
\* takes it for finished, and its replay yields nothing.
NeverSilent ==
    setup.orderly /\ Mode = "buffered" /\ phase = "ended" /\ outq = <<>> =>
        IF sent = "torn" THEN client.phase = "idle" ELSE client.phase \in {"complete", "failed"}

\* Every request ends.
RequestEnds == <>(phase = "ended" /\ outq = <<>>)

-----------------------------------------------------------------------------
(* The inductive invariant.                                                *)

\* The translator has begun a message, or is about to.
Begun == started \/ (frame # <<>> /\ frame # Done)

\* Before anything is translated.
Fresh ==
    phase = "connect" \/ (phase = "read" /\ Mode = "buffered") =>
        /\ ~started /\ ~terminal /\ frame = <<>> /\ outq = <<>>
        /\ client.phase = "idle" /\ client.open = {} /\ client.used = {}
        /\ scalar = NoScalar /\ tools = <<>> /\ next = 0

\* The frames of one upstream stream, of which some may have been replayed.
StreamShape ==
    /\ phase \in {"read", "replay"} =>
         \A j \in DOMAIN buf :
            /\ Finished(buf[j]) => sent = "finished"
            /\ buf[j] = Torn => j = Len(buf) /\ phase = "replay"
    /\ phase = "connect" => sent # "finished"
    /\ phase = "read" => sent # "torn" /\ (sent = "none" <=> buf = <<>>)
    /\ phase = "read" /\ sent = "finished" => \E j \in DOMAIN buf : Finished(buf[j])
    /\ phase = "replay" => Mode = "buffered" /\ sent # "none"
    /\ phase = "replay" /\ sent = "torn" => buf \in {<<>>, <<Torn>>}
    /\ sent = "torn" => phase \in {"replay", "ended"}

\* An orderly stream begins with a chunk, and nothing is added once it is finished.
InOrder ==
    setup.orderly =>
        /\ phase \in {"read", "replay"} =>
             \A j \in DOMAIN buf : Finished(buf[j]) =>
                \A k \in DOMAIN buf : k > j => ~Adds(buf[k])
        /\ phase = "read" /\ buf # <<>> => Head(buf) # Done

\* What the translator has seen of it.
Translated ==
    /\ terminal \/ Finished(frame) => sent = "finished"
    /\ phase = "ended" => frame = <<>>
    /\ phase # "ended" => ~errored
    /\ phase = "replay" /\ sent = "torn" => ~started /\ ~terminal /\ frame = <<>>

TranslatedInOrder ==
    setup.orderly =>
        /\ frame = Done \/ terminal => started
        /\ ~started => scalar = NoScalar /\ tools = <<>>
        /\ terminal => ~Adds(frame)
        /\ phase = "read" /\ Mode = "passthrough" /\ sent # "none" => Begun
        /\ phase = "replay" =>
             /\ terminal \/ Finished(frame) => \A k \in DOMAIN buf : ~Adds(buf[k])
             /\ sent # "torn" => Begun \/ (buf # <<>> /\ Head(buf) \notin {Done, Torn})

\* Thinking or text is never open beside a tool block; blocks have their own numbers.
BlocksApart ==
    /\ scalar = NoScalar \/ (scalar.kind # "none" /\ scalar.idx \in 0..(next - 1) /\ tools = <<>>)
    /\ \A j \in DOMAIN tools : /\ tools[j][2] < next
                             /\ \A k \in DOMAIN tools : tools[j][2] = tools[k][2] => j = k

\* A message is complete, or about to be, only if upstream finished its stream.
CompleteIsTrue ==
    client.phase = "complete" \/ (\E e \in ToSet(outq) : e[1] = "message_stop") =>
        sent = "finished"

IInv == /\ TypeOK /\ Fresh /\ StreamShape /\ InOrder
        /\ Translated /\ TranslatedInOrder /\ BlocksApart /\ CompleteIsTrue

\* Where the client is once it has read what is waiting for it.
OpenBlocks == (IF scalar = NoScalar THEN {} ELSE {<<scalar.idx, scalar.kind>>})
              \cup {<<t[2], "tool_use">> : t \in ToSet(tools)}

Expected(ph, open, used) ==
    IF phase = "ended"
    THEN Mode = "buffered" => IF sent = "torn" THEN ph = "idle" ELSE ph \in {"complete", "failed"}
    ELSE /\ ph = IF terminal THEN "complete" ELSE IF started THEN "streaming" ELSE "idle"
         /\ open = OpenBlocks /\ used = 0..(next - 1)
=============================================================================
