-------------------------- MODULE AnthropicStream --------------------------
(***************************************************************************)
(* The protocol of an Anthropic /v1/messages event stream as its reader    *)
(* may rely on it, and as proxy/zbridge/sse_translator.py promises to      *)
(* produce it: one message_start, content blocks with consecutive indices, *)
(* a thinking or text block never open beside another block, deltas only   *)
(* for an open block of their kind, then one message_delta and one         *)
(* message_stop; or one error.  A bridge that hands a message on as it     *)
(* comes may add one error to either end, when its connection fails.       *)
(***************************************************************************)
EXTENDS Integers, FiniteSets

VARIABLES
    phase,      \* how far the message is
    open,       \* the open blocks, <<index, kind>>
    used,       \* the indices of all blocks so far
    last        \* the last event, <<name, index, kind>>

vars == <<phase, open, used, last>>

Kinds == {"thinking", "text", "tool_use"}

Init == /\ phase = "idle" /\ open = {} /\ used = {}
        /\ last = <<"none", 0, "">>

MessageStart ==
    /\ phase = "idle" /\ phase' = "streaming"
    /\ last' = <<"message_start", 0, "">>
    /\ UNCHANGED <<open, used>>

BlockStart(k) ==
    LET i == Cardinality(used) IN
    /\ phase = "streaming"
    /\ IF k = "tool_use" THEN \A b \in open : b[2] = "tool_use" ELSE open = {}
    /\ open' = open \cup {<<i, k>>} /\ used' = used \cup {i}
    /\ last' = <<"start", i, k>>
    /\ UNCHANGED phase

BlockDelta(b) ==
    /\ phase = "streaming" /\ b \in open
    /\ last' = <<"delta", b[1], b[2]>>
    /\ UNCHANGED <<phase, open, used>>

BlockStop(b) ==
    /\ phase = "streaming" /\ b \in open
    /\ open' = open \ {b}
    /\ last' = <<"stop", b[1], "">>
    /\ UNCHANGED <<phase, used>>

MessageDelta ==
    /\ phase = "streaming" /\ open = {} /\ phase' = "stopping"
    /\ last' = <<"message_delta", 0, "">>
    /\ UNCHANGED <<open, used>>

MessageStop ==
    /\ phase = "stopping" /\ phase' = "complete"
    /\ last' = <<"message_stop", 0, "">>
    /\ UNCHANGED <<open, used>>

Error ==
    /\ phase \notin {"complete", "failed", "aborted"} /\ open = {}
    /\ phase' = "failed"
    /\ last' = <<"error", 0, "">>
    /\ UNCHANGED <<open, used>>

LateError ==
    /\ phase \in {"complete", "failed"} /\ phase' = "aborted"
    /\ last' = <<"error", 0, "">>
    /\ UNCHANGED <<open, used>>

Next ==
    \/ MessageStart \/ MessageDelta \/ MessageStop \/ Error \/ LateError
    \/ \E k \in Kinds : BlockStart(k)
    \/ \E b \in open : BlockDelta(b) \/ BlockStop(b)

Spec == Init /\ [][Next]_vars
=============================================================================
