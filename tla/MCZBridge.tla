------------------------------ MODULE MCZBridge ------------------------------
(* Instances for TLC of ZBridge. *)
EXTENDS ZBridge

\* Reasoning, text, two parallel tool calls in every order, and the ways to finish.
RichFrames == {<<"think">>, <<"text">>, <<"think", "text">>, <<"text", "call0">>,
               <<"call0">>, <<"call1">>, <<"call0", "call1">>, <<"finish">>, <<"text", "finish">>}
\* Chunks that say nothing, and chunks that speak of an end without being one.
PlainFrames == {<<"null">>, <<"mention">>, <<"mention", "text">>, <<"call0">>, <<"finish">>}

Bridge(mode, frames, faults) == [mode |-> mode, frames |-> frames, faults |-> faults, orderly |-> TRUE]

Bridges ==
    {Bridge("buffered", PlainFrames, AllFaults),
     Bridge("passthrough", RichFrames, {"cut", "http"}),
     Bridge("passthrough", PlainFrames, {"drop", "torn"}),
     [Bridge("buffered", PlainFrames, {"drop"}) EXCEPT !.orderly = FALSE],
     [Bridge("passthrough", PlainFrames, {"drop"}) EXCEPT !.orderly = FALSE]}
==============================================================================
