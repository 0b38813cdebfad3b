---------------------------- MODULE MCCodexBridge ----------------------------
(* Instances for TLC of CodexBridge. *)
EXTENDS CodexBridge

CONSTANTS b1, b2, r1, r2

TwoBridges  == {b1, b2}
TwoRequests == {r1, r2}

\* A process for each request, or one for both.
Apart    == (r1 :> b1) @@ (r2 :> b2)
Together == (r1 :> b1) @@ (r2 :> b1)

\* What can happen to a grant, everywhere; and who does not heed the lock, where it
\* matters: between two processes, and for a token whose age nobody knows.
SomeSettings ==
    [home : {Apart, Together}, known : AllAges, faults : {{"down", "lost", "nowrite"}}]
    \cup [home : {Apart}, known : {"exp"}, faults : {{"cli"}}]
    \cup [home : {Apart}, known : {"stamp"}, faults : {{"nolock", "unread"}}]
    \cup [home : {Together}, known : {"none"}, faults : {{"cli", "nolock", "unread"}}]

UnknownAge == [home : {Together}, known : {"none"}, faults : {{}}]
=============================================================================
