--------------------------- MODULE MCImageBuilder ---------------------------
(* An instance for TLC of ImageBuilder: two images side by side, one of which *)
(* is wrapped, and a second batch.                                          *)
EXTENDS ImageBuilder

Three == <<"django", "flask", "sympy">>
Wrap == {"django"}

\* What goes wrong in the builds, whatever there is of the first image before,
\* and what goes wrong in the resets.
BuildFaults == {"blind", "docker", "die"}
ResetFaults == {{"lock"}, {"unread", "nowrite", "die"}}

Nothing == [i \in ToSet(Three) |-> "none"]
SomeSettings ==
    {[faults |-> BuildFaults, registry |-> [Nothing EXCEPT !["django"] = c]] : c \in {"none", "plain", "wrapped"}}
        \cup {[faults |-> f, registry |-> Nothing] : f \in ResetFaults}
=============================================================================
