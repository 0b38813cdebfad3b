------------------------ MODULE MCEvalOrchestrator ------------------------
(* Instances for TLC of EvalOrchestrator. *)
EXTENDS EvalOrchestrator

CONSTANTS i1, i2

TwoInstances   == {i1, i2}

\* One selection, or a process that resumes on a larger or a smaller one.
TwoAlways   == {TwoInstances}
Growing     == {{i1}, {i1, i2}}

HangFaults    == {"hang"}
RaiseFaults   == {"raise"}
TearFaults    == {"tear"}
RestartFaults == {"crash", "interrupt", "hang", "publish", "tear"}
LossFaults    == {"raise", "break", "write"}
==========================================================================
