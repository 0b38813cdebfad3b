--------------------------- MODULE MCVerdictStore ---------------------------
(* Instances for TLC of VerdictStore. *)
EXTENDS VerdictStore

CONSTANTS q1, q2

Both == {"rubric", "quality"}

\* Two runs side by side, one of which may have no patch, and one run that can be left
\* half judged.  Three passes, two for the largest of them.
SmallTasks ==
    [runs : {2}, items : {{q1}}, channel : {"rubric"}, patched : {{1, 2}}, passes : {3}]
    \cup [runs : {2}, items : {{q1}}, channel : {"quality"}, patched : {{1, 2}}, passes : {2}]
    \cup [runs : {2}, items : {{q1}}, channel : {"quality"}, patched : {{1}}, passes : {3}]
    \cup [runs : {1}, items : {{q1, q2}}, channel : Both, patched : {{1}}, passes : {3}]

OneRubric ==
    [runs : {1}, items : {{q1}}, channel : {"rubric"}, patched : {{1}}, passes : {2}]

EveryFault == AllFaults
NoFaults   == {}
=============================================================================
