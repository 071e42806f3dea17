--------------------------- MODULE MCGraphSchedule ---------------------------
(* The queueing modes of GraphSchedule in one state space: the mode of the    *)
(* graph is chosen in the initial state.  In AUTO mode the graph has the      *)
(* constants of the configuration, in MANUAL mode its leaf nodes have         *)
(* callbacks, too.  The leaf nodes of a graph are interchangeable, and so are *)
(* the threads of the application.                                            *)
EXTENDS GraphSchedule, TLC

VARIABLE mode
modesVars == <<vars, mode>>

Manual == INSTANCE GraphSchedule WITH
    Mode <- "MANUAL", MaxRequest <- 3, CallbackAtLeaf <- TRUE

ModesInit == Init /\ mode \in {"AUTO", "MANUAL"}

ModesNext ==
    /\ UNCHANGED mode
    /\ \/ mode = "AUTO" /\ Next
       \/ mode = "MANUAL" /\ Manual!Next

ModesSpec == ModesInit /\ [][ModesNext]_modesVars

AppLeafSymmetry == Permutations(Leaf) \cup Permutations(App)

\* StateReported, of the graph whose leaf nodes do not abandon it: one that does
\* is reported as completed (see AbandonReported).
StateReportedInAuto == mode = "AUTO" => StateReported

\* The inductive invariant of either mode: beside the invariants above that the
\* leaf nodes that completed are those of the present run (LeavesCounted), and
\* that in AUTO mode there is one run for each reference (RunsMatchReferences).
InductiveInEachMode == IF mode = "AUTO" THEN IInv ELSE Manual!IInv
==============================================================================
