----------------------------- MODULE MCFrameWalk -----------------------------
(* The instance of MCFrames, for the collector's walk.                      *)
EXTENDS FrameWalk

CONSTANTS a, b, c1

MCArity == [c \in {c1} |-> 1]
MCEntry == [c \in {c1} |-> 2]
MCEnv == [c \in {c1} |-> <<a>>]
=============================================================================
