------------------------------- MODULE FrameWalk -------------------------------
(***************************************************************************)
(* The collector's walk over the frames of the stack, as build_active_root  *)
(* does it from the registers: each frame is found through NEXT_FP, which   *)
(* reads the second register saved in it.                                   *)
(***************************************************************************)
EXTENDS Frames

NextFp(f) == Get(mem, f + SizeReg, SizeReg)

\* The frame pointers visited within n steps; offset 0 and NO_PREV_FP end the
\* walk, and so does JUNK, after which anything may be visited.
Ends(f) == f \in {0, NO_PREV_FP, JUNK}

Visited ==
  LET walk[n \in 0 .. STKSEG_SIZE] ==
        IF n = 0 THEN {f \in {fp} : ~Ends(f)}
        ELSE walk[n - 1] \cup {f \in {NextFp(g) : g \in walk[n - 1]} : ~Ends(f)}
  IN  walk[Len(acts)]

\* The frames that are open, but the one at the bottom of an empty stack: its
\* frame pointer is 0.
OpenFrames == {hdr[i].at - FPS : i \in 2 .. Len(hdr)} \ {0}

(* The collector visits the open frames, all of them and nothing else: "1.  *)
(* Count frames and get each fp" (build_active_root), where "frame[1] is    *)
(* the last fp" (vm.h, at LOCAL).                                           *)
WalkFindsFrames == Visited = OpenFrames
=============================================================================
