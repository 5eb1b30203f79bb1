---------------------------- MODULE MCGsControl ----------------------------
(* The instance of GsControl for TLC.                                      *)
EXTENDS GsControl

T(p, s1, s2, j, b) ==
  [prop_seg |-> p, phase_seg1 |-> s1, phase_seg2 |-> s2, sjw |-> j, brp |-> b]

(* The longest first segment that is stored as it is, the longest that the *)
(* device says it can do, a second segment that is too long, and a sum     *)
(* that wraps to an admissible one.                                        *)
MCTimings == {T(127, 128, 128, 128, 512), T(128, 128, 2, 1, 1), T(1, 1, 129, 1, 1),
              T(1023, 4, 2, 1, 4)}

(* The longest, one without a jump width, and one that is too long.        *)
MCDataTimings == {T(0, 32, 16, 16, 32), T(1, 1, 1, 0, 1), T(1, 32, 1, 1, 1)}

MCModes == {{}, {"LISTEN_ONLY", "LOOP_BACK"}, {"LISTEN_ONLY", "FD", "HW_TIMESTAMP"},
            {"LOOP_BACK", "ONE_SHOT", "FD", "PAD_PKTS"}}
============================================================================
