---------------------------- MODULE MCGpuLaunch ----------------------------
(***************************************************************************)
(* Values for the TLC run of GpuLaunch.                                    *)
(***************************************************************************)
EXTENDS GpuLaunch, TLC

\* The shape of the network, which has kernels of its own; another shape with
\* n = 512, which generates its matrices in another way; and a smaller one.
MCShapes == { [n |-> 512, b |-> 16, r |-> 8],
              [n |-> 512, b |-> 8,  r |-> 4],
              [n |-> 128, b |-> 16, r |-> 8] }

\* Nothing tells one job from another but their shape, and all have one.
JobSymmetry == Permutations(Jobs)
=============================================================================
