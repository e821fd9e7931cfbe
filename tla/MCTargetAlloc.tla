----------------------------- MODULE MCTargetAlloc -----------------------------
(* Two CPUs and an area of a few words, and sizes that are and are not whole     *)
(* words; the largest fills most of a partition.                                 *)
EXTENDS TargetAlloc

MCCpus == {0, 1}
MCSizes == {8, 11}
================================================================================
