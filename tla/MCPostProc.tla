----------------------------- MODULE MCPostProc -----------------------------
(* Two frames for two pictures: of up to two images for an application     *)
(* that waits, of one for an application that does not; and for three      *)
(* reprocessed pictures of an application that does not wait, where the    *)
(* reprocess channel may be replaced with frames on their way.             *)
EXTENDS PostProc
CONSTANTS f1, f2
TwoFrames == {f1, f2}
AllUses == [kind : {"jpeg", "reproc", "raw", "yuv"}, patient : {TRUE}, images : {2}]
             \cup [kind : {"jpeg", "reproc", "raw", "yuv"}, patient : {FALSE}, images : {1}]
Reprocessing == [kind : {"reproc"}, patient : {FALSE}, images : {1}]
=============================================================================
