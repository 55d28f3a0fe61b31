------------------------------- MODULE MC_SSM -------------------------------
(***************************************************************************)
(* SSM on a string space of two chunks.  Header, alignment, the slack of a *)
(* split and the relation between ChunkSize and SizeMod are the code's (64 *)
(* bit build); the chunks are scaled down to 72 bytes from 65520, so the   *)
(* sizes wrap at 88 instead of 65536.                                      *)
(***************************************************************************)
EXTENDS SSM

\* Lengths that need 16 and 32 of the 48 bytes a fresh chunk has.
MCTexts == {"short", "medium"}
MCBytes == [t \in MCTexts |-> IF t = "short" THEN 9 ELSE 30]
=============================================================================
