------------------------------ MODULE MCUpload ------------------------------
(* Instances of Upload for TLC. *)
EXTENDS Upload

\* The source keeps its size, or loses or gains a byte.
MCLengths == {Size - 1, Size, Size + 1}
\* The source keeps its size.
MCSameLength == {Size}
=============================================================================
