------------------------------- MODULE Files -------------------------------
(***************************************************************************)
(* What tmpfs promises about the contents of files: a file is a sequence   *)
(* of bytes, and nothing of what a file once held comes back.              *)
(*                                                                         *)
(* A write of "size" bytes at "offset" ends the file there: tmpfs_write    *)
(* resizes to offset + size whether that is more or less than before.      *)
(***************************************************************************)
EXTENDS Integers, Sequences

CONSTANTS MaxSize, Bytes

VARIABLE content            \* content[v]: the bytes of file v

Written(old, offset, size, byte) ==
    [i \in 1..(offset + size) |-> IF i > offset THEN byte
                                  ELSE IF i <= Len(old) THEN old[i] ELSE 0]

FilesInit == content = <<<<>>>>

\* New files, empty or as the boot archive has them; old ones are untouched.
Appear == /\ Len(content') > Len(content)
          /\ SubSeq(content', 1, Len(content)) = content

Write(v, offset, size, byte) ==
    content' = [content EXCEPT ![v] = Written(@, offset, size, byte)]

Truncate(v) == content' = [content EXCEPT ![v] = <<>>]

FilesNext == \/ Appear
             \/ \E v \in DOMAIN content :
                   \/ Truncate(v)
                   \/ \E o \in 0..MaxSize, b \in Bytes : \E n \in 0..(MaxSize - o) :
                         Write(v, o, n, b)

FilesSpec == FilesInit /\ [][FilesNext]_content
=============================================================================
