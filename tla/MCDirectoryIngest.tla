------------------------ MODULE MCDirectoryIngest ------------------------
(* A directory of two files and a third of unknown type, and a batch of    *)
(* four documents that names one twice and has one of unknown type, for    *)
(* two permits.                                                            *)
EXTENDS DirectoryIngest, TLC

CONSTANTS none

MCName == {"a.md", "b.md", "c.bin"}
MCBatch ==
  <<[name |-> "a.md", version |-> 1], [name |-> "c.bin", version |-> 1],
    [name |-> "b.md", version |-> 2], [name |-> "a.md", version |-> 2]>>
==========================================================================
