-------------------------------- MODULE MCSftp --------------------------------
(* Local files of no, of one and of more chunks than are transferred in     *)
(* parallel; of those that are cut short, one yields nothing, one the first *)
(* chunk, and one the first chunk and then an error; one cannot be read at  *)
(* all, and one not even be opened.                                         *)
EXTENDS SftpChannel

File(n, k, e, o) == [size |-> n, readable |-> k, unreadable |-> e, opens |-> o]

WholeFiles == {File(n, n, FALSE, TRUE) : n \in FileSizes}

MCLocalFiles ==
    WholeFiles \union
    {File(3, 0, FALSE, TRUE), File(3, 1, FALSE, TRUE), File(3, 1, TRUE, TRUE),
     File(0, 0, TRUE, TRUE), File(0, 0, FALSE, FALSE)}
===============================================================================
