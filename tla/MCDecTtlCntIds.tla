--------------------------- MODULE MCDecTtlCntIds ---------------------------
(***************************************************************************)
(* dec_ttl_cnt_ids records of up to two ids, each well formed, too short  *)
(* for its count, or with non-zero pad bytes, appended to a buffer with   *)
(* 0, 2 or 4 bytes of tailroom left.                                       *)
(***************************************************************************)
EXTENDS DecTtlCntIds

\* A record of n ids and ids_size bytes after the header.
Rec(n, size, z) == [n |-> n, idsSize |-> size, ids |-> [k \in 1..(size \div 2) |-> "id"], zero |-> z]

MCRequests ==
    {Rec(0, 0, TRUE), Rec(1, 8, TRUE), Rec(2, 8, TRUE), Rec(1, 0, TRUE), Rec(1, 8, FALSE)}

====
