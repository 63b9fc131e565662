------------------------------ MODULE MCPaging ------------------------------
(***************************************************************************)
(* Paging on a machine of 14 frames.  KMEM = 10 is not a multiple of the   *)
(* eight entries of a table, so the last identity table is shared with     *)
(* user pages; pages 16 and 17 need a table of their own.                  *)
(***************************************************************************)
EXTENDS Paging

\* A PC's map: low memory, a reserved area, memory from 1MB on, the BIOS.
PcMap == << [type |-> 1, base |-> 0,  len |-> 1],
            [type |-> 2, base |-> 1,  len |-> 1],
            [type |-> 1, base |-> 2,  len |-> 12],
            [type |-> 2, base |-> 15, len |-> 1] >>

PcRam == UNION {PcMap[i].base .. PcMap[i].base + PcMap[i].len - 1 :
                  i \in {j \in DOMAIN PcMap : PcMap[j].type = 1}}

\* Memory that was never written, and memory that reads as a table whose
\* second and fourth entries lead to kernel frame 5.
Blank == [j \in 0 .. E - 1 |-> None]
Dirty == [j \in 0 .. E - 1 |-> IF j \in {1, 3} THEN 5 ELSE None]

BlankOrDirty == {Blank, Dirty}
=============================================================================
