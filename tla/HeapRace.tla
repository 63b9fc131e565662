------------------------------ MODULE HeapRace ------------------------------
(***************************************************************************)
(* malloc and free of kernel/malloc.c called by the thread and, between    *)
(* its steps, by the network interrupt: neISR allocates (neRecv, arpRecv,  *)
(* arpReply, ethSend) and frees (del of its send queue) on the same list,  *)
(* and malloc.c neither masks interrupts nor takes a lock.                 *)
(*                                                                         *)
(* The thread's calls are cut wherever a local pointer lives across an     *)
(* interrupt: at every node that the walks of find and of add (for a fresh *)
(* page) stand on, between unite's look at the successor and the merge,    *)
(* and between del, state = BUSY, state = FREE and add.  The stores of one *)
(* step are together, and none of their interior is lost: an interrupt     *)
(* amid the stores of del, add, unite or a split belongs to the point      *)
(* where that step starts.  The handler is not interrupted itself (IRQ 3   *)
(* is in service), so its calls are those of Malloc.  After an interrupt   *)
(* at a point of HalfDone nothing is followed any more.                    *)
(***************************************************************************)
EXTENDS Malloc

VARIABLES
    saved,      \* the interrupted context, or NoContext outside the handler
    torn        \* history: an interrupt came at a point of HalfDone

allvars == <<vars, saved, torn>>

Context == [pc |-> pc, req |-> req, mm |-> mm, nextm |-> nextm]

NoContext == [pc |-> "none", req |-> 0, mm |-> NULL, nextm |-> NULL]

InIsr == saved # NoContext

\* The points of malloc and free at which the thread goes on with what it
\* has read of a free block, or writes the list: inside find, add, del, unite
\* and clean, and from find's return to state = BUSY.
HalfDone == {"find", "refind", "found", "taken", "clean", "unite", "adding", "uniting", "freeing"}

RaceInit == Init /\ saved = NoContext /\ torn = FALSE

-----------------------------------------------------------------------------
\* The thread calls malloc(n), and find starts at mmList ...
CallMalloc(n) ==
    /\ pc = "idle"
    /\ mm' = mmList
    /\ req' = n
    /\ pc' = "find"
    /\ UNCHANGED <<hdr, mmList, mmap, nextm, absorbed, held>>

\* ... and again after clean and after a fresh page.
Refind ==
    /\ pc = "grow"
    /\ mm' = mmList
    /\ pc' = "refind"
    /\ UNCHANGED <<hdr, mmList, mmap, req, nextm, absorbed, held>>

\* find: the block ml stands on is too small.
FindNext ==
    /\ pc \in {"find", "refind"}
    /\ mm # NULL
    /\ hdr[mm].size < Round4(req)
    /\ mm' = hdr[mm].next
    /\ UNCHANGED <<hdr, mmList, mmap, pc, req, nextm, absorbed, held>>

\* find has returned mm, del has not been called.
FindHit ==
    /\ pc \in {"find", "refind"}
    /\ mm # NULL
    /\ hdr[mm].size >= Round4(req)
    /\ pc' = "found"
    /\ UNCHANGED <<hdr, mmList, mmap, req, mm, nextm, absorbed, held>>

\* find has returned NULL: into clean ...
FindMiss ==
    /\ pc = "find"
    /\ mm = NULL
    /\ mm' = hdr[mmList].next
    /\ pc' = "clean"
    /\ UNCHANGED <<hdr, mmList, mmap, req, nextm, absorbed, held>>

\* ... or, the second time, for a page.
RefindMiss ==
    /\ pc = "refind"
    /\ mm = NULL
    /\ pc' = "full"
    /\ UNCHANGED <<hdr, mmList, mmap, req, mm, nextm, absorbed, held>>

\* del(mm): off the list, its state still FREE.
Take ==
    /\ pc = "found"
    /\ hdr' = del(hdr, mm)
    /\ pc' = "taken"
    /\ UNCHANGED <<mmList, mmap, req, mm, nextm, absorbed, held>>

\* The rest of malloc: split, state = BUSY, return.
Return == pc = "taken" /\ HandOut(hdr, mm, req)

\* Seeded fault: get_free_page does not mark the frame as taken.
GetPage_Unmarked ==
    /\ pc = "full"
    /\ FreeFrames # {}
    /\ mm' = Min(FreeFrames) * PAGE
    /\ pc' = "page"
    /\ UNCHANGED <<hdr, mmList, mmap, req, nextm, absorbed, held>>

\* get_free_page has returned; the page is not yet on the list.  (Without a
\* free frame the thread stays here for ever.)
GetPage ==
    /\ pc = "full"
    /\ FreeFrames # {}
    /\ mmap' = mmap \cup {Min(FreeFrames)}
    /\ mm' = Min(FreeFrames) * PAGE
    /\ pc' = "page"
    /\ UNCHANGED <<hdr, mmList, req, nextm, absorbed, held>>

\* add is called for the page and passes the sentinel, whose size is 0.
AddCall ==
    /\ pc = "page"
    /\ nextm' = mmList
    /\ pc' = "adding"
    /\ UNCHANGED <<hdr, mmList, mmap, req, mm, absorbed, held>>

\* The recursion of add stops behind the block nextm.
AddStops == hdr[nextm].next # NULL => hdr[hdr[nextm].next].size >= PAGE - HDR

AddNext ==
    /\ pc = "adding"
    /\ ~AddStops
    /\ nextm' = hdr[nextm].next
    /\ UNCHANGED <<hdr, mmList, mmap, pc, req, mm, absorbed, held>>

\* Block m, with the header v, is linked in behind block a.
LinkBehind(h, a, m, v) ==
    LET n == h[a].next
    IN  [x \in DOMAIN h \cup {m} |->
            IF x = m THEN [v EXCEPT !.next = n, !.root = a]
            ELSE [h[x] EXCEPT !.next = IF x = a THEN m ELSE @,
                              !.root = IF x = n THEN m ELSE @]]

\* add links the page in behind nextm.  (The way back up rewrites the links of
\* the blocks it passed as they were.)
AddLink ==
    /\ pc = "adding"
    /\ AddStops
    /\ hdr' = LinkBehind(hdr, nextm, mm, FreeHdr(PAGE - HDR))
    /\ mm' = NULL
    /\ nextm' = NULL
    /\ pc' = "grow"
    /\ UNCHANGED <<mmList, mmap, req, absorbed, held>>

\* The thread's free(p): unite has looked at the block behind and will
\* swallow it (nextm), or not (NULL) ...
FreeCall(p) ==
    /\ pc = "idle"
    /\ mm' = p - HDR
    /\ nextm' = IF swallowed(hdr, p - HDR) = {} THEN NULL ELSE p + hdr[p - HDR].size
    /\ pc' = "uniting"
    /\ UNCHANGED <<hdr, mmList, mmap, req, absorbed, held>>

\* ... del(nextm), and mm takes over its room ...
FreeUnite ==
    /\ pc = "uniting"
    /\ hdr' = IF nextm = NULL THEN hdr
              ELSE LET h == [del(hdr, nextm) EXCEPT ![mm].size = @ + HDR + hdr[nextm].size]
                   IN  Restrict(h, DOMAIN h \ {nextm})
    /\ nextm' = NULL
    /\ pc' = "merged"
    /\ UNCHANGED <<mmList, mmap, req, mm, absorbed, held>>

\* ... state = FREE ...
FreeMark ==
    /\ pc = "merged"
    /\ hdr' = [hdr EXCEPT ![mm].state = "FREE"]
    /\ held' = Restrict(held, DOMAIN held \ {mm + HDR})
    /\ pc' = "freeing"
    /\ UNCHANGED <<mmList, mmap, req, mm, nextm, absorbed>>

\* ... and add.
FreeAdd ==
    /\ pc = "freeing"
    /\ hdr' = add(hdr, mmList, mm)
    /\ mmList' = addHead(hdr, mmList, mm)
    /\ mm' = NULL
    /\ pc' = "idle"
    /\ UNCHANGED <<mmap, req, nextm, absorbed, held>>

ThreadStep ==
    \/ \E n \in Requests : CallMalloc(n)
    \/ Refind \/ FindNext \/ FindHit \/ FindMiss \/ RefindMiss
    \/ Take \/ Return \/ GetPage \/ AddCall \/ AddNext \/ AddLink
    \/ CleanTake \/ CleanUnite \/ CleanPut \/ CleanDone
    \/ \E p \in DOMAIN held : FreeCall(p)
    \/ FreeUnite \/ FreeMark \/ FreeAdd

-----------------------------------------------------------------------------
\* The interrupt comes between two steps of the thread ...
Interrupt ==
    /\ ~InIsr
    /\ saved' = Context
    /\ torn' = (torn \/ pc \in HalfDone)
    /\ pc' = "idle" /\ req' = 0 /\ mm' = NULL /\ nextm' = NULL
    /\ UNCHANGED <<hdr, mmList, mmap, absorbed, held>>

\* ... its handler calls malloc and free (of what the thread is not freeing) ...
IsrStep ==
    /\ InIsr
    /\ \/ \E n \in Requests : MallocHit(n) \/ MallocMiss(n)
       \/ \E p \in DOMAIN held \ {saved.mm + HDR} : Free(p)
       \/ MallocStep
    /\ UNCHANGED <<saved, torn>>

\* ... and returns.
Iret ==
    /\ InIsr
    /\ pc = "idle"
    /\ pc' = saved.pc /\ req' = saved.req /\ mm' = saved.mm /\ nextm' = saved.nextm
    /\ saved' = NoContext
    /\ UNCHANGED <<hdr, mmList, mmap, absorbed, held, torn>>

-----------------------------------------------------------------------------
\* The blocks a context has taken off the list.
InHand(c) == IF c.pc \in {"taken", "unite", "freeing"} THEN {c.mm} ELSE {}

\* What a context remembers is still as it left it.
PointersGood(c) ==
    LET free == {a \in Live : hdr[a].state = "FREE"} IN
    /\ c.pc \in {"found", "taken", "unite", "freeing"} => c.mm \in free
    /\ c.pc = "clean"  => c.mm \in free \cup {NULL}
    /\ c.pc \in {"find", "refind"} => c.mm \in free \cup {SENTINEL, NULL}
    /\ c.pc = "found"  => hdr[c.mm].size >= Round4(c.req)
    /\ c.pc = "unite"  => c.nextm \in free \cup absorbed \cup {SENTINEL}
    /\ c.pc = "adding" => c.nextm \in free \cup {SENTINEL} /\ hdr[c.nextm].size < PAGE - HDR
    /\ c.pc = "uniting" => c.nextm \in free \cup {NULL}
    /\ c.pc \in {"uniting", "merged"} => c.mm \in Live /\ hdr[c.mm].state = "BUSY"

Sound ==
    /\ PointersGood(Context) /\ PointersGood(saved)
    /\ ListExact(InHand(Context) \cup InHand(saved))
    /\ HeldIntact

RaceNext ==
    /\ ~torn /\ Sound
    /\ \/ ~InIsr /\ ThreadStep /\ UNCHANGED <<saved, torn>>
       \/ Interrupt \/ IsrStep \/ Iret

RaceSpec == RaceInit /\ [][RaceNext]_allvars

-----------------------------------------------------------------------------
(***************************************************************************)
(* The handler's malloc and free, clean included, damage neither the free  *)
(* list nor a held block nor a pointer the thread goes on with, unless the *)
(* interrupt came at a point of HalfDone: inside find, add, del, unite or  *)
(* clean, or while malloc has a block in hand that is not yet BUSY.  The   *)
(* rest is harmless: between calls, after clean, while and after a page is *)
(* taken and before add is called for it, and after free's unite.          *)
(***************************************************************************)
HarmOnlyHalfDone == torn \/ Sound

=============================================================================
