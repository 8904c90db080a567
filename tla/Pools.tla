---------------------------------- MODULE Pools ----------------------------------
(***************************************************************************)
(* Buffer pools (csc501-lab1/sys/mkpool.c, getbuf.c, freebuf.c).  A buffer *)
(* is the address of its first word, which holds the link to the next free *)
(* buffer or, when it is given out, the number of its pool.  bpmaxused,    *)
(* which nothing reads, is left out.                                       *)
(***************************************************************************)
EXTENDS Memory, Tasks

CONSTANTS
  NBPOOLS,
  BufferSizes,
  BufferCounts

ASSUME PoolsAssumption == NBPOOLS \in Nat /\ BufferSizes \cup BufferCounts \subseteq Nat \ {0}

VARIABLES
  bptab,       \* bptab[]: bptotal, bpnext and the links, bpsem
  buffers,     \* the buffers each process was given: pool and address
  unlinked     \* a process took a buffer from an empty chain: the model stops

pools == <<bptab, buffers, unlinked>>

PoolsInit ==
  /\ bptab = <<>>
  /\ buffers = [p \in Procs |-> {}]
  /\ unlinked = FALSE

Word == 4

\* The memory that getmem() gives is linked front to back.
mkpool(p, bufsiz, numbufs) ==
  LET size == bufsiz + Word IN
  /\ Calls(p)
  /\ Len(bptab) < NBPOOLS
  /\ Getmem(size * numbufs, "heap")
  /\ \E h \in held' \ held :
       bptab' = Append(bptab, [bptotal |-> numbufs, bpsem |-> newsem,
                               bpnext |-> [i \in 1..numbufs |-> h.at + (i - 1) * size]])
  /\ semaph' = screate(newsem, numbufs)
  /\ UNCHANGED <<doing, buffers, unlinked>>

\* Takes the first buffer of the chain and writes the pool's number to it.
Pop(p, pool) ==
  LET chain == bptab[pool].bpnext IN
  IF chain = <<>>
  THEN unlinked' = TRUE /\ UNCHANGED <<bptab, buffers>>
  ELSE /\ bptab' = [bptab EXCEPT ![pool].bpnext = Tail(@)]
       /\ buffers' = [buffers EXCEPT ![p] = @ \cup {<<pool, Head(chain)>>}]
       /\ UNCHANGED unlinked

getbuf(p, pool) ==
  /\ Calls(p)
  /\ semaph' = wait(p, bptab[pool].bpsem)
  /\ Goes(p, [call |-> "getbuf", pool |-> pool])
  /\ UNCHANGED pools

getbufTakes(p) ==
  /\ At(p, "getbuf")
  /\ Pop(p, doing[p].pool)
  /\ Returns(p)
  /\ UNCHANGED semaph

\* Faulty: the buffer is not counted.
nbgetbufUncounted(p, pool) ==
  /\ Calls(p)
  /\ Known(bptab[pool].bpsem) /\ semaph[bptab[pool].bpsem].semcnt > 0
  /\ Pop(p, pool)
  /\ UNCHANGED tasks

\* A semaphore that is not known counts SYSERR for scount(): no buffer.
nbgetbuf(p, pool) ==
  /\ Calls(p)
  /\ Known(bptab[pool].bpsem) /\ semaph[bptab[pool].bpsem].semcnt > 0
  /\ semaph' = wait(p, bptab[pool].bpsem)
  /\ Pop(p, pool)
  /\ UNCHANGED doing

\* The pool is read from the buffer.
freebuf(p, buf) ==
  /\ Calls(p)
  /\ bptab' = [bptab EXCEPT ![buf[1]].bpnext = <<buf[2]>> \o @]
  /\ buffers' = [buffers EXCEPT ![p] = @ \ {buf}]
  /\ Goes(p, [call |-> "freebuf", pool |-> buf[1]])
  /\ UNCHANGED <<semaph, unlinked>>

freebufSignals(p) ==
  /\ At(p, "freebuf")
  /\ semaph' = signal(bptab[doing[p].pool].bpsem)
  /\ Returns(p)
  /\ UNCHANGED pools

PoolsNext(p) ==
  \/ \E bufsiz \in BufferSizes, numbufs \in BufferCounts : mkpool(p, bufsiz, numbufs)
  \/ /\ \/ \E pool \in DOMAIN bptab : getbuf(p, pool) \/ nbgetbuf(p, pool)
        \/ getbufTakes(p)
        \/ \E buf \in buffers[p] : freebuf(p, buf)
        \/ freebufSignals(p)
     /\ UNCHANGED memory

-------------------------------------------------------------------------------
(* Safety *)

Between(call, pool) ==
  {p \in Procs : At(p, call) /\ doing[p].pool = pool}

\* The buffers of a pool, wherever they are.
BuffersOf(pool) ==
  {<<pool, bptab[pool].bpnext[i]>> : i \in DOMAIN bptab[pool].bpnext}
    \cup {buf \in UNION {buffers[p] : p \in Procs} : buf[1] = pool}

\* No buffer is lost, given out twice or put back twice, and as long as the pool got
\* its semaphore, that counts the free buffers, but for those on their way between
\* the chain and the count (getbuf() after its wait(), freebuf() before its
\* signal()): so a process that is let through finds a buffer.
BuffersAccounted ==
  /\ \A pool \in DOMAIN bptab :
       LET B == bptab[pool] IN
       /\ Cardinality(BuffersOf(pool)) = B.bptotal
       /\ Len(B.bpnext) + Cardinality({buf \in UNION {buffers[p] : p \in Procs} :
                                          buf[1] = pool}) = B.bptotal
       /\ Known(B.bpsem) =>
            LET count == semaph[B.bpsem].semcnt IN
            (IF count < 0 THEN 0 ELSE count)
              = Len(B.bpnext) - Cardinality(Between("getbuf", pool))
                              - Cardinality(Between("freebuf", pool))
  /\ \A p, q \in Procs : p # q => buffers[p] \cap buffers[q] = {}
  /\ unlinked => \E pool \in DOMAIN bptab : ~Known(bptab[pool].bpsem)
===============================================================================
