-------------------------------- MODULE FdBo --------------------------------
(* freedreno/freedreno_bo.c and freedreno_device.c: buffer objects found   *)
(* again through a handle table and a name table, and a cache of dead      *)
(* ones.  What runs under table_lock is one step; fd_bo_del drops its      *)
(* reference before it takes the lock, so threads may be between the two.  *)
(* All sizes fall in one bucket, or (big) in none.  A program names only   *)
(* buffers it holds a reference to, and drops the device last, after its   *)
(* last call.  Mappings, which bo_del undoes, are left out.                *)
EXTENDS GemHandles, Sequences, SequencesExt

CONSTANTS
  FdObjs,      \* kernel objects
  FdForeign,   \* those that another process made and shares
  FdBos,       \* structures
  FdMaxRefs,   \* bound: references to one structure
  FdMaxTime    \* bound: seconds on the clock

ASSUME FdAssumption == FdForeign \subseteq FdObjs /\ {FdMaxRefs, FdMaxTime} \subseteq Nat

VARIABLE fd

NoFdBo ==
  [state |-> "free", refcnt |-> 0, handle |-> NoHandle, obj |-> {}, named |-> FALSE,
   fd |-> FALSE, reuse |-> FALSE, big |-> FALSE, free_time |-> 0, dels |-> 0]

(* state of a structure: free, live (allocated, in nobody's cache), cached *)
(* or taken (out of the cache, and not yet counted by the thread that took *)
(* it).                                                                    *)
(* dels: threads that dropped the last reference and wait for the lock.    *)
(* odd: history of what takes the bookkeeping out of step (see FdSound).   *)
FdInit ==
  fd = [k |-> Kernel(FdForeign), bo |-> [b \in FdBos |-> NoFdBo],
        handle_table |-> [h \in {} |-> 0], name_table |-> [n \in {} |-> 0],
        bucket |-> <<>>, refcnt |-> 1, device |-> "open", now |-> 1, time |-> 0,
        odd |-> "no"]

(* The model follows the program no further.                               *)
Odd(s, why) == [s EXCEPT !.odd = why]

FdRunning == fd.device = "open" /\ fd.odd = "no"

(* The program's own reference to the device: every structure in use has   *)
(* one, those in the cache and those just taken from it have none.         *)
HoldsDevice == fd.refcnt > Cardinality({b \in FdBos : fd.bo[b].state = "live"})

(* The structure that calloc gives; which one does not matter.             *)
FreshFd == LET unused == {b \in FdBos : fd.bo[b].state = "free"}
           IN  IF unused = {} THEN {} ELSE {CHOOSE b \in unused : TRUE}

(* bo_from_handle, with the structure that calloc gives; the back ends'    *)
(* bo_from_handle only allocate.  An entry that is in the table is kept.   *)
bo_from_handle(s, b, h, big) ==
  [s EXCEPT !.bo[b] = [NoFdBo EXCEPT !.state = "live", !.refcnt = 1, !.handle = h,
                                     !.obj = {s.k.open[h]}, !.big = big],
            !.refcnt = @ + 1,
            !.handle_table = IF h \in DOMAIN @ THEN @ ELSE Bind(@, h, b)]

set_name(s, b, n) ==
  [s EXCEPT !.bo[b].named = TRUE,
            !.name_table = IF n \in DOMAIN @ THEN @ ELSE Bind(@, n, b)]

(* lookup_bo: one more reference.  To find a structure without references, *)
(* on its way to the cache or in it, revives it behind the cache's back.   *)
lookup_bo(s, b) ==
  LET t == [s EXCEPT !.bo[b].refcnt = @ + 1]
  IN  IF s.bo[b].refcnt = 0 THEN Odd(t, "revived") ELSE t

Forgotten(f, X) == [x \in DOMAIN f \ X |-> f[x]]

(* bo_del of the buffers B, one after the other: the tables forget each,   *)
(* then the kernel does.                                                   *)
bo_del(s, B) ==
  LET handles == {s.bo[b].handle : b \in B}
      names == {s.k.open[s.bo[b].handle] : b \in {c \in B : s.bo[c].named}}
  IN  [s EXCEPT !.handle_table = Forgotten(@, handles),
                !.name_table = Forgotten(@, names),
                !.k.open = Forgotten(@, handles), !.k.prime = @ \ handles,
                !.bo = [b \in FdBos |-> IF b \in B THEN NoFdBo ELSE @[b]]]

Stale(s, b, time) == time = 0 \/ time - s.bo[b].free_time > 1

(* How many buffers of the bucket are before the first young one.          *)
OldBuffers(s, time) ==
  Cardinality({i \in DOMAIN s.bucket : \A j \in 1..i : Stale(s, s.bucket[j], time)})

(* fd_cleanup_bo_cache: from the oldest buffer to the first young one.     *)
(* Time 0 means everything.                                                *)
fd_cleanup_bo_cache(s, time) ==
  LET n == OldBuffers(s, time)
  IN  IF s.time = time THEN s
      ELSE [bo_del(s, {s.bucket[i] : i \in 1..n})
              EXCEPT !.bucket = SubSeq(@, n + 1, Len(@)), !.time = time]

(* fd_device_del and fd_device_del_locked.                                 *)
DropDevice(s) ==
  LET t == fd_cleanup_bo_cache(s, 0)
  IN  IF s.refcnt > 1 THEN [s EXCEPT !.refcnt = @ - 1]
      ELSE [t EXCEPT !.refcnt = 0, !.device = "closed",
                     !.handle_table = [h \in {} |-> 0], !.name_table = [n \in {} |-> 0]]

-----------------------------------------------------------------------------
(* find_in_bucket, under the lock: only the oldest buffer is looked at.    *)
(* idle: what cpu_prep says of it.                                         *)
find_in_bucket(idle) ==
  /\ FdRunning
  /\ HoldsDevice
  /\ fd.bucket # <<>>
  /\ idle
  /\ fd' = [fd EXCEPT !.bucket = Tail(@), !.bo[Head(fd.bucket)].state = "taken"]

(* fd_bo_new counts the buffer afterwards, without the lock.               *)
fd_bo_new_recycled(b) ==
  /\ FdRunning
  /\ fd.bo[b].state = "taken"
  /\ fd' = [fd EXCEPT !.refcnt = @ + 1, !.bo[b].state = "live", !.bo[b].refcnt = 1]

(* The rest of fd_bo_new: a new kernel object.                             *)
fd_bo_new(o, big, idle) ==
  /\ FdRunning
  /\ HoldsDevice
  /\ big \/ fd.bucket = <<>> \/ ~idle
  /\ o \in FdObjs \ fd.k.born
  /\ \E b \in FreshFd :
       LET r == GemCreate(fd.k, o)
       IN  fd' = [bo_from_handle([fd EXCEPT !.k = r.k], b, r.handle, big)
                    EXCEPT !.bo[b].reuse = TRUE]

(* calloc fails: the handle is closed again and fd_bo_new stores through   *)
(* the null pointer it gets.                                               *)
fd_bo_new_nomem(o) ==
  /\ FdRunning
  /\ HoldsDevice
  /\ o \in FdObjs \ fd.k.born
  /\ fd' = Odd([fd EXCEPT !.k.born = @ \cup {o}], "null buffer")

(* fd_bo_from_dmabuf and the fd_bo_from_handle that it calls, which never  *)
(* looks for a structure with that handle.                                 *)
fd_bo_from_dmabuf(o) ==
  /\ FdRunning
  /\ HoldsDevice
  /\ o \in fd.k.shared
  /\ \E b \in FreshFd :
       LET r == PrimeOpen(fd.k, o)
           s == bo_from_handle([fd EXCEPT !.k = r.k], b, r.handle, FALSE)
       IN  fd' = IF r.handle \in DOMAIN fd.handle_table THEN Odd(s, "twin") ELSE s

(* calloc fails in bo_from_handle, which closes the handle it was given.   *)
(* One that the kernel just opened is gone again, and so fd_bo_from_name   *)
(* leaves everything as it was; but a dma-buf may have led to the handle   *)
(* of another structure.                                                   *)
fd_bo_from_dmabuf_nomem(o) ==
  /\ FdRunning
  /\ HoldsDevice
  /\ o \in fd.k.shared
  /\ LET r == PrimeOpen(fd.k, o)
     IN  fd' = IF r.handle \in DOMAIN fd.k.open
               THEN Odd([fd EXCEPT !.k = GemClose(r.k, r.handle)], "handle closed")
               ELSE fd

fd_bo_from_name(o) ==
  /\ FdRunning
  /\ HoldsDevice
  /\ o \in fd.k.shared
  /\ \A b \in FdBos : fd.bo[b].refcnt < FdMaxRefs
  /\ IF o \in DOMAIN fd.name_table THEN fd' = lookup_bo(fd, fd.name_table[o])
     ELSE LET r == GemOpen(fd.k, o)
              s == [fd EXCEPT !.k = r.k]
          IN  IF r.handle \in DOMAIN s.handle_table
              THEN fd' = lookup_bo(s, s.handle_table[r.handle])
              ELSE \E b \in FreshFd :
                     fd' = set_name(bo_from_handle(s, b, r.handle, FALSE), b, o)

fd_bo_ref(b) ==
  /\ FdRunning
  /\ fd.bo[b].refcnt \in 1..(FdMaxRefs - 1)
  /\ fd' = [fd EXCEPT !.bo[b].refcnt = @ + 1]

fd_bo_get_name(b) ==
  /\ FdRunning
  /\ fd.bo[b].refcnt > 0
  /\ ~fd.bo[b].named
  /\ fd' = set_name([fd EXCEPT !.k = GemFlink(@, fd.bo[b].handle)], b,
                    fd.k.open[fd.bo[b].handle])

fd_bo_dmabuf(b) ==
  /\ FdRunning
  /\ fd.bo[b].refcnt > 0
  /\ ~fd.bo[b].fd
  /\ fd' = [fd EXCEPT !.bo[b].fd = TRUE, !.k = PrimeExport(@, fd.bo[b].handle)]

(* fd_bo_del up to the lock.                                               *)
fd_bo_del(b) ==
  /\ FdRunning
  /\ fd.bo[b].refcnt > 0
  /\ fd' = IF fd.bo[b].refcnt > 1 THEN [fd EXCEPT !.bo[b].refcnt = @ - 1]
           ELSE [fd EXCEPT !.bo[b].refcnt = 0, !.bo[b].fd = FALSE, !.bo[b].dels = @ + 1]

(* fd_bo_del under the lock: to the cache, or away, and the device's       *)
(* reference with it.                                                      *)
fd_bo_del_locked(b) ==
  /\ FdRunning
  /\ fd.bo[b].dels > 0
  /\ LET s == [fd EXCEPT !.bo[b].dels = @ - 1]
         cached == [s EXCEPT !.bo[b].state = "cached", !.bo[b].free_time = s.now,
                             !.bucket = Append(@, b)]
     IN  fd' = DropDevice(IF s.bo[b].reuse /\ ~s.bo[b].big
                          THEN fd_cleanup_bo_cache(cached, s.now) ELSE bo_del(s, {b}))

(* The program's own reference to the device.                              *)
fd_device_del ==
  /\ FdRunning
  /\ HoldsDevice
  /\ \A b \in FdBos : fd.bo[b].refcnt = 0 /\ fd.bo[b].state # "taken"
  /\ fd' = DropDevice(fd)

FdSecond ==
  /\ FdRunning
  /\ fd.now < FdMaxTime
  /\ fd' = [fd EXCEPT !.now = @ + 1]

FdNext ==
  \/ \E idle \in BOOLEAN : find_in_bucket(idle)
  \/ \E b \in FdBos : fd_bo_new_recycled(b)
  \/ \E o \in FdObjs, big, idle \in BOOLEAN : fd_bo_new(o, big, idle)
  \/ \E o \in FdObjs : fd_bo_new_nomem(o)
  \/ \E o \in FdObjs : fd_bo_from_dmabuf(o) \/ fd_bo_from_dmabuf_nomem(o) \/ fd_bo_from_name(o)
  \/ \E b \in FdBos : fd_bo_ref(b) \/ fd_bo_get_name(b) \/ fd_bo_dmabuf(b)
  \/ \E b \in FdBos : fd_bo_del(b) \/ fd_bo_del_locked(b)
  \/ fd_device_del
  \/ FdSecond

(* Every open handle belongs to one structure, in use or cached or on its  *)
(* way from one to the other, that still refers to the object it was made  *)
(* for; the tables lead to such structures only, the cache holds those     *)
(* that nobody refers to, and a closed device leaves no handle open.  What *)
(* breaks this (odd) is a second structure for a handle that has one, a    *)
(* lookup that revives a structure without references, a structure that    *)
(* calloc refused in fd_bo_new, and one that it refused for a handle of    *)
(* another structure, which bo_from_handle closes (freedreno_bo.c:66-71).  *)
FdSound ==
  LET held == {b \in FdBos : fd.bo[b].state # "free"}
  IN  fd.odd = "no" =>
        /\ DOMAIN fd.k.open = {fd.bo[b].handle : b \in held}
        /\ \A b, c \in held : fd.bo[b].handle = fd.bo[c].handle => b = c
        /\ \A b \in held : fd.bo[b].obj = {fd.k.open[fd.bo[b].handle]}
        /\ \A h \in DOMAIN fd.handle_table :
             LET b == fd.handle_table[h] IN b \in held /\ fd.bo[b].handle = h
        /\ \A o \in DOMAIN fd.name_table : fd.name_table[o] \in held
        /\ ToSet(fd.bucket) = {b \in FdBos : fd.bo[b].state = "cached"}
        /\ \A b \in held : fd.bo[b].state # "live" => fd.bo[b].refcnt = 0 /\ fd.bo[b].dels = 0
        /\ fd.device = "closed" => fd.k.open = [h \in {} |-> 0]

=============================================================================
