--------------------------- MODULE GemShareProofs ---------------------------
(***************************************************************************)
(* Handles, sharing and the advice given to the kernel are sound for any   *)
(* number of threads, objects and buckets: what CoreInv of GemBoProofs     *)
(* says of counts and lists, ShareInv says of the kernel objects behind.   *)
(* Then: relocations form a forest; and, for one thread, what the cache    *)
(* holds stays young and an object known to be idle is idle.               *)
(***************************************************************************)
EXTENDS GemBoProofs

(* The kernel accepts the tiling it is asked for, an export that has been  *)
(* listed succeeds, and nobody imports dma-bufs: each of the three has an  *)
(* interleaving or an error path of the code that ends the discipline (the *)
(* runs vma_rejected and gem_prime, and a list node that outlives its      *)
(* object).                                                                *)
Disciplined ==
  /\ TRUE \notin CanReject
  /\ "handle_to_fd" \notin Fails
  /\ "from_prime" \notin Ops

(* An object has one handle.                                               *)
FileInv ==
  \A g, h \in Handles : kernel.file[g] = kernel.file[h] /\ kernel.file[g] # NoObj => g = h

(* The handle of a live object is open, and its own.                       *)
OpenInv ==
  \A b \in Live : bo[b].gem_handle \in Handles /\ kernel.file[bo[b].gem_handle] # NoObj
ApartInv == \A b, c \in Live : bo[b].gem_handle = bo[c].gem_handle => b = c

(* No handle is lost, but by an import that has no memory for a structure  *)
(* and by the error path that waits for its own lock; and none that was    *)
(* lost belongs to a structure.                                            *)
CoveredInv ==
  /\ \A b \in Live : bo[b].gem_handle \notin kernel.leaked
  /\ \/ "get_tiling_by_name" \in Fails
     \/ \A h \in Handles : kernel.file[h] # NoObj =>
          h \in kernel.leaked \/ \E b \in Live : bo[b].gem_handle = h

(* What may go back to the cache is known to this process only, and is on  *)
(* the list of named objects only while an export is under way.            *)
Exporting(b) == \E t \in Threads : thread[t].pc = "export" /\ thread[t].bo = b
PrivateInv == \A b \in Live : bo[b].reusable => ObjOf(b) \notin Shared(kernel)
LinkInv ==
  \A b \in Live :
    /\ bo[b].name_list = IF b \in Items(named) THEN "linked" ELSE "self"
    /\ b \in Items(named) /\ bo[b].reusable => Exporting(b)

ExportInv == \A t \in Threads : thread[t].pc = "export" => thread[t].bo \in Items(named)
PrimeFree == \A t \in Threads : thread[t].pc \notin {"prime", "tiling"}

(* The kernel may discard only what the cache holds.                       *)
RetainedInv == \A o \in kernel.dontneed \cup kernel.purged : \E b \in InCache : ObjOf(b) = o

ShareInv ==
  /\ FileInv /\ OpenInv /\ ApartInv /\ CoveredInv
  /\ PrivateInv /\ LinkInv /\ ExportInv /\ PrimeFree /\ SharedIsNamed
  /\ RetainedInv /\ NoGemFault

-----------------------------------------------------------------------------
(* The kernel object of a live structure is the one its handle stands for. *)
LEMMA LiveObj ==
  ASSUME GemTypeOK, OpenInv, NEW b \in Live
  PROVE  /\ b \in Bos /\ bo[b].gem_handle \in Handles
         /\ ObjOf(b) = kernel.file[bo[b].gem_handle] /\ ObjOf(b) # NoObj /\ ObjOf(b) \in Objs
<1>1. bo[b].gem_handle \in Handles /\ kernel.file[bo[b].gem_handle] # NoObj /\ b \in Bos
  BY DEF OpenInv, Live
<1>2. ObjOf(b) = kernel.file[bo[b].gem_handle]
  BY <1>1 DEF ObjOf
<1> QED BY <1>1, <1>2, ObjOfType

(* Two live structures stand for different kernel objects.                 *)
LEMMA ObjsApart ==
  ASSUME GemTypeOK, FileInv, OpenInv, ApartInv, NEW b \in Live, NEW c \in Live,
         ObjOf(b) = ObjOf(c)
  PROVE  b = c
<1>1. /\ bo[b].gem_handle \in Handles /\ bo[c].gem_handle \in Handles
      /\ kernel.file[bo[b].gem_handle] = kernel.file[bo[c].gem_handle]
      /\ kernel.file[bo[b].gem_handle] # NoObj
  BY LiveObj
<1>2. bo[b].gem_handle = bo[c].gem_handle
  BY <1>1 DEF FileInv
<1> QED BY <1>2 DEF ApartInv

(* What is cached is live.                                                 *)
LEMMA CachedLive ==
  ASSUME CoreInv
  PROVE  InCache \subseteq Live /\ \A b \in InCache : bo[b].reusable
BY DEF CoreInv, CacheInv, InCache

-----------------------------------------------------------------------------
(* Threads that neither begin nor end an export.                           *)
Quiet ==
  \A u \in Threads :
    /\ thread'[u].pc \notin {"prime", "tiling"}
    /\ thread'[u].pc = "export" <=> thread[u].pc = "export"
    /\ thread[u].pc = "export" => thread'[u].bo = thread[u].bo

(* One thread moves on between other places.                               *)
LEMMA QuietStep ==
  ASSUME PrimeFree, NEW t \in Threads, \A u \in Threads \ {t} : thread'[u] = thread[u],
         thread[t].pc # "export", thread'[t].pc \notin {"export", "prime", "tiling"}
  PROVE  Quiet
<1> SUFFICES ASSUME NEW u \in Threads
             PROVE  /\ thread'[u].pc \notin {"prime", "tiling"}
                    /\ thread'[u].pc = "export" <=> thread[u].pc = "export"
                    /\ thread[u].pc = "export" => thread'[u].bo = thread[u].bo
  BY DEF Quiet
<1>1. CASE u = t
  BY <1>1
<1>2. CASE u # t
  BY <1>2 DEF PrimeFree
<1> QED BY <1>1, <1>2

(* No thread moves.                                                        *)
LEMMA QuietSame ==
  ASSUME PrimeFree, thread' = thread
  PROVE  Quiet
BY DEF PrimeFree, Quiet

(* What quiet threads keep.                                                *)
LEMMA QuietKeeps ==
  ASSUME Quiet
  PROVE  PrimeFree' /\ \A b : Exporting(b)' <=> Exporting(b)
<1>1. PrimeFree'
  BY DEF Quiet, PrimeFree
<1>2. ASSUME NEW b PROVE Exporting(b)' <=> Exporting(b)
  BY DEF Quiet, Exporting
<1> QED BY <1>1, <1>2

(* The structures keep their handles and list nodes, and none becomes      *)
(* reusable.                                                               *)
SameBo ==
  \A b \in Bos :
    /\ bo'[b].gem_handle = bo[b].gem_handle /\ bo'[b].name_list = bo[b].name_list
    /\ bo'[b].reusable => bo[b].reusable

(* The kernel keeps its table of handles, and shares or is told to discard *)
(* nothing more.                                                           *)
SameKernel ==
  /\ kernel'.file = kernel.file /\ kernel'.leaked = kernel.leaked
  /\ kernel'.flinked \subseteq kernel.flinked /\ kernel'.fds \subseteq kernel.fds
  /\ kernel'.dontneed \cup kernel'.purged \subseteq kernel.dontneed \cup kernel.purged

(* A step that creates, frees, shares and caches nothing.                  *)
LEMMA ShareStill ==
  ASSUME CoreInv, ShareInv, Live' = Live, cache' = cache, named' = named, fault' = fault,
         SameBo, SameKernel, Quiet
  PROVE  ShareInv'
<1>1. /\ FileInv /\ OpenInv /\ ApartInv /\ CoveredInv /\ PrivateInv /\ LinkInv /\ ExportInv
      /\ SharedIsNamed /\ RetainedInv /\ NoGemFault /\ GemTypeOK
  BY DEF ShareInv, CoreInv
<1>2. /\ kernel'.file = kernel.file /\ Shared(kernel') \subseteq Shared(kernel)
      /\ kernel'.leaked = kernel.leaked
      /\ kernel'.dontneed \cup kernel'.purged \subseteq kernel.dontneed \cup kernel.purged
  BY DEF SameKernel, Shared
<1>3. \A b \in Bos : /\ bo'[b].gem_handle = bo[b].gem_handle
                     /\ bo'[b].name_list = bo[b].name_list
                     /\ bo'[b].reusable => bo[b].reusable
  BY DEF SameBo
<1>4. Live \subseteq Bos
  BY DEF Live
<1>5. \A b \in Bos : ObjOf(b)' = ObjOf(b)
  BY <1>2, <1>3 DEF ObjOf
<1>6. InCache' = InCache
  BY DEF InCache, CachedIn
<1>7. PrimeFree' /\ \A b : Exporting(b)' <=> Exporting(b)
  BY QuietKeeps
<1>8. FileInv'
  BY <1>1, <1>2 DEF FileInv
<1>9. OpenInv' /\ ApartInv' /\ CoveredInv'
  BY <1>1, <1>2, <1>3, <1>4 DEF OpenInv, ApartInv, CoveredInv
<1>10. PrivateInv' /\ SharedIsNamed'
  BY <1>1, <1>2, <1>3, <1>4, <1>5 DEF PrivateInv, SharedIsNamed
<1>11. LinkInv'
  BY <1>1, <1>3, <1>4, <1>7 DEF LinkInv
<1>12. ExportInv'
  BY <1>1 DEF ExportInv, Quiet
<1>13. RetainedInv'
  <2>1. InCache \subseteq Bos
    BY <1>4, CachedLive
  <2> QED BY <1>1, <1>2, <1>5, <1>6, <2>1 DEF RetainedInv
<1>14. NoGemFault'
  BY <1>1 DEF NoGemFault
<1> QED BY <1>7, <1>8, <1>9, <1>10, <1>11, <1>12, <1>13, <1>14 DEF ShareInv

-----------------------------------------------------------------------------
(* Steps that leave the kernel and the lists alone.                        *)

(* A step that changes nothing but threads, counts and relocations.        *)
LEMMA ShareCalm ==
  ASSUME CoreInv, ShareInv, UNCHANGED << vma, cache, named, kernel, fault >>, SameBo, Quiet
  PROVE  ShareInv'
<1>1. Live' = Live
  BY DEF Live, Exists
<1>2. SameKernel
  BY DEF SameKernel
<1> QED BY <1>1, <1>2, ShareStill

(* A thread is given a new record.                                         *)
LEMMA MovePut ==
  ASSUME GemTypeOK, NEW t \in Threads, NEW r, thread' = [thread EXCEPT ![t] = r]
  PROVE  thread'[t] = r /\ \A u \in Threads \ {t} : thread'[u] = thread[u]
BY DEF GemTypeOK

(* A structure is replaced by one with the same handle and list node.      *)
LEMMA SamePut ==
  ASSUME GemTypeOK, NEW b \in Bos, NEW r, bo' = [bo EXCEPT ![b] = r],
         r.gem_handle = bo[b].gem_handle, r.name_list = bo[b].name_list,
         r.reusable => bo[b].reusable
  PROVE  SameBo
<1>1. bo'[b] = r /\ \A c \in Bos \ {b} : bo'[c] = bo[c]
  BY DEF GemTypeOK
<1> QED BY <1>1 DEF SameBo

(* A count changes.                                                        *)
LEMMA SameCount ==
  ASSUME GemTypeOK, NEW b \in Bos, NEW n, bo' = [bo EXCEPT ![b].refcount = n]
  PROVE  SameBo
<1> DEFINE r == [bo[b] EXCEPT !.refcount = n]
<1>1. bo' = [bo EXCEPT ![b] = r]
  OBVIOUS
<1>2. /\ r.gem_handle = bo[b].gem_handle /\ r.name_list = bo[b].name_list
      /\ r.reusable => bo[b].reusable
  BY BoTypes DEF BoRecord
<1> HIDE DEF r
<1> QED BY <1>1, <1>2, SamePut

(* Relocations change.                                                     *)
LEMMA SameRelocs ==
  ASSUME GemTypeOK, NEW b \in Bos, NEW s, bo' = [bo EXCEPT ![b].relocs = s]
  PROVE  SameBo
<1> DEFINE r == [bo[b] EXCEPT !.relocs = s]
<1>1. bo' = [bo EXCEPT ![b] = r]
  OBVIOUS
<1>2. /\ r.gem_handle = bo[b].gem_handle /\ r.name_list = bo[b].name_list
      /\ r.reusable => bo[b].reusable
  BY BoTypes DEF BoRecord
<1> HIDE DEF r
<1> QED BY <1>1, <1>2, SamePut

(* No structure changes.                                                   *)
LEMMA SameAll ==
  ASSUME bo' = bo
  PROVE  SameBo
BY DEF SameBo

(* alloc_internal takes the lock.                                          *)
LEMMA AllocShare ==
  ASSUME CoreInv, ShareInv, NEW t \in Threads, Alloc(t)
  PROVE  ShareInv'
<1>1. PICK k, for_render :
        thread' = [thread EXCEPT ![t].pc = "alloc", ![t].bucket = k, ![t].flag = for_render]
  BY DEF Alloc
<1>2. /\ thread[t].pc = "idle" /\ bo' = bo /\ UNCHANGED << vma, cache, named, kernel, fault >>
  BY DEF Alloc, Calls, At
<1>3. GemTypeOK /\ PrimeFree
  BY DEF CoreInv, ShareInv
<1> DEFINE r == [thread[t] EXCEPT !.pc = "alloc", !.bucket = k, !.flag = for_render]
<1>4. thread' = [thread EXCEPT ![t] = r]
  BY <1>1, <1>3 DEF GemTypeOK
<1>5. r.pc = "alloc"
  BY <1>3, ThreadTypes DEF ThreadRecord
<1> HIDE DEF r
<1>6. Quiet
  BY <1>2, <1>3, <1>4, <1>5, MovePut, QuietStep
<1> QED BY <1>2, <1>6, SameAll, ShareCalm

(* A call returns.                                                         *)
LEMMA QuietReturn ==
  ASSUME GemTypeOK, PrimeFree, NEW t \in Threads, thread[t].pc # "export", Return(t)
  PROVE  Quiet
<1>1. thread'[t].pc = "idle" /\ \A u \in Threads \ {t} : thread'[u] = thread[u]
  BY ReturnStep
<1> QED BY <1>1, QuietStep

(* A call goes on.                                                         *)
LEMMA QuietGoto ==
  ASSUME GemTypeOK, PrimeFree, NEW t \in Threads, thread[t].pc # "export",
         NEW where \in Places \ {"export", "prime", "tiling"}, Goto(t, where)
  PROVE  Quiet
<1>1. thread'[t].pc = where /\ \A u \in Threads \ {t} : thread'[u] = thread[u]
  BY GotoStep
<1> QED BY <1>1, QuietStep

(* A call begins that is no export.                                        *)
LEMMA QuietBegin ==
  ASSUME GemTypeOK, PrimeFree, NEW t \in Threads, thread[t].pc # "export", NEW b \in Bos,
         NEW where \in Places \ {"export", "prime", "tiling"}, Begin(t, where, b)
  PROVE  Quiet
<1>1. thread'[t].pc = where /\ \A u \in Threads \ {t} : thread'[u] = thread[u]
  BY BeginStep
<1> QED BY <1>1, QuietStep

(* The bucket has nothing to give.                                         *)
LEMMA AllocMissShare ==
  ASSUME CoreInv, ShareInv, NEW t \in Threads, AllocMiss(t)
  PROVE  ShareInv'
<1>1. /\ thread[t].pc = "alloc" /\ Goto(t, "create")
      /\ bo' = [b \in Bos |-> IF b \in Candidates(t) THEN [bo[b] EXCEPT !.idle = FALSE] ELSE bo[b]]
      /\ UNCHANGED << vma, cache, named, kernel, fault >>
  BY DEF AllocMiss, At
<1>2. GemTypeOK /\ PrimeFree
  BY DEF CoreInv, ShareInv
<1>3. SameBo
  BY <1>1, <1>2, IdleCleared DEF SameBo
<1>4. Quiet
  BY <1>1, <1>2, QuietGoto DEF Places
<1> QED BY <1>1, <1>3, <1>4, ShareCalm

(* The cleanup of the cache ends.                                          *)
LEMMA CleanupDoneShare ==
  ASSUME CoreInv, ShareInv, NEW t \in Threads, CleanupDone(t)
  PROVE  ShareInv'
<1>1. /\ thread[t].pc = "cleanup" /\ Return(t) /\ bo' = bo
      /\ UNCHANGED << vma, cache, named, kernel, fault >>
  BY DEF CleanupDone, At
<1>2. GemTypeOK /\ PrimeFree
  BY DEF CoreInv, ShareInv
<1>3. Quiet
  BY <1>1, <1>2, QuietReturn
<1> QED BY <1>1, <1>3, SameAll, ShareCalm

(* reference.                                                              *)
LEMMA ReferenceShare ==
  ASSUME CoreInv, ShareInv, NEW t \in Threads, NEW b \in Bos, Reference(t, b)
  PROVE  ShareInv'
<1>1. /\ bo' = [bo EXCEPT ![b].refcount = bo[b].refcount + 1] /\ thread' = thread
      /\ UNCHANGED << vma, cache, named, kernel, fault >>
  BY DEF Reference, CoreInv, GemTypeOK
<1>2. GemTypeOK /\ PrimeFree
  BY DEF CoreInv, ShareInv
<1>3. SameBo /\ Quiet
  BY <1>1, <1>2, SameCount, QuietSame
<1> QED BY <1>1, <1>3, ShareCalm

(* unreference, up to the lock.                                            *)
LEMMA UnreferenceShare ==
  ASSUME CoreInv, ShareInv, NEW t \in Threads, NEW b \in Bos, Unreference(t, b)
  PROVE  ShareInv'
<1>1. /\ thread[t].pc = "idle" /\ UNCHANGED << vma, cache, named, kernel, fault >>
      /\ \/ /\ thread' = [thread EXCEPT ![t].pc = "unref", ![t].bo = b, ![t].time = clock]
            /\ bo' = bo
         \/ bo' = [bo EXCEPT ![b].refcount = bo[b].refcount - 1] /\ thread' = thread
  BY DEF Unreference, Calls, At, CoreInv, GemTypeOK
<1>2. GemTypeOK /\ PrimeFree
  BY DEF CoreInv, ShareInv
<1>3. CASE /\ thread' = [thread EXCEPT ![t].pc = "unref", ![t].bo = b, ![t].time = clock]
           /\ bo' = bo
  <2> DEFINE r == [thread[t] EXCEPT !.pc = "unref", !.bo = b, !.time = clock]
  <2>1. thread' = [thread EXCEPT ![t] = r]
    BY <1>2, <1>3 DEF GemTypeOK
  <2>2. r.pc = "unref"
    BY <1>2, ThreadTypes DEF ThreadRecord
  <2> HIDE DEF r
  <2>3. Quiet
    BY <1>1, <1>2, <2>1, <2>2, MovePut, QuietStep
  <2> QED BY <1>1, <1>3, <2>3, SameAll, ShareCalm
<1>4. CASE bo' = [bo EXCEPT ![b].refcount = bo[b].refcount - 1] /\ thread' = thread
  <2>1. SameBo /\ Quiet
    BY <1>2, <1>4, SameCount, QuietSame
  <2> QED BY <1>1, <2>1, ShareCalm
<1> QED BY <1>1, <1>3, <1>4

(* The decrement under the lock.                                           *)
LEMMA UnrefLockedShare ==
  ASSUME CoreInv, ShareInv, NEW t \in Threads, UnrefLocked(t)
  PROVE  ShareInv'
<1>1. PICK b \in Bos : b = thread[t].bo
  BY DEF UnrefLocked, At, CoreInv, BorrowInv, Borrowing
<1>2. GemTypeOK /\ PrimeFree
  BY DEF CoreInv, ShareInv
<1>3. /\ thread[t].pc = "unref" /\ UNCHANGED << vma, cache, named, kernel, fault >>
      /\ bo' = [bo EXCEPT ![b].refcount = bo[b].refcount - 1]
      /\ \/ thread' = [thread EXCEPT ![t].pc = "frames", ![t].bo = NoBo,
                                     ![t].frames = << FinalFrame(b) >>]
         \/ Return(t)
  BY <1>1, <1>2 DEF UnrefLocked, At, GemTypeOK
<1>4. SameBo
  BY <1>2, <1>3, SameCount
<1>5. CASE Return(t)
  <2>1. Quiet
    BY <1>2, <1>3, <1>5, QuietReturn
  <2> QED BY <1>3, <1>4, <2>1, ShareCalm
<1>6. CASE thread' = [thread EXCEPT ![t].pc = "frames", ![t].bo = NoBo,
                                    ![t].frames = << FinalFrame(b) >>]
  <2> DEFINE r == [thread[t] EXCEPT !.pc = "frames", !.bo = NoBo, !.frames = << FinalFrame(b) >>]
  <2>1. thread' = [thread EXCEPT ![t] = r]
    BY <1>2, <1>6 DEF GemTypeOK
  <2>2. r.pc = "frames"
    BY <1>2, ThreadTypes DEF ThreadRecord
  <2> HIDE DEF r
  <2>3. Quiet
    BY <1>2, <1>3, <2>1, <2>2, MovePut, QuietStep
  <2> QED BY <1>3, <1>4, <2>3, ShareCalm
<1> QED BY <1>3, <1>5, <1>6

(* clear_relocs is called.                                                 *)
LEMMA ClearRelocsShare ==
  ASSUME CoreInv, ShareInv, NEW t \in Threads, NEW b \in Bos, ClearRelocs(t, b)
  PROVE  ShareInv'
<1>1. PICK fs : thread' = [thread EXCEPT ![t].pc = "clear", ![t].bo = b, ![t].time = clock,
                                         ![t].frames = fs]
  BY DEF ClearRelocs
<1>2. /\ thread[t].pc = "idle" /\ bo' = bo /\ UNCHANGED << vma, cache, named, kernel, fault >>
  BY DEF ClearRelocs, Calls, At
<1>3. GemTypeOK /\ PrimeFree
  BY DEF CoreInv, ShareInv
<1> DEFINE r == [thread[t] EXCEPT !.pc = "clear", !.bo = b, !.time = clock, !.frames = fs]
<1>4. thread' = [thread EXCEPT ![t] = r]
  BY <1>1, <1>3 DEF GemTypeOK
<1>5. r.pc = "clear"
  BY <1>3, ThreadTypes DEF ThreadRecord
<1> HIDE DEF r
<1>6. Quiet
  BY <1>2, <1>3, <1>4, <1>5, MovePut, QuietStep
<1> QED BY <1>2, <1>6, SameAll, ShareCalm

(* clear_relocs takes the lock.                                            *)
LEMMA ClearLockedShare ==
  ASSUME CoreInv, ShareInv, NEW t \in Threads, ClearLocked(t)
  PROVE  ShareInv'
<1>1. /\ thread[t].pc = "clear" /\ Goto(t, "frames") /\ bo' = bo
      /\ UNCHANGED << vma, cache, named, kernel, fault >>
  BY DEF ClearLocked, At
<1>2. GemTypeOK /\ PrimeFree
  BY DEF CoreInv, ShareInv
<1>3. Quiet
  BY <1>1, <1>2, QuietGoto DEF Places
<1> QED BY <1>1, <1>3, SameAll, ShareCalm

(* A turn of the loop over the relocations.                                *)
LEMMA DropTargetShare ==
  ASSUME CoreInv, ShareInv, NEW t \in Threads, DropTarget(t)
  PROVE  ShareInv'
<1>1. /\ thread[t].pc = "frames" /\ Top(t).at <= Len(bo[Top(t).bo].relocs)
      /\ UNCHANGED << vma, cache, named, kernel, fault >>
  BY DEF DropTarget, At
<1>2. GemTypeOK /\ PrimeFree
  BY DEF CoreInv, ShareInv
<1>3. PICK c \in Bos : c = bo[Top(t).bo].relocs[Top(t).at]
  <2>1. /\ Top(t).at \in Nat /\ 1 <= Top(t).from /\ Top(t).from \in Nat /\ Top(t).from <= Top(t).at
        /\ bo[Top(t).bo].relocs \in Seq(Bos) /\ Len(bo[Top(t).bo].relocs) \in Nat
    BY <1>1, TopOK
  <2>2. Top(t).at \in 1 .. Len(bo[Top(t).bo].relocs)
    BY <1>1, <2>1
  <2> QED BY <2>1, <2>2
<1>4. PICK fs : /\ thread' = [thread EXCEPT ![t].frames = fs]
                /\ bo' = bo \/ bo' = [bo EXCEPT ![c].refcount = bo[c].refcount - 1]
  <2>1. CASE c = Top(t).bo
    BY <1>3, <2>1 DEF DropTarget
  <2>2. CASE c # Top(t).bo
    BY <1>2, <1>3, <2>2 DEF DropTarget, GemTypeOK
  <2> QED BY <2>1, <2>2
<1>5. SameBo
  BY <1>2, <1>4, SameCount, SameAll
<1> DEFINE r == [thread[t] EXCEPT !.frames = fs]
<1>6. thread' = [thread EXCEPT ![t] = r]
  BY <1>4
<1>7. r.pc = "frames"
  BY <1>1, <1>2, ThreadTypes DEF ThreadRecord
<1> HIDE DEF r
<1>8. Quiet
  BY <1>1, <1>2, <1>6, <1>7, MovePut, QuietStep
<1> QED BY <1>1, <1>5, <1>8, ShareCalm

(* clear_relocs returns.                                                   *)
LEMMA ClearedShare ==
  ASSUME CoreInv, ShareInv, NEW t \in Threads, Cleared(t)
  PROVE  ShareInv'
<1>1. thread[t].pc = "frames" /\ Return(t) /\ UNCHANGED << vma, cache, named, kernel, fault >>
  BY DEF Cleared, At
<1>2. GemTypeOK /\ PrimeFree
  BY DEF CoreInv, ShareInv
<1>3. PICK b \in Bos : b = Top(t).bo
  BY <1>1, TopOK
<1>4. PICK s : bo' = [bo EXCEPT ![b].relocs = s]
  BY <1>3 DEF Cleared
<1>5. SameBo /\ Quiet
  BY <1>1, <1>2, <1>4, SameRelocs, QuietReturn
<1> QED BY <1>1, <1>5, ShareCalm

(* emit_reloc.                                                             *)
LEMMA EmitRelocShare ==
  ASSUME CoreInv, ShareInv, NEW t \in Threads, NEW b \in Bos, NEW c \in Bos, EmitReloc(t, b, c)
  PROVE  ShareInv'
<1>1. /\ UNCHANGED << vma, cache, named, kernel, fault >> /\ thread' = thread
      /\ \/ bo' = [bo EXCEPT ![b].relocs = Append(bo[b].relocs, b)]
         \/ c # b /\ bo' = Relocated(b, c)
  BY DEF EmitReloc, CoreInv, GemTypeOK
<1>2. GemTypeOK /\ PrimeFree
  BY DEF CoreInv, ShareInv
<1>3. Quiet
  BY <1>1, <1>2, QuietSame
<1>4. CASE bo' = [bo EXCEPT ![b].relocs = Append(bo[b].relocs, b)]
  BY <1>1, <1>2, <1>3, <1>4, SameRelocs, ShareCalm
<1>5. CASE c # b /\ bo' = Relocated(b, c)
  <2>1. /\ bo'[b] = [bo[b] EXCEPT !.relocs = Append(bo[b].relocs, c)]
        /\ bo'[c] = [bo[c] EXCEPT !.used_as_reloc_target = TRUE, !.refcount = bo[c].refcount + 1]
        /\ \A d \in Bos \ {b, c} : bo'[d] = bo[d]
    BY <1>2, <1>5 DEF Relocated, GemTypeOK, BoRecord
  <2>2. /\ bo'[b].gem_handle = bo[b].gem_handle /\ bo'[b].name_list = bo[b].name_list
        /\ bo'[b].reusable = bo[b].reusable
    BY <1>2, <2>1, BoTypes DEF BoRecord
  <2>3. /\ bo'[c].gem_handle = bo[c].gem_handle /\ bo'[c].name_list = bo[c].name_list
        /\ bo'[c].reusable = bo[c].reusable
    BY <1>2, <2>1, BoTypes DEF BoRecord
  <2>4. SameBo
    BY <2>1, <2>2, <2>3 DEF SameBo
  <2> QED BY <1>1, <1>3, <2>4, ShareCalm
<1> QED BY <1>1, <1>4, <1>5

(* The busy ioctl, and the answer stored.                                  *)
LEMMA BusyShare ==
  ASSUME CoreInv, ShareInv, NEW t \in Threads, NEW b \in Bos, Busy(t, b)
  PROVE  ShareInv'
<1>1. PICK f : thread' = [thread EXCEPT ![t].pc = "busy", ![t].bo = b, ![t].flag = f]
  BY DEF Busy
<1>2. /\ thread[t].pc = "idle" /\ bo' = bo /\ UNCHANGED << vma, cache, named, kernel, fault >>
  BY DEF Busy, Calls, At
<1>3. GemTypeOK /\ PrimeFree
  BY DEF CoreInv, ShareInv
<1> DEFINE r == [thread[t] EXCEPT !.pc = "busy", !.bo = b, !.flag = f]
<1>4. thread' = [thread EXCEPT ![t] = r]
  BY <1>1, <1>3 DEF GemTypeOK
<1>5. r.pc = "busy"
  BY <1>3, ThreadTypes DEF ThreadRecord
<1> HIDE DEF r
<1>6. Quiet
  BY <1>2, <1>3, <1>4, <1>5, MovePut, QuietStep
<1> QED BY <1>2, <1>6, SameAll, ShareCalm

(* The answer of the busy ioctl is stored.                                 *)
LEMMA StoreIdleShare ==
  ASSUME CoreInv, ShareInv, NEW t \in Threads, StoreIdle(t)
  PROVE  ShareInv'
<1>1. PICK b \in Bos : b = thread[t].bo
  BY DEF StoreIdle, At, CoreInv, BorrowInv, Borrowing
<1>2. /\ thread[t].pc = "busy" /\ Return(t) /\ bo' = [bo EXCEPT ![b].idle = ~thread[t].flag]
      /\ UNCHANGED << vma, cache, named, kernel, fault >>
  BY <1>1 DEF StoreIdle, At
<1>3. GemTypeOK /\ PrimeFree
  BY DEF CoreInv, ShareInv
<1> DEFINE r == [bo[b] EXCEPT !.idle = ~thread[t].flag]
<1>4. bo' = [bo EXCEPT ![b] = r]
  BY <1>2
<1>5. /\ r.gem_handle = bo[b].gem_handle /\ r.name_list = bo[b].name_list
      /\ r.reusable => bo[b].reusable
  BY <1>3, BoTypes DEF BoRecord
<1> HIDE DEF r
<1>6. SameBo /\ Quiet
  BY <1>2, <1>3, <1>4, <1>5, SamePut, QuietReturn
<1> QED BY <1>2, <1>6, ShareCalm

(* disable_reuse.                                                          *)
LEMMA DisableReuseShare ==
  ASSUME CoreInv, ShareInv, NEW t \in Threads, NEW b \in Bos, DisableReuse(t, b)
  PROVE  ShareInv'
<1>1. /\ bo' = [bo EXCEPT ![b].reusable = FALSE] /\ thread' = thread
      /\ UNCHANGED << vma, cache, named, kernel, fault >>
  BY DEF DisableReuse
<1>2. GemTypeOK /\ PrimeFree
  BY DEF CoreInv, ShareInv
<1> DEFINE r == [bo[b] EXCEPT !.reusable = FALSE]
<1>3. bo' = [bo EXCEPT ![b] = r]
  BY <1>1
<1>4. r.gem_handle = bo[b].gem_handle /\ r.name_list = bo[b].name_list /\ ~r.reusable
  BY <1>2, BoTypes DEF BoRecord
<1> HIDE DEF r
<1>5. SameBo /\ Quiet
  BY <1>1, <1>2, <1>3, <1>4, SamePut, QuietSame
<1> QED BY <1>1, <1>5, ShareCalm

(* flink is called.                                                        *)
LEMMA FlinkShare ==
  ASSUME CoreInv, ShareInv, NEW t \in Threads, NEW b \in Bos, Flink(t, b)
  PROVE  ShareInv'
<1>1. /\ thread[t].pc = "idle" /\ Begin(t, "flink", b) /\ bo' = bo
      /\ UNCHANGED << vma, cache, named, kernel, fault >>
  BY DEF Flink, Calls, At
<1>2. GemTypeOK /\ PrimeFree
  BY DEF CoreInv, ShareInv
<1>3. Quiet
  BY <1>1, <1>2, QuietBegin DEF Places
<1> QED BY <1>1, <1>3, SameAll, ShareCalm

(* drm_intel_gem_bo_exec.                                                  *)
LEMMA ExecShare ==
  ASSUME CoreInv, ShareInv, NEW t \in Threads, NEW b \in Bos, Exec(t, b)
  PROVE  ShareInv'
<1>1. /\ bo' = Executed(b) /\ thread' = thread /\ UNCHANGED << vma, cache, named, fault >>
      /\ \/ kernel' = [kernel EXCEPT !.busy = @ \cup ({ObjOf(c) : c \in Reach(b)} \ {NoObj})]
         \/ UNCHANGED kernel
  BY DEF Exec
<1>2. GemTypeOK /\ PrimeFree /\ kernel \in KernelRecord
  BY DEF CoreInv, ShareInv, GemTypeOK
<1>3. SameBo
  BY <1>1, <1>2, IdleCleared DEF SameBo, Executed
<1>4. SameKernel
  BY <1>1, <1>2 DEF SameKernel, KernelRecord
<1>5. Quiet
  BY <1>1, <1>2, QuietSame
<1>6. Live' = Live
  BY <1>1 DEF Live, Exists
<1> QED BY <1>1, <1>3, <1>4, <1>5, <1>6, ShareStill

(* A step on the mappings alone.                                           *)
LEMMA ShareMaps ==
  ASSUME CoreInv, ShareInv, \A c \in Bos : vma'.link[c] = "zero" <=> vma.link[c] = "zero",
         UNCHANGED << bo, named, cache, thread, kernel, fault >>
  PROVE  ShareInv'
<1>1. PrimeFree
  BY DEF ShareInv
<1>2. Live' = Live
  BY DEF Live, Exists
<1>3. SameBo /\ SameKernel /\ Quiet
  BY <1>1, SameAll, QuietSame DEF SameKernel
<1> QED BY <1>2, <1>3, ShareStill

(* The mapping calls.                                                      *)
LEMMA MapBoShare ==
  ASSUME CoreInv, ShareInv, NEW t \in Threads, NEW b \in Bos, MapBo(t, b)
  PROVE  ShareInv'
<1>1. /\ Map(b) \/ MapGttOrUnsynchronized(b) \/ Unmap(b)
      /\ UNCHANGED << bo, named, cache, thread, kernel, fault >>
  BY DEF MapBo
<1>2. Good(vma) /\ Bounded(vma) /\ VirtualMapped(vma)
  BY DEF CoreInv, VmaInv
<1>3. OnlyMaps(vma, vma', b)
  <2>1. CASE Map(b)
    BY <1>2, <2>1, MapCpuGood DEF Map, Exists
  <2>2. CASE MapGttOrUnsynchronized(b)
    BY <1>2, <2>2, MapGttGood DEF MapGttOrUnsynchronized, Exists
  <2>3. CASE Unmap(b)
    BY <1>2, <2>3, UnmapGood DEF Unmap
  <2> QED BY <1>1, <2>1, <2>2, <2>3
<1>4. \A c \in Bos : vma'.link[c] = "zero" <=> vma.link[c] = "zero"
  BY <1>3 DEF OnlyMaps
<1> QED BY <1>1, <1>4, ShareMaps

(* set_vma_cache_size.                                                     *)
LEMMA SetVmaLimitShare ==
  ASSUME CoreInv, ShareInv, NEW t \in Threads, SetVmaLimit(t)
  PROVE  ShareInv'
<1>1. UNCHANGED << bo, named, cache, thread, kernel, fault >>
  BY DEF SetVmaLimit
<1>2. PICK limit \in VmaLimits : SetVmaCacheSize(limit)
  BY DEF SetVmaLimit
<1>3. Good(vma) /\ VirtualMapped(vma) /\ limit \in Int
  BY VmaLimitsAssumption DEF CoreInv, VmaInv
<1>4. \A c \in Bos : vma'.link[c] = "zero" <=> vma.link[c] = "zero"
  BY <1>2, <1>3, SetSizeGood DEF SetVmaCacheSize
<1> QED BY <1>1, <1>4, ShareMaps

(* The rest of the system: what it lets go of it shares no longer, and it  *)
(* discards only what it was told it may.                                  *)
LEMMA EnvironmentShare ==
  ASSUME CoreInv, ShareInv, Environment
  PROVE  ShareInv'
<1>1. GemTypeOK /\ PrimeFree /\ kernel \in KernelRecord
  BY DEF CoreInv, ShareInv, GemTypeOK
<1>2. UNCHANGED << vma, bo, named, cache, thread, fault >>
  BY DEF Environment, Tick, GpuRetires, ShrinkerPurges, SharersRender, SharersClose
<1>3. SameKernel
  <2>1. CASE Tick
    BY <2>1 DEF Tick, SameKernel
  <2>2. ASSUME NEW o \in Objs, GpuRetires(o) \/ SharersRender(o) PROVE SameKernel
    BY <1>1, <2>2 DEF GpuRetires, SharersRender, SameKernel, KernelRecord
  <2>3. ASSUME NEW o \in Objs, ShrinkerPurges(o) PROVE SameKernel
    BY <1>1, <2>3 DEF ShrinkerPurges, SameKernel, KernelRecord
  <2>4. ASSUME NEW o \in Objs, SharersClose(o) PROVE SameKernel
    <3> DEFINE s == kernel.fds \ {o}
               r == IF HandlesOf(kernel, o) = {} THEN kernel.flinked \ {o} ELSE kernel.flinked
    <3>1. kernel' = [kernel EXCEPT !.fds = s, !.flinked = r]
      BY <1>1, <2>4 DEF SharersClose, KernelRecord
    <3>2. s \subseteq kernel.fds /\ r \subseteq kernel.flinked
      OBVIOUS
    <3> HIDE DEF s, r
    <3> QED BY <1>1, <3>1, <3>2 DEF SameKernel, KernelRecord
  <2> QED BY <2>1, <2>2, <2>3, <2>4 DEF Environment
<1>4. Live' = Live
  BY <1>2 DEF Live, Exists
<1>5. SameBo /\ Quiet
  BY <1>1, <1>2, SameAll, QuietSame
<1> QED BY <1>2, <1>3, <1>4, <1>5, ShareStill

-----------------------------------------------------------------------------
(* Steps after which the handles stand for the same objects.               *)
LEMMA FixedFiles ==
  ASSUME CoreInv, ShareInv, Live' = Live, kernel'.file = kernel.file,
         kernel'.leaked = kernel.leaked, \A b \in Bos : bo'[b].gem_handle = bo[b].gem_handle
  PROVE  /\ FileInv' /\ OpenInv' /\ ApartInv' /\ CoveredInv'
         /\ \A b \in Bos : ObjOf(b)' = ObjOf(b)
<1>1. FileInv /\ OpenInv /\ ApartInv /\ CoveredInv /\ Live \subseteq Bos
  BY DEF ShareInv, Live
<1>2. \A b \in Bos : ObjOf(b)' = ObjOf(b)
  BY DEF ObjOf
<1>3. FileInv'
  BY <1>1 DEF FileInv
<1>4. OpenInv' /\ ApartInv' /\ CoveredInv'
  BY <1>1 DEF OpenInv, ApartInv, CoveredInv
<1> QED BY <1>2, <1>3, <1>4

(* b goes on the list of named objects: it is no longer reusable, or an    *)
(* export of it is under way that has not told anybody yet.                *)
LEMMA ShareMark ==
  ASSUME CoreInv, ShareInv, NEW b \in Live, Live' = Live, cache' = cache, fault' = fault,
         kernel'.file = kernel.file, kernel'.leaked = kernel.leaked,
         Shared(kernel') \subseteq Shared(kernel) \cup {ObjOf(b)},
         kernel'.dontneed = kernel.dontneed, kernel'.purged = kernel.purged,
         \A c \in Bos : bo'[c].gem_handle = bo[c].gem_handle,
         \A c \in Bos \ {b} : /\ bo'[c].name_list = bo[c].name_list
                              /\ bo'[c].reusable = bo[c].reusable,
         Items(named') = Items(named) \cup {b}, bo'[b].name_list = "linked",
         \/ ~bo'[b].reusable
         \/ Exporting(b)' /\ bo'[b].reusable = bo[b].reusable
              /\ Shared(kernel') \subseteq Shared(kernel),
         \A c \in Bos \ {b} : Exporting(c) => Exporting(c)',
         \A u \in Threads : /\ thread'[u].pc \notin {"prime", "tiling"}
                            /\ thread'[u].pc = "export" => thread'[u].bo \in Items(named) \cup {b}
  PROVE  ShareInv'
<1>1. /\ FileInv /\ OpenInv /\ ApartInv /\ PrivateInv /\ LinkInv /\ SharedIsNamed
      /\ RetainedInv /\ NoGemFault /\ GemTypeOK /\ Live \subseteq Bos
  BY DEF ShareInv, CoreInv, Live
<1>2. /\ FileInv' /\ OpenInv' /\ ApartInv' /\ CoveredInv'
      /\ \A c \in Bos : ObjOf(c)' = ObjOf(c)
  BY FixedFiles
<1>3. \A c \in Live \ {b} : ObjOf(c) # ObjOf(b)
  BY <1>1, ObjsApart
<1>4. PrivateInv'
  BY <1>1, <1>2, <1>3 DEF PrivateInv
<1>5. SharedIsNamed'
  BY <1>1, <1>2, <1>3 DEF SharedIsNamed
<1>6. LinkInv'
  <2> SUFFICES ASSUME NEW c \in Live
               PROVE  /\ bo'[c].name_list = IF c \in Items(named') THEN "linked" ELSE "self"
                      /\ c \in Items(named') /\ bo'[c].reusable => Exporting(c)'
    BY DEF LinkInv
  <2>1. CASE c = b
    BY <2>1
  <2>2. CASE c # b
    <3>1. /\ c \in Bos \ {b} /\ (c \in Items(named') <=> c \in Items(named))
          /\ bo'[c].name_list = bo[c].name_list /\ bo'[c].reusable = bo[c].reusable
      BY <1>1, <2>2
    <3> QED BY <1>1, <3>1 DEF LinkInv
  <2> QED BY <2>1, <2>2
<1>7. ExportInv' /\ PrimeFree'
  BY DEF ExportInv, PrimeFree
<1>8. RetainedInv'
  <2>1. InCache' = InCache /\ InCache \subseteq Bos
    BY <1>1, CachedLive DEF InCache, CachedIn
  <2> QED BY <1>1, <1>2, <2>1 DEF RetainedInv
<1>9. NoGemFault'
  BY <1>1 DEF NoGemFault
<1> QED BY <1>2, <1>4, <1>5, <1>6, <1>7, <1>8, <1>9 DEF ShareInv

(* DRMLISTADDTAIL to the list of named objects.                            *)
LEMMA NamedMark ==
  ASSUME GemTypeOK, LinkInv, NEW b \in Live
  PROVE  Items(NameOnce(b)) = Items(named) \cup {b} /\ NamedLink(b) = "linked"
<1>1. /\ bo[b].name_list = (IF b \in Items(named) THEN "linked" ELSE "self")
      /\ b \in Bos /\ named \in Seq(Bos)
  BY NamedBos DEF LinkInv, Live
<1>2. CASE b \in Items(named)
  BY <1>1, <1>2 DEF NameOnce, NamedLink, LooksUnlinked
<1>3. CASE b \notin Items(named)
  <2>1. Items(Append(named, b)) = Items(named) \cup {b}
    BY <1>1, AppendItems
  <2> QED BY <1>1, <1>3, <2>1 DEF NameOnce, NamedLink, LooksUnlinked
<1> QED BY <1>2, <1>3

(* A call that used b returns: what else is exported still is.             *)
LEMMA ReturnExports ==
  ASSUME GemTypeOK, ExportInv, PrimeFree, NEW t \in Threads, Return(t)
  PROVE  /\ \A c : Exporting(c) /\ thread[t].bo # c => Exporting(c)'
         /\ \A u \in Threads : /\ thread'[u].pc \notin {"prime", "tiling"}
                               /\ thread'[u].pc = "export" => thread'[u].bo \in Items(named)
<1>1. thread'[t].pc = "idle" /\ \A u \in Threads \ {t} : thread'[u] = thread[u]
  BY ReturnStep
<1>2. ASSUME NEW c, Exporting(c), thread[t].bo # c PROVE Exporting(c)'
  BY <1>1, <1>2 DEF Exporting
<1>3. ASSUME NEW u \in Threads
      PROVE  /\ thread'[u].pc \notin {"prime", "tiling"}
             /\ thread'[u].pc = "export" => thread'[u].bo \in Items(named)
  BY <1>1 DEF ExportInv, PrimeFree
<1> QED BY <1>2, <1>3

(* flink under the lock: the name is global before the object is listed,   *)
(* but nobody sees the state in between.                                   *)
LEMMA FlinkLockedShare ==
  ASSUME CoreInv, ShareInv, NEW t \in Threads, FlinkLocked(t)
  PROVE  ShareInv'
<1>1. PICK b \in Bos : b = thread[t].bo
  BY DEF FlinkLocked, At, CoreInv, BorrowInv, Borrowing
<1>2. thread[t].pc = "flink" /\ Return(t) /\ UNCHANGED << vma, cache, fault >>
  BY DEF FlinkLocked, At
<1>3. /\ GemTypeOK /\ PrimeFree /\ ExportInv /\ LinkInv /\ kernel \in KernelRecord
      /\ Live' = Live /\ b \in Live
  <2>1. b \in Used
    BY <1>1, BorrowedIsUsed
  <2>2. GemTypeOK /\ PrimeFree /\ ExportInv /\ LinkInv /\ kernel \in KernelRecord
    BY DEF CoreInv, ShareInv, GemTypeOK
  <2> QED BY <1>2, <2>1, <2>2 DEF Live, Exists, Used
<1>4. CASE UNCHANGED << kernel, named, bo >>
  <2>1. Quiet
    BY <1>2, <1>3, QuietReturn
  <2> QED BY <1>2, <1>4, <2>1, SameAll, ShareCalm
<1>5. CASE /\ ObjOf(b) # NoObj
           /\ kernel' = [kernel EXCEPT !.flinked = @ \cup {ObjOf(b)}]
           /\ named' = NameOnce(b)
           /\ bo' = [bo EXCEPT ![b].global_name = ObjOf(b), ![b].reusable = FALSE,
                               ![b].name_list = NamedLink(b)]
  <2> DEFINE o == ObjOf(b)
             l == NamedLink(b)
             r == [bo[b] EXCEPT !.global_name = o, !.reusable = FALSE, !.name_list = l]
  <2>1. bo' = [bo EXCEPT ![b] = r]
    BY <1>3, <1>5 DEF GemTypeOK
  <2>2. /\ kernel'.file = kernel.file /\ Shared(kernel') \subseteq Shared(kernel) \cup {o}
        /\ kernel'.dontneed = kernel.dontneed /\ kernel'.purged = kernel.purged
        /\ kernel'.leaked = kernel.leaked
    BY <1>3, <1>5 DEF KernelRecord, Shared
  <2>3. Items(named') = Items(named) \cup {b} /\ l = "linked"
    BY <1>3, <1>5, NamedMark
  <2> HIDE DEF o, l
  <2>4. r.gem_handle = bo[b].gem_handle /\ r.name_list = l /\ ~r.reusable
    BY <1>3, BoTypes DEF BoRecord
  <2> HIDE DEF r
  <2>5. bo'[b] = r /\ \A c \in Bos \ {b} : bo'[c] = bo[c]
    BY <1>3, <2>1 DEF GemTypeOK
  <2>6. /\ \A c \in Bos : bo'[c].gem_handle = bo[c].gem_handle
        /\ \A c \in Bos \ {b} : /\ bo'[c].name_list = bo[c].name_list
                                /\ bo'[c].reusable = bo[c].reusable
    BY <2>4, <2>5
  <2>7. /\ \A c \in Bos \ {b} : Exporting(c) => Exporting(c)'
        /\ \A u \in Threads : /\ thread'[u].pc \notin {"prime", "tiling"}
                              /\ thread'[u].pc = "export" => thread'[u].bo \in Items(named)
    BY <1>1, <1>2, <1>3, ReturnExports
  <2> QED BY <1>2, <1>3, <2>2, <2>3, <2>4, <2>5, <2>6, <2>7, ShareMark DEF o
<1> QED BY <1>1, <1>4, <1>5 DEF FlinkLocked

(* An export ends: by now the object is listed, and it stops being         *)
(* reusable as the dma-buf comes into being.                               *)
LEMMA HandleToFDShare ==
  ASSUME Disciplined, CoreInv, ShareInv, NEW t \in Threads, HandleToFD(t)
  PROVE  ShareInv'
<1>1. PICK b \in Bos : b = thread[t].bo
  BY DEF HandleToFD, At, CoreInv, BorrowInv, Borrowing
<1>2. /\ thread[t].pc = "export" /\ Return(t) /\ UNCHANGED << vma, cache, named, fault >>
      /\ kernel' = [kernel EXCEPT !.fds = @ \cup {ObjOf(b)}]
      /\ bo' = [bo EXCEPT ![b].reusable = FALSE]
  BY <1>1 DEF HandleToFD, At, Disciplined
<1>3. /\ GemTypeOK /\ PrimeFree /\ ExportInv /\ LinkInv /\ kernel \in KernelRecord
      /\ Live' = Live /\ b \in Live /\ b \in Items(named)
  <2>1. b \in Used
    BY <1>1, BorrowedIsUsed
  <2>2. GemTypeOK /\ PrimeFree /\ ExportInv /\ LinkInv /\ kernel \in KernelRecord
    BY DEF CoreInv, ShareInv, GemTypeOK
  <2> QED BY <1>1, <1>2, <2>1, <2>2 DEF Live, Exists, Used, ExportInv
<1> DEFINE o == ObjOf(b)
           r == [bo[b] EXCEPT !.reusable = FALSE]
<1>4. bo' = [bo EXCEPT ![b] = r]
  BY <1>2
<1>5. /\ kernel'.file = kernel.file /\ Shared(kernel') \subseteq Shared(kernel) \cup {o}
      /\ kernel'.dontneed = kernel.dontneed /\ kernel'.purged = kernel.purged
      /\ kernel'.leaked = kernel.leaked
  BY <1>2, <1>3 DEF KernelRecord, Shared
<1> HIDE DEF o
<1>6. r.gem_handle = bo[b].gem_handle /\ r.name_list = bo[b].name_list /\ ~r.reusable
  BY <1>3, BoTypes DEF BoRecord
<1> HIDE DEF r
<1>7. bo'[b] = r /\ \A c \in Bos \ {b} : bo'[c] = bo[c]
  BY <1>3, <1>4 DEF GemTypeOK
<1>8. /\ \A c \in Bos : bo'[c].gem_handle = bo[c].gem_handle
      /\ \A c \in Bos \ {b} : /\ bo'[c].name_list = bo[c].name_list
                              /\ bo'[c].reusable = bo[c].reusable
      /\ bo'[b].name_list = "linked" /\ Items(named') = Items(named) \cup {b}
  BY <1>2, <1>3, <1>6, <1>7 DEF LinkInv
<1>9. /\ \A c \in Bos \ {b} : Exporting(c) => Exporting(c)'
      /\ \A u \in Threads : /\ thread'[u].pc \notin {"prime", "tiling"}
                            /\ thread'[u].pc = "export" => thread'[u].bo \in Items(named)
  BY <1>1, <1>2, <1>3, ReturnExports
<1> QED BY <1>2, <1>3, <1>5, <1>6, <1>7, <1>8, <1>9, ShareMark DEF o

(* An export begins: the object is listed.                                 *)
LEMMA ExportToPrimeShare ==
  ASSUME CoreInv, ShareInv, NEW t \in Threads, NEW b \in Bos, ExportToPrime(t, b)
  PROVE  ShareInv'
<1>1. /\ thread[t].pc = "idle" /\ Begin(t, "export", b) /\ named' = NameOnce(b) /\ held[b] > 0
      /\ bo' = [bo EXCEPT ![b].name_list = NamedLink(b)]
      /\ UNCHANGED << vma, cache, kernel, fault >>
  BY DEF ExportToPrime, Calls, At, Uses
<1>2. GemTypeOK /\ PrimeFree /\ ExportInv /\ LinkInv /\ Live' = Live /\ b \in Live
  <2>1. b \in Used
    BY <1>1, HeldIsUsed
  <2>2. GemTypeOK /\ PrimeFree /\ ExportInv /\ LinkInv
    BY DEF CoreInv, ShareInv
  <2> QED BY <1>1, <2>1, <2>2 DEF Live, Exists, Used
<1> DEFINE l == NamedLink(b)
           r == [bo[b] EXCEPT !.name_list = l]
<1>3. bo' = [bo EXCEPT ![b] = r]
  BY <1>1
<1>4. Items(named') = Items(named) \cup {b} /\ l = "linked"
  BY <1>1, <1>2, NamedMark
<1> HIDE DEF l
<1>5. r.gem_handle = bo[b].gem_handle /\ r.name_list = l /\ r.reusable = bo[b].reusable
  BY <1>2, BoTypes DEF BoRecord
<1> HIDE DEF r
<1>6. bo'[b] = r /\ \A c \in Bos \ {b} : bo'[c] = bo[c]
  BY <1>2, <1>3 DEF GemTypeOK
<1>7. /\ \A c \in Bos : bo'[c].gem_handle = bo[c].gem_handle
      /\ \A c \in Bos \ {b} : /\ bo'[c].name_list = bo[c].name_list
                              /\ bo'[c].reusable = bo[c].reusable
  BY <1>5, <1>6
<1>8. thread'[t].pc = "export" /\ thread'[t].bo = b /\ \A u \in Threads \ {t} : thread'[u] = thread[u]
  BY <1>1, <1>2, BeginStep DEF Places
<1>9. Exporting(b)' /\ \A c \in Bos \ {b} : Exporting(c) => Exporting(c)'
  BY <1>1, <1>8 DEF Exporting
<1>10. \A u \in Threads :
         /\ thread'[u].pc \notin {"prime", "tiling"}
         /\ thread'[u].pc = "export" => thread'[u].bo \in Items(named) \cup {b}
  <2> TAKE u \in Threads
  <2>1. CASE u = t
    BY <1>8, <2>1
  <2>2. CASE u # t
    BY <1>2, <1>8, <2>2 DEF ExportInv, PrimeFree
  <2> QED BY <2>1, <2>2
<1>11. Shared(kernel') \subseteq Shared(kernel)
  BY <1>1
<1> QED BY <1>1, <1>2, <1>4, <1>5, <1>6, <1>7, <1>9, <1>10, <1>11, ShareMark

-----------------------------------------------------------------------------
(* Objects come into being.                                                *)

(* A handle is opened for o that no live structure has.                    *)
Opens(h, o) ==
  /\ kernel'.file = [kernel.file EXCEPT ![h] = o]
  /\ kernel.file[h] = o \/ (kernel.file[h] = NoObj /\ HandlesOf(kernel, o) = {})
  /\ kernel'.flinked = kernel.flinked /\ kernel'.fds = kernel.fds
  /\ kernel'.dontneed = kernel.dontneed /\ kernel'.purged = kernel.purged
  /\ kernel'.leaked \ {h} = kernel.leaked \ {h}
  /\ \A c \in Live : bo[c].gem_handle # h

(* What the open leaves as it was.                                         *)
LEMMA OpenKeeps ==
  ASSUME CoreInv, ShareInv, NEW h \in Handles, NEW o \in Objs, Opens(h, o),
         \A c \in Live : bo'[c].gem_handle = bo[c].gem_handle
  PROVE  /\ FileInv' /\ kernel'.file[h] = o
         /\ \A g \in Handles \ {h} : kernel'.file[g] = kernel.file[g]
         /\ \A c \in Live : ObjOf(c)' = ObjOf(c)
         /\ Shared(kernel') = Shared(kernel)
<1>1. FileInv /\ OpenInv /\ kernel.file \in [Handles -> Objs \cup {NoObj}]
  BY KernelTypes DEF ShareInv, CoreInv, GemTypeOK
<1>2. kernel'.file[h] = o /\ \A g \in Handles \ {h} : kernel'.file[g] = kernel.file[g]
  BY <1>1 DEF Opens
<1>3. \A g \in Handles \ {h} : kernel.file[g] # o
  BY <1>1, ObjsAssumption DEF Opens, FileInv, HandlesOf
<1>4. FileInv'
  <2> SUFFICES ASSUME NEW f \in Handles, NEW g \in Handles,
                      kernel'.file[f] = kernel'.file[g], kernel'.file[f] # NoObj
               PROVE  f = g
    BY DEF FileInv
  <2>1. CASE f = h \/ g = h
    BY <1>2, <1>3, <2>1
  <2>2. CASE f # h /\ g # h
    BY <1>1, <1>2, <2>2 DEF FileInv
  <2> QED BY <2>1, <2>2
<1>5. ASSUME NEW c \in Live PROVE ObjOf(c)' = ObjOf(c)
  <2>1. bo[c].gem_handle \in Handles \ {h}
    BY <1>1 DEF OpenInv, Opens
  <2> QED BY <1>2, <2>1 DEF ObjOf
<1>6. Shared(kernel') = Shared(kernel)
  BY DEF Opens, Shared
<1> QED BY <1>2, <1>4, <1>5, <1>6

(* A new structure with the handle, private or listed.                     *)
LEMMA ShareBirth ==
  ASSUME CoreInv, ShareInv, NEW b \in Bos \ Live, NEW h \in Handles, NEW o \in Objs,
         Opens(h, o), h \notin kernel'.leaked, Live' = Live \cup {b}, cache' = cache, fault' = fault, Quiet,
         \A c \in Bos \ {b} : bo'[c] = bo[c], bo'[b].gem_handle = h,
         \/ named' = named /\ bo'[b].name_list = "self" /\ o \notin Shared(kernel)
         \/ Items(named') = Items(named) \cup {b} /\ bo'[b].name_list = "linked"
              /\ ~bo'[b].reusable
  PROVE  ShareInv'
<1>1. /\ OpenInv /\ ApartInv /\ CoveredInv /\ PrivateInv /\ LinkInv /\ ExportInv /\ SharedIsNamed
      /\ RetainedInv /\ NoGemFault /\ GemTypeOK /\ Live \subseteq Bos
  BY DEF ShareInv, CoreInv, Live
<1>2. \A c \in Live : bo'[c] = bo[c]
  BY <1>1
<1>3. /\ FileInv' /\ kernel'.file[h] = o
      /\ \A g \in Handles \ {h} : kernel'.file[g] = kernel.file[g]
      /\ \A c \in Live : ObjOf(c)' = ObjOf(c)
      /\ Shared(kernel') = Shared(kernel)
  BY <1>2, OpenKeeps
<1>4. ObjOf(b)' = o
  BY <1>3 DEF ObjOf
<1>5. /\ \A c \in Live : bo[c].gem_handle # h
      /\ kernel'.dontneed = kernel.dontneed /\ kernel'.purged = kernel.purged
      /\ kernel'.leaked \ {h} = kernel.leaked \ {h}
  BY DEF Opens
<1>6. OpenInv'
  <2>1. o # NoObj
    BY ObjsAssumption
  <2> QED BY <1>1, <1>2, <1>3, <1>5, <2>1 DEF OpenInv
<1>7. ApartInv'
  BY <1>1, <1>2, <1>5 DEF ApartInv
<1>8. CoveredInv'
  <2>1. \A c \in Live' : bo'[c].gem_handle \notin kernel'.leaked
    BY <1>1, <1>2, <1>5 DEF CoveredInv
  <2>2. ASSUME "get_tiling_by_name" \notin Fails, NEW g \in Handles, kernel'.file[g] # NoObj
        PROVE  g \in kernel'.leaked \/ \E c \in Live' : bo'[c].gem_handle = g
    <3>1. CASE g = h
      BY <3>1
    <3>2. CASE g # h
      BY <1>1, <1>2, <1>3, <1>5, <2>2, <3>2 DEF CoveredInv
    <3> QED BY <3>1, <3>2
  <2> QED BY <2>1, <2>2 DEF CoveredInv
<1>9. PrimeFree' /\ \A c : Exporting(c)' <=> Exporting(c)
  BY QuietKeeps
<1>10. b \notin Items(named) /\ InCache \subseteq Live
  BY CachedLive DEF CoreInv, NamedInv, Used
<1>11. /\ Items(named) \subseteq Items(named') /\ (bo'[b].reusable => o \notin Shared(kernel))
       /\ (o \in Shared(kernel) => b \in Items(named'))
       /\ bo'[b].name_list = (IF b \in Items(named') THEN "linked" ELSE "self")
       /\ (b \in Items(named') => ~bo'[b].reusable)
       /\ \A c \in Live : c \in Items(named') <=> c \in Items(named)
  BY <1>10
<1>12. PrivateInv' /\ SharedIsNamed'
  BY <1>1, <1>2, <1>3, <1>4, <1>11 DEF PrivateInv, SharedIsNamed
<1>13. LinkInv'
  <2> SUFFICES ASSUME NEW c \in Live \cup {b}
               PROVE  /\ bo'[c].name_list = IF c \in Items(named') THEN "linked" ELSE "self"
                      /\ c \in Items(named') /\ bo'[c].reusable => Exporting(c)'
    BY DEF LinkInv
  <2>1. CASE c = b
    BY <1>11, <2>1
  <2>2. CASE c \in Live
    BY <1>1, <1>2, <1>9, <1>11, <2>2 DEF LinkInv
  <2> QED BY <2>1, <2>2
<1>14. ExportInv'
  BY <1>1, <1>11 DEF ExportInv, Quiet
<1>15. RetainedInv'
  <2>1. InCache' = InCache
    BY DEF InCache, CachedIn
  <2> QED BY <1>1, <1>3, <1>5, <1>10, <2>1 DEF RetainedInv
<1>16. NoGemFault'
  BY <1>1 DEF NoGemFault
<1> QED BY <1>3, <1>6, <1>7, <1>8, <1>9, <1>12, <1>13, <1>14, <1>15, <1>16 DEF ShareInv

(* A handle without a structure: the import that finds no memory, and the  *)
(* one that never returns.                                                 *)
LEMMA ShareOrphan ==
  ASSUME CoreInv, ShareInv, NEW h \in Handles, NEW o \in Objs, Opens(h, o),
         "get_tiling_by_name" \in Fails \/ h \in kernel'.leaked, Quiet,
         UNCHANGED << vma, bo, named, cache, fault >>
  PROVE  ShareInv'
<1>1. /\ OpenInv /\ ApartInv /\ CoveredInv /\ PrivateInv /\ LinkInv /\ ExportInv /\ SharedIsNamed
      /\ RetainedInv /\ NoGemFault
  BY DEF ShareInv
<1>2. Live' = Live /\ InCache' = InCache /\ InCache \subseteq Live
  BY CachedLive DEF Live, Exists, InCache, CachedIn
<1>3. /\ FileInv' /\ \A g \in Handles \ {h} : kernel'.file[g] = kernel.file[g]
      /\ \A c \in Live : ObjOf(c)' = ObjOf(c)
      /\ Shared(kernel') = Shared(kernel)
  BY OpenKeeps
<1>4. /\ \A c \in Live : bo[c].gem_handle # h
      /\ kernel'.dontneed = kernel.dontneed /\ kernel'.purged = kernel.purged
      /\ kernel'.leaked \ {h} = kernel.leaked \ {h}
  BY DEF Opens
<1>5. OpenInv' /\ ApartInv'
  BY <1>1, <1>2, <1>3, <1>4 DEF OpenInv, ApartInv
<1>10. CoveredInv'
  <2>1. \A c \in Live' : bo'[c].gem_handle \notin kernel'.leaked
    BY <1>1, <1>2, <1>4 DEF CoveredInv
  <2>2. ASSUME "get_tiling_by_name" \notin Fails, NEW g \in Handles, kernel'.file[g] # NoObj
        PROVE  g \in kernel'.leaked \/ \E c \in Live' : bo'[c].gem_handle = g
    <3>1. CASE g = h
      BY <2>2, <3>1
    <3>2. CASE g # h
      BY <1>1, <1>2, <1>3, <1>4, <2>2, <3>2 DEF CoveredInv
    <3> QED BY <3>1, <3>2
  <2> QED BY <2>1, <2>2 DEF CoveredInv
<1>6. PrimeFree' /\ \A c : Exporting(c)' <=> Exporting(c)
  BY QuietKeeps
<1>7. PrivateInv' /\ SharedIsNamed' /\ LinkInv'
  BY <1>1, <1>2, <1>3, <1>6 DEF PrivateInv, SharedIsNamed, LinkInv
<1>8. ExportInv' /\ NoGemFault'
  BY <1>1 DEF ExportInv, Quiet, NoGemFault
<1>9. RetainedInv'
  BY <1>1, <1>2, <1>3, <1>4 DEF RetainedInv
<1> QED BY <1>3, <1>5, <1>6, <1>7, <1>8, <1>9, <1>10 DEF ShareInv

(* The handle the kernel gives for an object: free, or the object's own.   *)
LEMMA OpensHandle ==
  ASSUME CoreInv, ShareInv, NEW o \in Objs, CanOpen(kernel, o), NEW h, h = HandleFor(kernel, o),
         \/ kernel' = OpenHandle(kernel, o)
         \/ kernel' = Leak(OpenHandle(kernel, o), h),
         kernel.file[h] = o => \A c \in Live : bo[c].gem_handle # h
  PROVE  /\ h \in Handles /\ Opens(h, o)
         /\ kernel' = OpenHandle(kernel, o) => h \notin kernel'.leaked
         /\ kernel' = Leak(OpenHandle(kernel, o), h) => h \in kernel'.leaked
         /\ kernel'.busy = kernel.busy
<1>1. kernel \in KernelRecord /\ OpenInv
  BY DEF CoreInv, GemTypeOK, ShareInv
<1>2. /\ h \in Handles
      /\ kernel.file[h] = o \/ (kernel.file[h] = NoObj /\ HandlesOf(kernel, o) = {})
  BY <1>1, HandleForType
<1> DEFINE k == OpenHandle(kernel, o)
<1>3. /\ k \in KernelRecord /\ k.file = [kernel.file EXCEPT ![h] = o]
      /\ k.flinked = kernel.flinked /\ k.fds = kernel.fds
      /\ k.dontneed = kernel.dontneed /\ k.purged = kernel.purged /\ k.leaked = kernel.leaked \ {h}
      /\ k.busy = kernel.busy
  BY <1>1, OpenType
<1> HIDE DEF k
<1>5. /\ kernel'.file = k.file /\ kernel'.flinked = k.flinked /\ kernel'.fds = k.fds
      /\ kernel'.dontneed = k.dontneed /\ kernel'.purged = k.purged /\ kernel'.busy = k.busy
      /\ kernel' = k \/ kernel'.leaked = k.leaked \cup {h}
  <2>1. CASE kernel' = k
    BY <2>1
  <2>2. CASE kernel' = Leak(k, h)
    BY <1>3, <2>2 DEF Leak, KernelRecord
  <2> QED BY <2>1, <2>2 DEF k
<1>7. kernel' = Leak(k, h) => h \in kernel'.leaked
  BY <1>3 DEF Leak, KernelRecord
<1>4. \A c \in Live : bo[c].gem_handle # h
  BY <1>1, <1>2 DEF OpenInv
<1>6. kernel'.leaked \ {h} = kernel.leaked \ {h}
  BY <1>3, <1>5
<1>8. kernel' = k => h \notin kernel'.leaked
  BY <1>3
<1> QED BY <1>2, <1>3, <1>4, <1>5, <1>6, <1>7, <1>8 DEF Opens, k

(* A new object.                                                           *)
LEMMA CreateBoShare ==
  ASSUME Disciplined, CoreInv, ShareInv, NEW t \in Threads, CreateBo(t)
  PROVE  ShareInv'
<1>1. thread[t].pc = "create" /\ Return(t) /\ UNCHANGED << named, cache, fault >>
  BY DEF CreateBo, At
<1>2. /\ GemTypeOK /\ PrimeFree /\ kernel \in KernelRecord
      /\ thread[t].bucket \in Buckets \cup {NoBucket}
  BY ThreadTypes DEF CoreInv, ShareInv, GemTypeOK
<1>3. Quiet
  BY <1>1, <1>2, QuietReturn
<1>4. CASE UNCHANGED << vma, bo, kernel, held >>
  BY <1>1, <1>3, <1>4, SameAll, ShareCalm
<1>5. ASSUME NEW b \in Fresh, NEW o \in Dead(kernel), HandlesOf(kernel, NoObj) # {},
             bo' = [bo EXCEPT ![b] = Created(HandleFor(kernel, o), thread[t].bucket)],
             vma' = InitVmaList(vma, b), kernel' = OpenHandle(kernel, o)
      PROVE  ShareInv'
  <2>1. o \in Objs /\ CanOpen(kernel, o) /\ HandlesOf(kernel, o) = {} /\ o \notin Shared(kernel)
    BY <1>5 DEF Dead, CanOpen
  <2>2. PICK h : h = HandleFor(kernel, o)
    OBVIOUS
  <2>3. h \in Handles
    BY <1>2, <2>1, <2>2, HandleForType
  <2>4. kernel.file[h] # o
    BY <2>1, <2>3 DEF HandlesOf
  <2>5. Opens(h, o) /\ h \notin kernel'.leaked
    BY <1>5, <2>1, <2>2, <2>4, OpensHandle
  <2>6. b \in Bos /\ Live' = Live \cup {b} /\ b \notin Live
    BY <1>1, <1>5, NewVma DEF Fresh, Live
  <2> DEFINE r == Created(h, thread[t].bucket)
  <2>7. r \in BoRecord /\ r.gem_handle = h /\ r.name_list = "self"
    BY <1>2, <2>3, CreatedType
  <2>8. bo' = [bo EXCEPT ![b] = r]
    BY <1>5, <2>2
  <2> HIDE DEF r
  <2>9. bo'[b] = r /\ \A c \in Bos \ {b} : bo'[c] = bo[c]
    BY <1>2, <2>6, <2>7, <2>8, BoPut
  <2> QED BY <1>1, <1>3, <2>1, <2>3, <2>5, <2>6, <2>7, <2>9, ShareBirth
<1> QED BY <1>1, <1>4, <1>5 DEF CreateBo, Disciplined

(* A reference to an object on the list of named ones.                     *)
LEMMA FoundShare ==
  ASSUME CoreInv, ShareInv, NEW S, S # {}, S \subseteq Items(named), Found(FirstNamed(S)),
         UNCHANGED << vma, named, cache, thread, fault >>, SameKernel
  PROVE  ShareInv'
<1>1. GemTypeOK /\ PrimeFree
  BY DEF CoreInv, ShareInv
<1>2. PICK b \in Bos : b = FirstNamed(S)
  BY <1>1, FirstNamedIn, NamedBos
<1>3. bo' = [bo EXCEPT ![b].refcount = bo[b].refcount + 1]
  BY <1>1, <1>2 DEF Found, GemTypeOK
<1>4. SameBo /\ Quiet
  BY <1>1, <1>3, SameCount, QuietSame
<1>5. Live' = Live
  BY DEF Live, Exists
<1> QED BY <1>4, <1>5, ShareStill

(* An import by name: the list knows every live object of the name.        *)
LEMMA CreateFromNameShare ==
  ASSUME CoreInv, ShareInv, NEW t \in Threads, NEW o \in Objs, CreateFromName(t, o)
  PROVE  ShareInv'
<1>1. thread[t].pc = "idle" /\ UNCHANGED << cache, fault >>
  BY DEF CreateFromName, Calls, At
<1>2. /\ GemTypeOK /\ PrimeFree /\ SharedIsNamed /\ OpenInv /\ kernel \in KernelRecord
      /\ named \in Seq(Bos) /\ NamedInv
  BY DEF CoreInv, ShareInv, GemTypeOK
<1>3. CASE /\ WithName(o) # {}
           /\ Found(FirstNamed(WithName(o)))
           /\ UNCHANGED << vma, named, lock, thread, kernel >>
  <2>1. WithName(o) \subseteq Items(named) /\ SameKernel
    BY <1>3 DEF WithName, SameKernel
  <2> QED BY <1>1, <1>3, <2>1, FoundShare
<1>4. PICK h : h = HandleFor(kernel, o)
  OBVIOUS
<1>5. CASE o \in kernel.flinked /\ CanOpen(kernel, o) /\ kernel' = OpenHandle(kernel, o)
           /\ WithHandle(h) # {} /\ Found(FirstNamed(WithHandle(h)))
           /\ UNCHANGED << vma, named, lock, thread >>
  <2>1. WithHandle(h) \subseteq Items(named)
    BY DEF WithHandle
  <2>2. PICK c \in Live : bo[c].gem_handle = h
    BY <1>2, <1>5, <2>1 DEF WithHandle, NamedInv, Used
  <2>3. h \in Handles /\ kernel.file[h] # NoObj
    BY <1>2, <2>2 DEF OpenInv
  <2>4. kernel.file[h] = o
    BY <1>2, <1>4, <1>5, <2>3, HandleForType
  <2>5. /\ kernel'.file = [kernel.file EXCEPT ![h] = o]
        /\ kernel'.flinked = kernel.flinked /\ kernel'.fds = kernel.fds
        /\ kernel'.dontneed = kernel.dontneed /\ kernel'.purged = kernel.purged
        /\ kernel'.leaked = kernel.leaked \ {h}
    BY <1>2, <1>4, <1>5, OpenType
  <2>7. h \notin kernel.leaked
    BY <2>2 DEF ShareInv, CoveredInv
  <2>6. SameKernel
    BY <1>2, <2>3, <2>4, <2>5, <2>7, KernelTypes DEF SameKernel
  <2> QED BY <1>1, <1>5, <2>1, <2>6, FoundShare
<1>6. CASE o \in kernel.flinked /\ CanOpen(kernel, o) /\ WithHandle(h) = {}
           /\ (kernel' = OpenHandle(kernel, o) \/ kernel' = Leak(OpenHandle(kernel, o), h))
  <2>1. ASSUME kernel.file[h] = o, h \in Handles, NEW c \in Live PROVE bo[c].gem_handle # h
    <3> SUFFICES ASSUME bo[c].gem_handle = h PROVE FALSE
      OBVIOUS
    <3>1. ObjOf(c) \in Shared(kernel)
      BY <1>6, <2>1 DEF ObjOf, Shared
    <3>2. c \in Items(named)
      BY <1>2, <3>1 DEF SharedIsNamed
    <3> QED BY <1>6, <3>2 DEF WithHandle
  <2>2. h \in Handles
    BY <1>2, <1>4, <1>6, HandleForType
  <2>3. /\ Opens(h, o) /\ (kernel' = OpenHandle(kernel, o) => h \notin kernel'.leaked)
        /\ (kernel' = Leak(OpenHandle(kernel, o), h) => h \in kernel'.leaked)
    BY <1>4, <1>6, <2>1, <2>2, OpensHandle
  <2>4. ASSUME kernel' = OpenHandle(kernel, o), NEW b \in Fresh, bo' = [bo EXCEPT ![b] = Imported(h, o)],
               vma' = InitVmaList(vma, b), named' = Append(named, b), UNCHANGED thread
        PROVE  ShareInv'
    <3>1. b \in Bos /\ Live' = Live \cup {b} /\ b \notin Live
      BY <1>1, <2>4, NewVma DEF Fresh, Live
    <3>2. Items(named') = Items(named) \cup {b}
      BY <1>2, <2>4, <3>1, AppendItems
    <3> DEFINE r == Imported(h, o)
    <3>3. r \in BoRecord /\ r.gem_handle = h /\ r.name_list = "linked" /\ ~r.reusable
      BY <2>2, ImportedType
    <3>4. bo' = [bo EXCEPT ![b] = r]
      BY <2>4
    <3> HIDE DEF r
    <3>5. bo'[b] = r /\ \A c \in Bos \ {b} : bo'[c] = bo[c]
      BY <1>2, <3>1, <3>3, <3>4, BoPut
    <3>6. Quiet
      BY <1>2, <2>4, QuietSame
    <3> QED BY <1>1, <2>2, <2>3, <2>4, <3>1, <3>2, <3>3, <3>5, <3>6, ShareBirth
  <2>5. ASSUME "get_tiling_by_name" \in Fails, Goto(t, "deadlock"), UNCHANGED << vma, bo, named >>
        PROVE  ShareInv'
    <3>1. Quiet
      BY <1>1, <1>2, <2>5, QuietGoto DEF Places
    <3> QED BY <1>1, <2>2, <2>3, <2>5, <3>1, ShareOrphan
  <2>7. ASSUME kernel' = Leak(OpenHandle(kernel, o), h), UNCHANGED << vma, bo, named, thread >>
        PROVE  ShareInv'
    <3>1. Quiet
      BY <1>2, <2>7, QuietSame
    <3> QED BY <1>1, <2>2, <2>3, <2>7, <3>1, ShareOrphan
  <2>6. \/ kernel' = OpenHandle(kernel, o) /\
           \E b \in Fresh : /\ bo' = [bo EXCEPT ![b] = Imported(h, o)]
                            /\ vma' = InitVmaList(vma, b)
                            /\ named' = Append(named, b)
                            /\ UNCHANGED thread
        \/ "get_tiling_by_name" \in Fails /\ Goto(t, "deadlock") /\ UNCHANGED << vma, bo, named >>
        \/ kernel' = Leak(OpenHandle(kernel, o), h) /\ UNCHANGED << vma, bo, named, thread >>
        \/ WithName(o) # {} /\ Found(FirstNamed(WithName(o)))
             /\ UNCHANGED << vma, named, lock, thread, kernel >>
    BY <1>4, <1>6 DEF CreateFromName
  <2> QED BY <1>3, <2>4, <2>5, <2>6, <2>7
<1>7. \/ WithName(o) # {} /\ Found(FirstNamed(WithName(o)))
           /\ UNCHANGED << vma, named, lock, thread, kernel >>
      \/ /\ o \in kernel.flinked /\ CanOpen(kernel, o)
         /\ \/ /\ WithHandle(h) = {}
               /\ kernel' = OpenHandle(kernel, o) \/ kernel' = Leak(OpenHandle(kernel, o), h)
            \/ /\ WithHandle(h) # {} /\ Found(FirstNamed(WithHandle(h)))
               /\ kernel' = OpenHandle(kernel, o) /\ UNCHANGED << vma, named, lock, thread >>
  BY <1>4 DEF CreateFromName
<1> QED BY <1>3, <1>5, <1>6, <1>7

-----------------------------------------------------------------------------
(* Objects go, or go to the cache and come back.                           *)

(* drm_intel_gem_bo_free: the handle is closed; an object of the cache is  *)
(* known to nobody else, so the kernel forgets it altogether.              *)
LEMMA ShareDeath ==
  ASSUME CoreInv, ShareInv, NEW b \in Live, Live' = Live \ {b}, InCache' = InCache \ {b},
         kernel' = CloseHandle(kernel, bo[b].gem_handle), \A c \in Bos \ {b} : bo'[c] = bo[c],
         Items(named') = Items(named) \ {b}, ~Exporting(b), fault' = fault, Quiet
  PROVE  ShareInv'
<1>1. /\ FileInv /\ OpenInv /\ ApartInv /\ CoveredInv /\ PrivateInv /\ LinkInv /\ ExportInv
      /\ SharedIsNamed /\ RetainedInv /\ NoGemFault /\ GemTypeOK /\ Live \subseteq Bos
      /\ kernel \in KernelRecord
  BY DEF ShareInv, CoreInv, Live, GemTypeOK
<1>2. PICK h \in Handles : h = bo[b].gem_handle
  BY <1>1 DEF OpenInv
<1>3. /\ kernel'.file = [kernel.file EXCEPT ![h] = NoObj]
      /\ kernel'.flinked = kernel.flinked /\ kernel'.fds = kernel.fds
      /\ kernel'.dontneed = kernel.dontneed \ ({kernel.file[h]} \ Shared(kernel))
      /\ kernel'.purged = kernel.purged \ ({kernel.file[h]} \ Shared(kernel))
      /\ kernel'.leaked = kernel.leaked \ {h}
  BY <1>1, <1>2, CloseType
<1>4. kernel'.file[h] = NoObj /\ \A g \in Handles \ {h} : kernel'.file[g] = kernel.file[g]
  BY <1>1, <1>3, KernelTypes
<1>5. /\ \A c \in Live' : /\ c \in Live /\ c # b /\ bo'[c] = bo[c]
                          /\ bo[c].gem_handle \in Handles \ {h}
      /\ \A c \in Live' : c \in Items(named') <=> c \in Items(named)
  BY <1>1, <1>2 DEF ApartInv, OpenInv
<1>6. \A c \in Live' : ObjOf(c)' = ObjOf(c)
  BY <1>4, <1>5 DEF ObjOf
<1>7. Shared(kernel') = Shared(kernel)
  BY <1>3 DEF Shared
<1>8. FileInv'
  BY <1>1, <1>4 DEF FileInv
<1>9. OpenInv' /\ ApartInv'
  BY <1>1, <1>4, <1>5 DEF OpenInv, ApartInv
<1>10. CoveredInv'
  <2>1. \A c \in Live' : bo'[c].gem_handle \notin kernel'.leaked
    BY <1>1, <1>3, <1>5 DEF CoveredInv
  <2>2. ASSUME "get_tiling_by_name" \notin Fails, NEW g \in Handles, kernel'.file[g] # NoObj,
               g \notin kernel'.leaked
        PROVE  \E c \in Live' : bo'[c].gem_handle = g
    <3>1. g # h /\ kernel.file[g] # NoObj /\ g \notin kernel.leaked
      BY <1>3, <1>4, <2>2
    <3>2. PICK c \in Live : bo[c].gem_handle = g
      BY <1>1, <2>2, <3>1 DEF CoveredInv
    <3>3. c \in Live'
      BY <1>2, <3>1, <3>2
    <3> QED BY <1>5, <3>2, <3>3
  <2> QED BY <2>1, <2>2 DEF CoveredInv
<1>11. PrimeFree' /\ \A c : Exporting(c)' <=> Exporting(c)
  BY QuietKeeps
<1>12. PrivateInv' /\ SharedIsNamed'
  BY <1>1, <1>5, <1>6, <1>7 DEF PrivateInv, SharedIsNamed
<1>13. LinkInv'
  BY <1>1, <1>5, <1>11 DEF LinkInv
<1>14. ExportInv'
  <2> SUFFICES ASSUME NEW u \in Threads, thread'[u].pc = "export"
               PROVE  thread'[u].bo \in Items(named) \ {b}
    BY DEF ExportInv
  <2>1. thread[u].pc = "export" /\ thread'[u].bo = thread[u].bo
    BY DEF Quiet
  <2> QED BY <1>1, <2>1 DEF ExportInv, Exporting
<1>15. RetainedInv'
  <2> SUFFICES ASSUME NEW o \in kernel'.dontneed \cup kernel'.purged
               PROVE  \E c \in InCache \ {b} : ObjOf(c)' = o
    BY DEF RetainedInv
  <2>1. /\ o \in kernel.dontneed \cup kernel.purged
        /\ o = kernel.file[h] => o \in Shared(kernel)
    BY <1>3
  <2>2. PICK c \in InCache : ObjOf(c) = o
    BY <1>1, <2>1 DEF RetainedInv
  <2>3. c # b
    <3> SUFFICES ASSUME c = b PROVE FALSE
      OBVIOUS
    <3>1. o \notin Shared(kernel) /\ o = kernel.file[h]
      BY <1>1, <1>2, <2>2, CachedLive DEF PrivateInv, ObjOf
    <3> QED BY <2>1, <3>1
  <2>4. c \in Live'
    BY <2>3, CachedLive
  <2> QED BY <1>6, <2>2, <2>3, <2>4
<1>16. NoGemFault'
  BY <1>1 DEF NoGemFault
<1> QED BY <1>8, <1>9, <1>10, <1>11, <1>12, <1>13, <1>14, <1>15, <1>16 DEF ShareInv

(* A cached object is freed.                                               *)
LEMMA CachedFreeShare ==
  ASSUME CoreInv, ShareInv, NEW k \in Buckets, NEW b \in Items(cache[k]), NEW list \in Seq(Bos),
         NoDuplicates(list), Items(list) = Items(cache[k]) \ {b},
         cache' = [cache EXCEPT ![k] = list], FreeBo(b), UNCHANGED << named, fault >>, Quiet
  PROVE  ShareInv'
<1>1. /\ GemTypeOK /\ Good(vma) /\ Bounded(vma) /\ VirtualMapped(vma)
      /\ vma.link \in [Bos -> Links]
  BY DEF CoreInv, VmaInv, Good, VmaState
<1>2. /\ b \in Bos \ Used /\ b \in Live /\ vma.map_count[b] = 0 /\ b \notin Items(named)
      /\ ~Exporting(b)
  BY CachedFacts, ParkedFacts DEF Exporting
<1>3. vma' = FreeVma(vma, b) /\ vma.link[b] # "zero"
  BY <1>2 DEF FreeBo, Live, Exists
<1>4. vma'.link = [vma.link EXCEPT ![b] = "zero"]
  BY <1>1, <1>2, <1>3, FreeGood
<1>5. Live' = Live \ {b}
  BY <1>1, <1>2, <1>4 DEF Live, Exists
<1>6. \A c \in Bos \ {b} : bo'[c] = bo[c]
  <2>1. bo' = [bo EXCEPT ![b] = Blank]
    BY DEF FreeBo
  <2> QED BY <1>1, <1>2, <2>1, BlankType, BoPut
<1>7. InCache' = InCache \ {b}
  BY <1>5, <1>6, CacheTaken
<1>8. Items(named') = Items(named) \ {b} /\ kernel' = CloseHandle(kernel, bo[b].gem_handle)
  BY <1>2 DEF FreeBo
<1> QED BY <1>2, <1>5, <1>6, <1>7, <1>8, ShareDeath

(* The cleanup frees an aged object.                                       *)
LEMMA CleanupFreeShare ==
  ASSUME CoreInv, ShareInv, NEW t \in Threads, CleanupFree(t)
  PROVE  ShareInv'
<1>1. PICK k \in Buckets : /\ cache[k] # << >> /\ FreeBo(cache[k][1])
                           /\ cache' = [cache EXCEPT ![k] = Tail(@)]
  BY DEF CleanupFree, Expired
<1>2. UNCHANGED << named, thread, fault >>
  BY DEF CleanupFree
<1>3. /\ PrimeFree /\ cache[k] \in Seq(Bos)
      /\ NoDuplicates(cache[k]) /\ cache' = [cache EXCEPT ![k] = Tail(cache[k])]
  BY <1>1 DEF CoreInv, GemTypeOK, CacheInv, ShareInv
<1>4. /\ Tail(cache[k]) \in Seq(Bos) /\ cache[k][1] \in Items(cache[k])
      /\ Items(Tail(cache[k])) = Items(cache[k]) \ {cache[k][1]} /\ NoDuplicates(Tail(cache[k]))
  BY <1>1, <1>3, TailItems
<1>5. Quiet
  BY <1>2, <1>3, QuietSame
<1> QED BY <1>1, <1>2, <1>3, <1>4, <1>5, CachedFreeShare

(* A turn of the purge of a bucket.                                        *)
LEMMA PurgeBucketShare ==
  ASSUME CoreInv, ShareInv, NEW t \in Threads, PurgeBucket(t)
  PROVE  ShareInv'
<1> DEFINE k == thread[t].bucket
           list == Bucket(k)
<1>1. thread[t].pc = "purge" /\ UNCHANGED << named, fault >>
  BY DEF PurgeBucket, At
<1>2. GemTypeOK /\ PrimeFree
  BY DEF CoreInv, ShareInv
<1>3. CASE Goto(t, "alloc") /\ UNCHANGED << vma, bo, cache, kernel >>
  <2>1. Quiet
    BY <1>1, <1>2, <1>3, QuietGoto DEF Places
  <2> QED BY <1>1, <1>3, <2>1, SameAll, ShareCalm
<1>4. CASE /\ list # << >> /\ FreeBo(list[1])
           /\ cache' = [cache EXCEPT ![k] = Tail(@)] /\ UNCHANGED thread
  <2>1. k \in Buckets /\ list = cache[k]
    BY <1>4 DEF Bucket
  <2>2. /\ cache[k] \in Seq(Bos)
        /\ NoDuplicates(cache[k]) /\ cache' = [cache EXCEPT ![k] = Tail(cache[k])]
    BY <1>4, <2>1 DEF CoreInv, GemTypeOK, CacheInv
  <2>3. /\ Tail(cache[k]) \in Seq(Bos) /\ cache[k][1] \in Items(cache[k])
        /\ Items(Tail(cache[k])) = Items(cache[k]) \ {cache[k][1]} /\ NoDuplicates(Tail(cache[k]))
    BY <1>4, <2>1, <2>2, TailItems
  <2>4. Quiet
    BY <1>2, <1>4, QuietSame
  <2> HIDE DEF k, list
  <2> QED BY <1>1, <1>4, <2>1, <2>2, <2>3, <2>4, CachedFreeShare
<1> QED BY <1>3, <1>4 DEF PurgeBucket

(* b leaves the cache: the kernel has kept its pages and may no longer     *)
(* discard them.                                                           *)
LEMMA ShareReuse ==
  ASSUME CoreInv, ShareInv, NEW b \in Live, Live' = Live, InCache' = InCache \ {b},
         kernel'.file = kernel.file, kernel'.leaked = kernel.leaked,
         Shared(kernel') = Shared(kernel), kernel'.purged = kernel.purged, ObjOf(b) \notin kernel.purged,
         kernel'.dontneed = kernel.dontneed \ {ObjOf(b)},
         SameBo, named' = named, fault' = fault, Quiet
  PROVE  ShareInv'
<1>1. /\ PrivateInv /\ LinkInv /\ ExportInv /\ SharedIsNamed /\ RetainedInv /\ NoGemFault
      /\ Live \subseteq Bos /\ InCache \subseteq Live
  BY CachedLive DEF ShareInv, Live
<1>2. \A c \in Bos : /\ bo'[c].gem_handle = bo[c].gem_handle
                     /\ bo'[c].name_list = bo[c].name_list
                     /\ bo'[c].reusable => bo[c].reusable
  BY DEF SameBo
<1>3. /\ FileInv' /\ OpenInv' /\ ApartInv' /\ CoveredInv'
      /\ \A c \in Bos : ObjOf(c)' = ObjOf(c)
  BY <1>2, FixedFiles
<1>4. PrimeFree' /\ \A c : Exporting(c)' <=> Exporting(c)
  BY QuietKeeps
<1>5. PrivateInv' /\ SharedIsNamed'
  BY <1>1, <1>2, <1>3 DEF PrivateInv, SharedIsNamed
<1>6. LinkInv'
  BY <1>1, <1>2, <1>4 DEF LinkInv
<1>7. ExportInv' /\ NoGemFault'
  BY <1>1 DEF ExportInv, Quiet, NoGemFault
<1>8. RetainedInv'
  <2> SUFFICES ASSUME NEW o \in kernel'.dontneed \cup kernel'.purged
               PROVE  \E c \in InCache \ {b} : ObjOf(c)' = o
    BY DEF RetainedInv
  <2>1. o \in kernel.dontneed \cup kernel.purged /\ o # ObjOf(b)
    OBVIOUS
  <2>2. PICK c \in InCache : ObjOf(c) = o
    BY <1>1, <2>1 DEF RetainedInv
  <2> QED BY <1>1, <1>3, <2>1, <2>2
<1> QED BY <1>3, <1>4, <1>5, <1>6, <1>7, <1>8 DEF ShareInv

(* The pages of o are wanted again.                                        *)
LEMMA MadviseWanted ==
  ASSUME NEW k, k \in KernelRecord, NEW o \in Objs \cup {NoObj}
  PROVE  LET w == Madvise(k, o, FALSE)
         IN  /\ w.file = k.file /\ w.flinked = k.flinked /\ w.fds = k.fds
             /\ w.purged = k.purged /\ w.dontneed = k.dontneed \ {o} /\ w.leaked = k.leaked
<1> DEFINE s == k.dontneed \ {o}
           w == [k EXCEPT !.dontneed = s]
<1>1. Madvise(k, o, FALSE) = w
  BY DEF Madvise, KernelRecord
<1> HIDE DEF s
<1>2. /\ w.file = k.file /\ w.flinked = k.flinked /\ w.fds = k.fds
      /\ w.purged = k.purged /\ w.dontneed = s /\ w.leaked = k.leaked
  BY DEF KernelRecord
<1> HIDE DEF w
<1> QED BY <1>1, <1>2 DEF s

(* alloc_internal takes a cached object, or frees one that lost its pages. *)
LEMMA AllocHitShare ==
  ASSUME Disciplined, CoreInv, ShareInv, NEW t \in Threads, AllocHit(t)
  PROVE  ShareInv'
<1> DEFINE k == thread[t].bucket
<1>1. thread[t].pc = "alloc" /\ UNCHANGED << named, fault >>
  BY DEF AllocHit, At
<1>2. PICK b \in Candidates(t) :
        /\ cache' = [cache EXCEPT ![k] = RemoveItem(@, b)]
        /\ \/ FreeBo(b) /\ Goto(t, "purge")
           \/ Retained(kernel, ObjOf(b)) /\ Reuse(t, b)
  BY DEF AllocHit, Disciplined
<1>3. GemTypeOK /\ kernel \in KernelRecord /\ PrimeFree
  BY DEF CoreInv, GemTypeOK, ShareInv
<1>4. k \in Buckets /\ b \in Items(cache[k])
  BY <1>3, CandidateCached
<1> HIDE DEF k
<1> DEFINE list == RemoveItem(cache[k], b)
<1>5. /\ list \in Seq(Bos) /\ NoDuplicates(list) /\ Items(list) = Items(cache[k]) \ {b}
      /\ cache' = [cache EXCEPT ![k] = list]
  <2>1. cache[k] \in Seq(Bos) /\ NoDuplicates(cache[k])
    BY <1>4 DEF CoreInv, GemTypeOK, CacheInv
  <2> QED BY <1>2, <2>1, RemoveItemItems
<1> HIDE DEF list
<1>6. CASE FreeBo(b) /\ Goto(t, "purge")
  <2>1. Quiet
    BY <1>1, <1>3, <1>6, QuietGoto DEF Places
  <2> QED BY <1>1, <1>4, <1>5, <1>6, <2>1, CachedFreeShare
<1>7. CASE Retained(kernel, ObjOf(b)) /\ Reuse(t, b)
  <2>1. b \in Bos /\ b \in Live /\ bo[b].reusable
    BY <1>4, CachedFacts
  <2>2. kernel' = Madvise(kernel, ObjOf(b), FALSE) /\ vma' = vma /\ Return(t)
    BY <1>7 DEF Reuse
  <2>3. /\ kernel'.file = kernel.file /\ Shared(kernel') = Shared(kernel)
        /\ kernel'.purged = kernel.purged /\ ObjOf(b) \notin kernel.purged
        /\ kernel'.dontneed = kernel.dontneed \ {ObjOf(b)} /\ kernel'.leaked = kernel.leaked
    <3>1. ObjOf(b) \in Objs \cup {NoObj}
      BY <1>3, <2>1, ObjOfType
    <3>2. /\ kernel'.file = kernel.file /\ kernel'.flinked = kernel.flinked
          /\ kernel'.fds = kernel.fds /\ kernel'.purged = kernel.purged
          /\ kernel'.dontneed = kernel.dontneed \ {ObjOf(b)} /\ kernel'.leaked = kernel.leaked
      BY <1>3, <2>2, <3>1, MadviseWanted, Zenon
    <3> QED BY <1>7, <3>2 DEF Shared, Retained
  <2>4. Quiet
    BY <1>1, <1>3, <2>2, QuietReturn
  <2> DEFINE i == bo[b].idle \/ (~thread[t].flag /\ ObjOf(b) # NoObj)
             r == [bo[b] EXCEPT !.refcount = 1, !.reusable = TRUE, !.idle = i,
                                !.used_as_reloc_target = FALSE]
  <2>5. bo' = [bo EXCEPT ![b] = r]
    BY <1>3, <1>7, <2>1 DEF Reuse, GemTypeOK
  <2> HIDE DEF i
  <2>6. r.gem_handle = bo[b].gem_handle /\ r.name_list = bo[b].name_list
    BY <1>3, <2>1, BoTypes DEF BoRecord
  <2> HIDE DEF r
  <2>7. SameBo /\ \A c \in Bos \ {b} : bo'[c] = bo[c]
    BY <1>3, <2>1, <2>5, <2>6, SamePut DEF GemTypeOK
  <2>8. Live' = Live
    BY <2>2 DEF Live, Exists
  <2>9. InCache' = InCache \ {b}
    BY <1>4, <1>5, <2>7, <2>8, CacheTaken
  <2> QED BY <1>1, <2>1, <2>3, <2>4, <2>7, <2>8, <2>9, ShareReuse
<1> QED BY <1>2, <1>6, <1>7

(* b goes to the cache: nobody else knows it, and the kernel may discard   *)
(* its pages.                                                              *)
LEMMA ShareKeep ==
  ASSUME CoreInv, ShareInv, NEW b \in Live, Live' = Live, InCache' = InCache \cup {b},
         kernel'.file = kernel.file, kernel'.leaked = kernel.leaked,
         Shared(kernel') = Shared(kernel), kernel'.purged = kernel.purged,
         kernel'.dontneed \subseteq kernel.dontneed \cup {ObjOf(b)},
         SameBo, named' = named, fault' = fault, Quiet
  PROVE  ShareInv'
<1>1. /\ PrivateInv /\ LinkInv /\ ExportInv /\ SharedIsNamed /\ RetainedInv /\ NoGemFault
      /\ Live \subseteq Bos /\ InCache \subseteq Live
  BY CachedLive DEF ShareInv, Live
<1>2. \A c \in Bos : /\ bo'[c].gem_handle = bo[c].gem_handle
                     /\ bo'[c].name_list = bo[c].name_list
                     /\ bo'[c].reusable => bo[c].reusable
  BY DEF SameBo
<1>3. /\ FileInv' /\ OpenInv' /\ ApartInv' /\ CoveredInv'
      /\ \A c \in Bos : ObjOf(c)' = ObjOf(c)
  BY <1>2, FixedFiles
<1>4. PrimeFree' /\ \A c : Exporting(c)' <=> Exporting(c)
  BY QuietKeeps
<1>5. PrivateInv' /\ SharedIsNamed'
  BY <1>1, <1>2, <1>3 DEF PrivateInv, SharedIsNamed
<1>6. LinkInv'
  BY <1>1, <1>2, <1>4 DEF LinkInv
<1>7. ExportInv' /\ NoGemFault'
  BY <1>1 DEF ExportInv, Quiet, NoGemFault
<1>8. RetainedInv'
  <2> SUFFICES ASSUME NEW o \in kernel'.dontneed \cup kernel'.purged
               PROVE  \E c \in InCache \cup {b} : ObjOf(c)' = o
    BY DEF RetainedInv
  <2>1. CASE o = ObjOf(b)
    BY <1>1, <1>3, <2>1
  <2>2. CASE o \in kernel.dontneed \cup kernel.purged
    BY <1>1, <1>3, <2>2 DEF RetainedInv
  <2> QED BY <2>1, <2>2
<1> QED BY <1>3, <1>4, <1>5, <1>6, <1>7, <1>8 DEF ShareInv

(* The rest of unreference_final.                                          *)
LEMMA RetireBoShare ==
  ASSUME CoreInv, ShareInv, NEW t \in Threads, RetireBo(t)
  PROVE  ShareInv'
<1>1. PICK b : b = Top(t).bo
  OBVIOUS
<1>2. /\ thread[t].pc = "frames" /\ Top(t).final
      /\ named' = RemoveItem(named, b) /\ fault' = (fault \/ DelFaults(bo[b].name_list))
  BY <1>1 DEF RetireBo, At
<1>3. /\ GemTypeOK /\ PrimeFree /\ LinkInv /\ kernel \in KernelRecord /\ fault \in BOOLEAN
      /\ b \in Bos /\ b \in Used /\ b \in Live /\ b \notin InCache /\ bo[b].refcount = 0
      /\ named \in Seq(Bos) /\ NoDuplicates(named)
  <2>1. b \in Bos /\ b \in Used /\ bo[b].refcount = 0
    <3>1. /\ Top(t).bo \in Bos /\ Top(t).bo \in Used /\ FrameOK(t, Len(thread[t].frames))
          /\ Top(t) = thread[t].frames[Len(thread[t].frames)]
      BY <1>2, TopOK, Zenon
    <3>2. bo[Top(t).bo].refcount = 0
      BY <1>2, <3>1 DEF FrameOK
    <3> QED BY <1>1, <3>1, <3>2, Zenon
  <2> QED BY <2>1 DEF CoreInv, GemTypeOK, Used, ShareInv, NamedInv
<1>4. ~Exporting(b)
  <2> SUFFICES ASSUME NEW u \in Threads, thread[u].bo = b PROVE FALSE
    BY DEF Exporting
  <2>1. bo[b].refcount > 0
    BY <1>3, BorrowedIsUsed
  <2> QED BY <1>3, <2>1
<1>5. Quiet
  <2> DEFINE gs == Pop(t)
             pc == IF gs = << >> THEN "cleanup" ELSE "frames"
             r == [thread[t] EXCEPT !.frames = gs, !.pc = pc]
  <2>1. thread' = [thread EXCEPT ![t] = r]
    BY <1>3 DEF RetireBo, GemTypeOK
  <2>2. pc \in {"cleanup", "frames"}
    OBVIOUS
  <2> HIDE DEF gs, pc
  <2>3. r.pc = pc
    BY <1>3, ThreadTypes DEF ThreadRecord
  <2> HIDE DEF r
  <2> QED BY <1>2, <1>3, <2>1, <2>2, <2>3, MovePut, QuietStep
<1>6. fault' = fault
  BY <1>2, <1>3 DEF LinkInv, DelFaults
<1>7. Items(named') = Items(named) \ {b}
  BY <1>2, <1>3, RemoveItemItems
<1>8. CASE Keeps(b)
  <2>1. /\ vma' = DropMappings(vma, b) /\ kernel' = Madvise(kernel, ObjOf(b), TRUE)
        /\ cache' = [cache EXCEPT ![bo[b].bucket] = Append(@, b)]
        /\ bo' = [bo EXCEPT ![b].relocs = << >>, ![b].used_as_reloc_target = FALSE,
                            ![b].name_list = AfterDel(@), ![b].free_time = thread[t].time]
    BY <1>1, <1>8 DEF RetireBo
  <2>2. PICK k \in Buckets : k = bo[b].bucket /\ bo[b].reusable
    BY <1>8 DEF Keeps
  <2>3. cache' = [cache EXCEPT ![k] = Append(cache[k], b)]
    BY <1>3, <2>1, <2>2 DEF GemTypeOK
  <2>4. b \notin Items(named) /\ bo[b].name_list = "self"
    BY <1>3, <1>4, <2>2 DEF LinkInv
  <2>5. named' = named
    BY <1>2, <2>4 DEF RemoveItem
  <2> DEFINE l == AfterDel(bo[b].name_list)
             tm == thread[t].time
             q == [bo[b] EXCEPT !.relocs = << >>, !.used_as_reloc_target = FALSE,
                                !.name_list = l, !.free_time = tm]
  <2>6. bo' = [bo EXCEPT ![b] = q]
    BY <1>3, <2>1 DEF GemTypeOK
  <2>7. l = bo[b].name_list
    BY <2>4 DEF AfterDel
  <2> HIDE DEF l, tm
  <2>8. /\ q.gem_handle = bo[b].gem_handle /\ q.name_list = l
        /\ q.bucket = bo[b].bucket /\ q.reusable = bo[b].reusable
    BY <1>3, BoTypes DEF BoRecord
  <2> HIDE DEF q
  <2>9. bo'[b] = q /\ \A c \in Bos \ {b} : bo'[c] = bo[c]
    BY <1>3, <2>6 DEF GemTypeOK
  <2>10. SameBo
    BY <1>3, <2>6, <2>7, <2>8, SamePut
  <2>11. Live' = Live
    BY <1>3, <2>1, RetireVma
  <2>12. InCache' = InCache \cup {b}
    BY <1>3, <2>2, <2>3, <2>8, <2>9, <2>11, CacheGiven
  <2>13. /\ kernel'.file = kernel.file /\ Shared(kernel') = Shared(kernel)
         /\ kernel'.purged = kernel.purged /\ kernel'.leaked = kernel.leaked
         /\ kernel'.dontneed \subseteq kernel.dontneed \cup {ObjOf(b)}
    <3>1. ObjOf(b) \in Objs \cup {NoObj}
      BY <1>3, ObjOfType
    <3>2. /\ kernel'.file = kernel.file /\ kernel'.flinked = kernel.flinked
          /\ kernel'.fds = kernel.fds /\ kernel'.purged = kernel.purged
          /\ kernel'.leaked = kernel.leaked
          /\ kernel'.dontneed = kernel.dontneed \cup ({ObjOf(b)} \ {NoObj})
      BY <1>3, <2>1, <3>1, MadviseType
    <3> QED BY <3>2 DEF Shared
  <2> QED BY <1>3, <1>5, <1>6, <2>5, <2>10, <2>11, <2>12, <2>13, ShareKeep
<1>9. CASE ~Keeps(b)
  <2>1. /\ vma' = FreeVma(DropMappings(vma, b), b) /\ cache' = cache
        /\ kernel' = CloseHandle(kernel, bo[b].gem_handle) /\ bo' = [bo EXCEPT ![b] = Blank]
    BY <1>1, <1>9 DEF RetireBo, Discard
  <2>2. \A c \in Bos \ {b} : bo'[c] = bo[c]
    BY <1>3, <2>1, BlankType, BoPut
  <2>3. Live' = Live \ {b}
    BY <1>3, <2>1, DiscardVma
  <2>4. InCache' = InCache \ {b}
    BY <1>3, <2>1 DEF InCache, CachedIn
  <2> QED BY <1>3, <1>4, <1>5, <1>6, <1>7, <2>1, <2>2, <2>3, <2>4, ShareDeath
<1> QED BY <1>8, <1>9

-----------------------------------------------------------------------------
(* The invariant of the specification.                                     *)

(* The buffer manager as drm_intel_bufmgr_gem_init leaves it.              *)
LEMMA ShareInitInv == GemInit => ShareInv
<1> SUFFICES ASSUME GemInit PROVE ShareInv
  OBVIOUS
<1>1. /\ named = << >> /\ ~fault /\ \A t \in Threads : thread[t].pc = "idle"
      /\ kernel.dontneed = {} /\ kernel.purged = {} /\ kernel.leaked = {}
      /\ \A h \in Handles : kernel.file[h] = NoObj
  BY DEF GemInit, Idle
<1>2. Live = {}
  BY DEF GemInit, VmaInit, Live, Exists
<1>3. FileInv /\ OpenInv /\ ApartInv /\ CoveredInv
  BY <1>1, <1>2 DEF FileInv, OpenInv, ApartInv, CoveredInv
<1>4. PrivateInv /\ LinkInv /\ SharedIsNamed
  BY <1>2 DEF PrivateInv, LinkInv, SharedIsNamed
<1>5. ExportInv /\ PrimeFree /\ RetainedInv /\ NoGemFault
  BY <1>1 DEF ExportInv, PrimeFree, RetainedInv, NoGemFault
<1> QED BY <1>3, <1>4, <1>5 DEF ShareInv

(* Every step keeps it; the steps of an import from a dma-buf do not       *)
(* happen.                                                                 *)
LEMMA ShareNextInv ==
  ASSUME Disciplined, CoreInv, ShareInv, [GemNext]_gemVars
  PROVE  ShareInv'
<1>1. CASE UNCHANGED gemVars
  <2>1. UNCHANGED << vma, cache, named, kernel, fault >> /\ bo' = bo /\ thread' = thread
    BY <1>1 DEF gemVars
  <2>2. SameBo /\ Quiet
    BY <2>1, SameAll, QuietSame DEF ShareInv
  <2> QED BY <2>1, <2>2, ShareCalm
<1>2. CASE Environment
  BY <1>2, EnvironmentShare
<1>3. ASSUME NEW t \in Threads, Call(t) PROVE ShareInv'
  <2>1. ASSUME NEW b \in Bos,
               \/ Reference(t, b) \/ Unreference(t, b) \/ ClearRelocs(t, b) \/ Exec(t, b)
               \/ Busy(t, b) \/ DisableReuse(t, b) \/ Flink(t, b) \/ ExportToPrime(t, b)
               \/ MapBo(t, b)
        PROVE  ShareInv'
    BY <2>1, ReferenceShare, UnreferenceShare, ClearRelocsShare, ExecShare, BusyShare,
       DisableReuseShare, FlinkShare, ExportToPrimeShare, MapBoShare
  <2>2. ASSUME NEW b \in Bos, NEW c \in Bos, EmitReloc(t, b, c) PROVE ShareInv'
    BY <2>2, EmitRelocShare
  <2>3. ASSUME NEW o \in Objs, CreateFromName(t, o) \/ FDToHandle(t, o) PROVE ShareInv'
    <3>1. ~FDToHandle(t, o)
      BY DEF FDToHandle, Calls, Disciplined
    <3> QED BY <2>3, <3>1, CreateFromNameShare
  <2>4. CASE Alloc(t) \/ SetVmaLimit(t)
    BY <2>4, AllocShare, SetVmaLimitShare
  <2> QED BY <1>3, <2>1, <2>2, <2>3, <2>4 DEF Call
<1>4. ASSUME NEW t \in Threads, Proceed(t) PROVE ShareInv'
  <2>1. CASE AllocMiss(t) \/ AllocHit(t) \/ PurgeBucket(t) \/ CreateBo(t)
    BY <2>1, AllocMissShare, AllocHitShare, PurgeBucketShare, CreateBoShare
  <2>2. CASE DropTarget(t) \/ Cleared(t) \/ RetireBo(t) \/ CleanupFree(t) \/ CleanupDone(t)
    BY <2>2, DropTargetShare, ClearedShare, RetireBoShare, CleanupFreeShare, CleanupDoneShare
  <2>3. ~GetTiling(t)
    BY DEF GetTiling, At, ShareInv, PrimeFree
  <2>4. CASE StoreIdle(t) \/ HandleToFD(t)
    BY <2>4, StoreIdleShare, HandleToFDShare
  <2> QED BY <1>4, <2>1, <2>2, <2>3, <2>4 DEF Proceed
<1>5. ASSUME NEW t \in Threads, Enter(t) PROVE ShareInv'
  <2>1. ~CreateFromPrime(t)
    BY DEF CreateFromPrime, At, ShareInv, PrimeFree
  <2> QED BY <1>5, <2>1, UnrefLockedShare, ClearLockedShare, FlinkLockedShare DEF Enter
<1> QED BY <1>1, <1>2, <1>3, <1>4, <1>5 DEF GemNext

(* Counts, lists and kernel objects agree in every reachable state.        *)
THEOREM ShareInvariant ==
  ASSUME Disciplined
  PROVE  GemSpec => [](CoreInv /\ ShareInv)
<1>1. GemInit => CoreInv /\ ShareInv
  BY GemInitInv, ShareInitInv
<1>2. (CoreInv /\ ShareInv) /\ [GemNext]_gemVars => (CoreInv /\ ShareInv)'
  BY GemNextInv, ShareNextInv DEF Disciplined
<1> QED BY <1>1, <1>2, PTL DEF GemSpec

(* Two live structures never stand for one kernel object (the comment in   *)
(* create_from_prime), as long as imports are by name.                     *)
THEOREM GemOneBoPerObject ==
  ASSUME Disciplined
  PROVE  GemSpec => []OneBoPerObject
<1>1. CoreInv /\ ShareInv => OneBoPerObject
  BY ObjsApart DEF OneBoPerObject, CoreInv, ShareInv
<1> QED BY <1>1, ShareInvariant, PTL

(* Whatever another process may know by name or fd is on the list that     *)
(* create_from_name searches.                                              *)
THEOREM GemSharedIsNamed ==
  ASSUME Disciplined
  PROVE  GemSpec => []SharedIsNamed
<1>1. ShareInv => SharedIsNamed
  BY DEF ShareInv
<1> QED BY <1>1, ShareInvariant, PTL

(* No DRMLISTDEL in unreference_final is of a zeroed or stale name_list.   *)
THEOREM GemNeverFaults ==
  ASSUME Disciplined
  PROVE  GemSpec => []NoGemFault
<1>1. ShareInv => NoGemFault
  BY DEF ShareInv
<1> QED BY <1>1, ShareInvariant, PTL

(* What the cache of unreference_final and alloc_internal holds may be     *)
(* handed out as new.                                                      *)
THEOREM GemCacheIsClean ==
  ASSUME Disciplined
  PROVE  GemSpec => []CacheIsClean
<1>1. CoreInv /\ ShareInv => CacheIsClean
  <2> SUFFICES ASSUME CoreInv, ShareInv, NEW k \in Buckets
               PROVE  /\ NoDuplicates(cache[k])
                      /\ \A b \in CachedIn(k) :
                           /\ bo[b].refcount = 0 /\ bo[b].reusable /\ bo[b].bucket = k
                           /\ bo[b].relocs = << >> /\ vma.map_count[b] = 0
                           /\ ObjOf(b) \notin Shared(kernel)
    BY DEF CacheIsClean
  <2>1. NoDuplicates(cache[k])
    BY DEF CoreInv, CacheInv
  <2>2. ASSUME NEW b \in Items(cache[k])
        PROVE  /\ bo[b].refcount = 0 /\ bo[b].reusable /\ bo[b].bucket = k
               /\ bo[b].relocs = << >> /\ vma.map_count[b] = 0
               /\ ObjOf(b) \notin Shared(kernel)
    <3>1. b \in Bos \ Used /\ b \in Live /\ bo[b].reusable /\ bo[b].bucket = k
      BY CachedFacts
    <3>2. bo[b].refcount = 0 /\ bo[b].relocs = << >> /\ vma.map_count[b] = 0
      BY <3>1, ParkedFacts
    <3> QED BY <3>1, <3>2 DEF ShareInv, PrivateInv
  <2> QED BY <2>1, <2>2 DEF CachedIn
<1> QED BY <1>1, ShareInvariant, PTL

(* No buffer outside the cache has been or may be discarded by the kernel: *)
(* alloc_internal takes the DONTNEED back before it hands a buffer out.    *)
THEOREM GemInUseIsRetained ==
  ASSUME Disciplined
  PROVE  GemSpec => []InUseIsRetained
<1>1. CoreInv /\ ShareInv => InUseIsRetained
  <2> SUFFICES ASSUME CoreInv, ShareInv, NEW b \in Live, b \notin InCache,
                      ObjOf(b) \in kernel.dontneed \cup kernel.purged
               PROVE  FALSE
    BY DEF InUseIsRetained
  <2>1. PICK c \in InCache : ObjOf(c) = ObjOf(b)
    BY DEF ShareInv, RetainedInv
  <2>2. c \in Live
    BY CachedLive
  <2>3. c = b
    BY <2>1, <2>2, ObjsApart DEF CoreInv, ShareInv
  <2> QED BY <2>1, <2>3
<1> QED BY <1>1, ShareInvariant, PTL

(* No handle is lost but by an import by name that finds no memory for its *)
(* structure, and such a handle is taken over by the next import of the    *)
(* object; unless the tiling of an imported object cannot be read, when    *)
(* create_from_name waits for its own lock.                                *)
THEOREM GemHandlesMatch ==
  ASSUME Disciplined, "get_tiling_by_name" \notin Fails
  PROVE  GemSpec => []HandlesMatch
<1>1. CoreInv /\ ShareInv => HandlesMatch
  <2> SUFFICES ASSUME CoreInv, ShareInv PROVE HandlesMatch
    OBVIOUS
  <2>1. \A b \in Live : ObjOf(b) # NoObj
    BY LiveObj DEF CoreInv, ShareInv
  <2>2. /\ \A b \in Live : bo[b].gem_handle \notin kernel.leaked
        /\ \A h \in Handles : kernel.file[h] # NoObj =>
             h \in kernel.leaked \/ \E b \in Live : bo[b].gem_handle = h
    BY DEF ShareInv, CoveredInv
  <2> QED BY <2>1, <2>2 DEF HandlesMatch
<1> QED BY <1>1, ShareInvariant, PTL

-----------------------------------------------------------------------------
(* Relocations form a forest: an object gets relocations only while it is  *)
(* the target of none.                                                     *)

(* The references of relocations are only given up, and no target loses    *)
(* its mark.                                                               *)
LEMMA TreesShrink ==
  ASSUME RelocsAreTrees, \A c \in Bos : RelocsTo(c)' \subseteq RelocsTo(c),
         \A c \in Bos : bo[c].used_as_reloc_target =>
                          bo'[c].used_as_reloc_target \/ RelocsTo(c)' = {}
  PROVE  RelocsAreTrees'
<1>1. \A b : DependsOn(b)' \subseteq DependsOn(b)
  BY DEF DependsOn
<1> SUFFICES ASSUME NEW b \in Bos, NEW c \in DependsOn(b)'
             PROVE  /\ bo'[c].used_as_reloc_target
                    /\ \E S \in SUBSET Bos :
                         c \in S /\ b \notin S /\ \A d \in S : DependsOn(d)' \subseteq S
  BY DEF RelocsAreTrees
<1>2. c \in DependsOn(b) /\ c \in Bos /\ RelocsTo(c)' # {}
  BY <1>1 DEF DependsOn
<1>3. PICK S \in SUBSET Bos : c \in S /\ b \notin S /\ \A d \in S : DependsOn(d) \subseteq S
  BY <1>2 DEF RelocsAreTrees
<1>4. \A d \in S : DependsOn(d)' \subseteq S
  BY <1>1, <1>3
<1>5. bo'[c].used_as_reloc_target
  BY <1>2 DEF RelocsAreTrees
<1> QED BY <1>3, <1>4, <1>5

(* b, the target of no relocation, gets one to c.                          *)
LEMMA TreesGrow ==
  ASSUME RelocsAreTrees, NEW b \in Bos, NEW c \in Bos \ {b}, ~bo[b].used_as_reloc_target,
         NEW n, \A d \in Bos : RelocsTo(d)' = IF d = c THEN RelocsTo(d) \cup {<< b, n >>}
                                              ELSE RelocsTo(d),
         bo'[c].used_as_reloc_target,
         \A d \in Bos : bo[d].used_as_reloc_target => bo'[d].used_as_reloc_target
  PROVE  RelocsAreTrees'
<1>1. \A d \in Bos : b \notin DependsOn(d)
  BY DEF RelocsAreTrees
<1>2. /\ \A d \in Bos \ {b} : DependsOn(d)' \subseteq DependsOn(d)
      /\ DependsOn(b)' \subseteq DependsOn(b) \cup {c}
  BY DEF DependsOn
<1> SUFFICES ASSUME NEW x \in Bos, NEW y \in DependsOn(x)'
             PROVE  /\ bo'[y].used_as_reloc_target
                    /\ \E S \in SUBSET Bos :
                         y \in S /\ x \notin S /\ \A d \in S : DependsOn(d)' \subseteq S
  BY DEF RelocsAreTrees
<1>3. y \in DependsOn(x) \/ (x = b /\ y = c)
  BY <1>2
<1>4. y \in Bos /\ y # b /\ bo'[y].used_as_reloc_target
  BY <1>1, <1>3 DEF RelocsAreTrees, DependsOn
<1>5. CASE x = b
  <2>1. \A d \in Bos \ {b} : DependsOn(d)' \subseteq Bos \ {b}
    BY <1>1, <1>2 DEF DependsOn
  <2> QED BY <1>4, <1>5, <2>1
<1>6. CASE x # b
  <2>1. y \in DependsOn(x)
    BY <1>3, <1>6
  <2>2. PICK S \in SUBSET Bos : y \in S /\ x \notin S /\ \A d \in S : DependsOn(d) \subseteq S
    BY <2>1 DEF RelocsAreTrees
  <2> DEFINE T == S \ {b}
  <2>3. \A d \in T : DependsOn(d)' \subseteq T
    BY <1>1, <1>2, <2>2
  <2>4. T \in SUBSET Bos /\ y \in T /\ x \notin T
    BY <1>4, <2>2
  <2> QED BY <1>4, <2>3, <2>4
<1> QED BY <1>5, <1>6

(* A thread moves outside the teardown of a tree.                          *)
Aside(t) ==
  /\ \A u \in Threads \ {t} : thread'[u] = thread[u]
  /\ thread[t].pc # "frames" /\ thread'[t].pc # "frames"

(* Relocations stay, and only what nobody refers to is marked afresh.      *)
SameTree ==
  \A c \in Bos : /\ bo'[c].relocs = bo[c].relocs
                 /\ bo[c].used_as_reloc_target =>
                      bo'[c].used_as_reloc_target \/ bo[c].refcount = 0

(* A sum of naturals.                                                      *)
LEMMA NothingLeft ==
  ASSUME NEW x \in Nat, NEW y \in Nat, NEW z \in Nat, x + y + z = 0
  PROVE  ~(z >= 1)
OBVIOUS

(* What nobody refers to is the target of no relocation.                   *)
LEMMA NoTarget ==
  ASSUME CoreInv, NEW c \in Bos, bo[c].refcount = 0
  PROVE  RelocsTo(c) = {}
<1>1. GemTypeOK /\ CountInv
  BY DEF CoreInv
<1>2. /\ Cardinality(Borrowers(c)) \in Nat /\ Cardinality(RelocsTo(c)) \in Nat
      /\ bo[c].refcount = held[c] + Cardinality(Borrowers(c)) + Cardinality(RelocsTo(c))
      /\ RelocsTo(c) # {} => Cardinality(RelocsTo(c)) >= 1
  BY <1>1, CountsApart
<1>3. held[c] \in Nat
  BY <1>1 DEF GemTypeOK
<1>4. ~(Cardinality(RelocsTo(c)) >= 1)
  BY <1>2, <1>3, NothingLeft
<1> QED BY <1>2, <1>4, Zenon

(* A step outside the teardowns.                                           *)
LEMMA TreesStay ==
  ASSUME CoreInv, RelocsAreTrees, NEW t \in Threads, Aside(t), SameTree
  PROVE  RelocsAreTrees'
<1>1. \A c \in Bos : \A i \in 1 .. MaxRelocs : Passed(c, i)' <=> Passed(c, i)
  <2> TAKE c \in Bos
  <2> TAKE i \in 1 .. MaxRelocs
  <2>1. \A u \in Threads : (thread'[u].pc = "frames" <=> thread[u].pc = "frames")
                           /\ (thread[u].pc = "frames" => thread'[u].frames = thread[u].frames)
    BY DEF Aside
  <2> QED BY <2>1 DEF Passed, At
<1>2. \A c \in Bos : RelocsTo(c)' = RelocsTo(c)
  BY <1>1, RelocsKept DEF SameTree
<1>3. \A c \in Bos : bo[c].refcount = 0 => RelocsTo(c)' = {}
  BY <1>2, NoTarget
<1> QED BY <1>2, <1>3, TreesShrink DEF SameTree

(* One structure is replaced.                                              *)
LEMMA TreePut ==
  ASSUME GemTypeOK, NEW b \in Bos, NEW r, bo' = [bo EXCEPT ![b] = r], r.relocs = bo[b].relocs,
         r.used_as_reloc_target = bo[b].used_as_reloc_target \/ bo[b].refcount = 0
  PROVE  SameTree
<1>1. bo'[b] = r /\ \A c \in Bos \ {b} : bo'[c] = bo[c]
  BY DEF GemTypeOK
<1> QED BY <1>1 DEF SameTree

(* None is.                                                                *)
LEMMA TreeAll ==
  ASSUME bo' = bo
  PROVE  SameTree
BY DEF SameTree

(* A count changes.                                                        *)
LEMMA TreeCount ==
  ASSUME GemTypeOK, NEW b \in Bos, NEW n, bo' = [bo EXCEPT ![b].refcount = n]
  PROVE  SameTree
<1> DEFINE r == [bo[b] EXCEPT !.refcount = n]
<1>1. bo' = [bo EXCEPT ![b] = r]
  OBVIOUS
<1>2. r.relocs = bo[b].relocs /\ r.used_as_reloc_target = bo[b].used_as_reloc_target
  BY BoTypes DEF BoRecord
<1> HIDE DEF r
<1> QED BY <1>1, <1>2, TreePut

(* A call returns, goes on or begins.                                      *)
LEMMA AsideSteps ==
  ASSUME GemTypeOK, NEW t \in Threads, thread[t].pc # "frames"
  PROVE  /\ Return(t) => Aside(t)
         /\ \A where \in Places \ {"frames"} : Goto(t, where) => Aside(t)
         /\ \A where \in Places \ {"frames"}, b \in Bos : Begin(t, where, b) => Aside(t)
         /\ thread' = thread => Aside(t)
<1>1. ASSUME Return(t) PROVE Aside(t)
  BY <1>1, ReturnStep DEF Aside
<1>2. ASSUME NEW where \in Places \ {"frames"}, Goto(t, where) PROVE Aside(t)
  BY <1>2, GotoStep DEF Aside
<1>3. ASSUME NEW where \in Places \ {"frames"}, NEW b \in Bos, Begin(t, where, b) PROVE Aside(t)
  BY <1>3, BeginStep DEF Aside
<1>4. ASSUME thread' = thread PROVE Aside(t)
  BY <1>4 DEF Aside
<1> QED BY <1>1, <1>2, <1>3, <1>4

(* A thread is given a new record.                                         *)
LEMMA AsidePut ==
  ASSUME GemTypeOK, NEW t \in Threads, thread[t].pc # "frames", NEW r, r.pc # "frames",
         thread' = [thread EXCEPT ![t] = r]
  PROVE  Aside(t)
BY MovePut DEF Aside

(* Only idle flags change.                                                 *)
LEMMA TreeIdle ==
  ASSUME GemTypeOK, NEW S,
         bo' = [c \in Bos |-> IF c \in S THEN [bo[c] EXCEPT !.idle = FALSE] ELSE bo[c]]
  PROVE  SameTree
<1> SUFFICES ASSUME NEW c \in Bos
             PROVE  /\ bo'[c].relocs = bo[c].relocs
                    /\ bo'[c].used_as_reloc_target = bo[c].used_as_reloc_target
  BY DEF SameTree
<1>1. bo'[c] = IF c \in S THEN [bo[c] EXCEPT !.idle = FALSE] ELSE bo[c]
  OBVIOUS
<1> QED BY <1>1, BoTypes DEF BoRecord

(* A structure nobody refers to is freed or made anew.                     *)
LEMMA TreeParked ==
  ASSUME CoreInv, NEW b \in Bos, b \notin Used, NEW r, bo' = [bo EXCEPT ![b] = r],
         r.relocs = << >>
  PROVE  SameTree
<1>1. GemTypeOK /\ bo[b].refcount = 0 /\ bo[b].relocs = << >>
  BY ParkedFacts DEF CoreInv
<1>2. bo'[b] = r /\ \A c \in Bos \ {b} : bo'[c] = bo[c]
  BY <1>1 DEF GemTypeOK
<1> QED BY <1>1, <1>2 DEF SameTree

(* The operations that change no structure.                                *)
LEMMA CallsTree ==
  ASSUME CoreInv, RelocsAreTrees, NEW t \in Threads,
         \/ Alloc(t) \/ CleanupDone(t) \/ SetVmaLimit(t)
         \/ \E b \in Bos : ClearRelocs(t, b) \/ Busy(t, b) \/ Flink(t, b) \/ MapBo(t, b)
         \/ \E o \in Objs : FDToHandle(t, o)
  PROVE  RelocsAreTrees'
<1>1. GemTypeOK
  BY DEF CoreInv
<1>2. ASSUME Alloc(t) PROVE Aside(t) /\ bo' = bo
  <2>1. PICK k, for_render :
          thread' = [thread EXCEPT ![t].pc = "alloc", ![t].bucket = k, ![t].flag = for_render]
    BY <1>2 DEF Alloc
  <2> DEFINE r == [thread[t] EXCEPT !.pc = "alloc", !.bucket = k, !.flag = for_render]
  <2>2. thread' = [thread EXCEPT ![t] = r]
    BY <1>1, <2>1 DEF GemTypeOK
  <2>3. r.pc = "alloc"
    BY <1>1, ThreadTypes DEF ThreadRecord
  <2>4. thread[t].pc = "idle" /\ bo' = bo
    BY <1>2 DEF Alloc, Calls, At
  <2> HIDE DEF r
  <2> QED BY <1>1, <2>2, <2>3, <2>4, AsidePut
<1>3. ASSUME CleanupDone(t) PROVE Aside(t) /\ bo' = bo
  <2>1. thread[t].pc = "cleanup" /\ Return(t) /\ bo' = bo
    BY <1>3 DEF CleanupDone, At
  <2> QED BY <1>1, <2>1, AsideSteps
<1>4. ASSUME SetVmaLimit(t) PROVE Aside(t) /\ bo' = bo
  <2>1. thread[t].pc = "idle" /\ thread' = thread /\ bo' = bo
    BY <1>4 DEF SetVmaLimit, Calls, At
  <2> QED BY <1>1, <2>1, AsideSteps
<1>5. ASSUME NEW b \in Bos, ClearRelocs(t, b) PROVE Aside(t) /\ bo' = bo
  <2>1. PICK start :
          thread' = [thread EXCEPT ![t].pc = "clear", ![t].bo = b, ![t].time = clock,
                                   ![t].frames = << [bo |-> b, from |-> start + 1,
                                                     at |-> start + 1, final |-> FALSE] >>]
    BY <1>5 DEF ClearRelocs
  <2> DEFINE fs == << [bo |-> b, from |-> start + 1, at |-> start + 1, final |-> FALSE] >>
             r == [thread[t] EXCEPT !.pc = "clear", !.bo = b, !.time = clock, !.frames = fs]
  <2> HIDE DEF fs
  <2>2. thread' = [thread EXCEPT ![t] = r]
    BY <1>1, <2>1 DEF GemTypeOK, fs
  <2>3. r.pc = "clear"
    BY <1>1, ThreadTypes DEF ThreadRecord
  <2>4. thread[t].pc = "idle" /\ bo' = bo
    BY <1>5 DEF ClearRelocs, Calls, At
  <2> HIDE DEF r
  <2> QED BY <1>1, <2>2, <2>3, <2>4, AsidePut
<1>6. ASSUME NEW b \in Bos, Busy(t, b) PROVE Aside(t) /\ bo' = bo
  <2>1. thread' = [thread EXCEPT ![t].pc = "busy", ![t].bo = b, ![t].flag = BusyIoctl(b)]
    BY <1>6 DEF Busy
  <2> DEFINE r == [thread[t] EXCEPT !.pc = "busy", !.bo = b, !.flag = BusyIoctl(b)]
  <2>2. thread' = [thread EXCEPT ![t] = r]
    BY <1>1, <2>1 DEF GemTypeOK
  <2>3. r.pc = "busy"
    BY <1>1, ThreadTypes DEF ThreadRecord
  <2>4. thread[t].pc = "idle" /\ bo' = bo
    BY <1>6 DEF Busy, Calls, At
  <2> HIDE DEF r
  <2> QED BY <1>1, <2>2, <2>3, <2>4, AsidePut
<1>7. ASSUME NEW b \in Bos, Flink(t, b) PROVE Aside(t) /\ bo' = bo
  <2>1. thread[t].pc = "idle" /\ Begin(t, "flink", b) /\ bo' = bo
    BY <1>7 DEF Flink, Calls, At
  <2> QED BY <1>1, <2>1, AsideSteps DEF Places
<1>8. ASSUME NEW b \in Bos, MapBo(t, b) PROVE Aside(t) /\ bo' = bo
  <2>1. thread[t].pc = "idle" /\ thread' = thread /\ bo' = bo
    BY <1>8 DEF MapBo, Calls, At
  <2> QED BY <1>1, <2>1, AsideSteps
<1>9. ASSUME NEW o \in Objs, FDToHandle(t, o) PROVE Aside(t) /\ bo' = bo
  <2>1. PICK flag, h :
          thread' = [thread EXCEPT ![t].pc = "prime", ![t].flag = flag, ![t].handle = h]
    <3>1. CASE thread' = [thread EXCEPT ![t].pc = "prime", ![t].flag = TRUE,
                                        ![t].handle = HandleFor(kernel, o)]
      BY <3>1
    <3>2. CASE \E h \in Handles \cup {0} :
                 thread' = [thread EXCEPT ![t].pc = "prime", ![t].handle = h]
      <4>1. PICK h \in Handles \cup {0} :
              thread' = [thread EXCEPT ![t].pc = "prime", ![t].handle = h]
        BY <3>2
      <4>2. [thread[t] EXCEPT !.pc = "prime", !.handle = h]
              = [thread[t] EXCEPT !.pc = "prime", !.flag = thread[t].flag, !.handle = h]
        BY <1>1, ThreadTypes DEF ThreadRecord
      <4>3. thread' = [thread EXCEPT ![t].pc = "prime", ![t].flag = thread[t].flag,
                                     ![t].handle = h]
        BY <1>1, <4>1, <4>2 DEF GemTypeOK
      <4> QED BY <4>3
    <3> QED BY <1>9, <3>1, <3>2 DEF FDToHandle
  <2> DEFINE r == [thread[t] EXCEPT !.pc = "prime", !.flag = flag, !.handle = h]
  <2>2. thread' = [thread EXCEPT ![t] = r]
    BY <1>1, <2>1 DEF GemTypeOK
  <2>3. r.pc = "prime"
    BY <1>1, ThreadTypes DEF ThreadRecord
  <2>4. thread[t].pc = "idle" /\ bo' = bo
    BY <1>9 DEF FDToHandle, Calls, At
  <2> HIDE DEF r
  <2> QED BY <1>1, <2>2, <2>3, <2>4, AsidePut
<1>10. Aside(t) /\ bo' = bo
  BY <1>2, <1>3, <1>4, <1>5, <1>6, <1>7, <1>8, <1>9
<1> QED BY <1>10, TreeAll, TreesStay

(* The operations that clear idle flags.                                   *)
LEMMA IdleTree ==
  ASSUME CoreInv, RelocsAreTrees, NEW t \in Threads,
         AllocMiss(t) \/ \E b \in Bos : Exec(t, b)
  PROVE  RelocsAreTrees'
<1>1. GemTypeOK
  BY DEF CoreInv
<1>2. CASE AllocMiss(t)
  <2>1. /\ thread[t].pc = "alloc" /\ Goto(t, "create")
        /\ bo' = [b \in Bos |-> IF b \in Candidates(t) THEN [bo[b] EXCEPT !.idle = FALSE] ELSE bo[b]]
    BY <1>2 DEF AllocMiss, At
  <2>2. Aside(t)
    BY <1>1, <2>1, AsideSteps DEF Places
  <2>3. SameTree
    BY <1>1, <2>1, TreeIdle
  <2> QED BY <2>2, <2>3, TreesStay
<1>3. ASSUME NEW b \in Bos, Exec(t, b) PROVE RelocsAreTrees'
  <2>1. /\ thread[t].pc = "idle" /\ thread' = thread
        /\ bo' = [c \in Bos |-> IF c \in Reach(b) THEN [bo[c] EXCEPT !.idle = FALSE] ELSE bo[c]]
    BY <1>3 DEF Exec, Executed, Calls, At
  <2>2. Aside(t)
    BY <1>1, <2>1, AsideSteps
  <2>3. SameTree
    BY <1>1, <2>1, TreeIdle
  <2> QED BY <2>2, <2>3, TreesStay
<1> QED BY <1>2, <1>3

(* reference.                                                              *)
LEMMA ReferenceTree ==
  ASSUME CoreInv, RelocsAreTrees, NEW t \in Threads, NEW b \in Bos, Reference(t, b)
  PROVE  RelocsAreTrees'
<1>1. /\ thread[t].pc = "idle" /\ thread' = thread /\ GemTypeOK
      /\ bo' = [bo EXCEPT ![b].refcount = bo[b].refcount + 1]
  BY DEF Reference, Calls, At, CoreInv, GemTypeOK
<1>2. Aside(t) /\ SameTree
  BY <1>1, AsideSteps, TreeCount
<1> QED BY <1>2, TreesStay

(* unreference, up to the lock.                                            *)
LEMMA UnreferenceTree ==
  ASSUME CoreInv, RelocsAreTrees, NEW t \in Threads, NEW b \in Bos, Unreference(t, b)
  PROVE  RelocsAreTrees'
<1>1. /\ thread[t].pc = "idle" /\ GemTypeOK
      /\ \/ /\ thread' = [thread EXCEPT ![t].pc = "unref", ![t].bo = b, ![t].time = clock]
            /\ bo' = bo
         \/ bo' = [bo EXCEPT ![b].refcount = bo[b].refcount - 1] /\ thread' = thread
  BY DEF Unreference, Calls, At, CoreInv, GemTypeOK
<1>2. CASE /\ thread' = [thread EXCEPT ![t].pc = "unref", ![t].bo = b, ![t].time = clock]
           /\ bo' = bo
  <2> DEFINE r == [thread[t] EXCEPT !.pc = "unref", !.bo = b, !.time = clock]
  <2>1. thread' = [thread EXCEPT ![t] = r]
    BY <1>1, <1>2 DEF GemTypeOK
  <2>2. r.pc = "unref"
    BY <1>1, ThreadTypes DEF ThreadRecord
  <2> HIDE DEF r
  <2> QED BY <1>1, <1>2, <2>1, <2>2, AsidePut, TreeAll, TreesStay
<1>3. CASE bo' = [bo EXCEPT ![b].refcount = bo[b].refcount - 1] /\ thread' = thread
  <2>1. Aside(t) /\ SameTree
    BY <1>1, <1>3, AsideSteps, TreeCount
  <2> QED BY <2>1, TreesStay
<1> QED BY <1>1, <1>2, <1>3

(* The answer of the busy ioctl is stored.                                 *)
LEMMA StoreIdleTree ==
  ASSUME CoreInv, RelocsAreTrees, NEW t \in Threads, StoreIdle(t)
  PROVE  RelocsAreTrees'
<1>1. PICK b \in Bos : b = thread[t].bo
  BY DEF StoreIdle, At, CoreInv, BorrowInv, Borrowing
<1>2. /\ thread[t].pc = "busy" /\ Return(t) /\ GemTypeOK
      /\ bo' = [bo EXCEPT ![b].idle = ~thread[t].flag]
  BY <1>1 DEF StoreIdle, At, CoreInv
<1> DEFINE r == [bo[b] EXCEPT !.idle = ~thread[t].flag]
<1>3. bo' = [bo EXCEPT ![b] = r]
  BY <1>2 DEF GemTypeOK
<1>4. r.relocs = bo[b].relocs /\ r.used_as_reloc_target = bo[b].used_as_reloc_target
  BY <1>2, BoTypes DEF BoRecord
<1> HIDE DEF r
<1>5. Aside(t) /\ SameTree
  BY <1>2, <1>3, <1>4, AsideSteps, TreePut
<1> QED BY <1>5, TreesStay

(* disable_reuse.                                                          *)
LEMMA DisableReuseTree ==
  ASSUME CoreInv, RelocsAreTrees, NEW t \in Threads, NEW b \in Bos, DisableReuse(t, b)
  PROVE  RelocsAreTrees'
<1>1. /\ thread[t].pc = "idle" /\ thread' = thread /\ GemTypeOK
      /\ bo' = [bo EXCEPT ![b].reusable = FALSE]
  BY DEF DisableReuse, Calls, At, CoreInv
<1> DEFINE r == [bo[b] EXCEPT !.reusable = FALSE]
<1>2. bo' = [bo EXCEPT ![b] = r]
  BY <1>1 DEF GemTypeOK
<1>3. r.relocs = bo[b].relocs /\ r.used_as_reloc_target = bo[b].used_as_reloc_target
  BY <1>1, BoTypes DEF BoRecord
<1> HIDE DEF r
<1>4. Aside(t) /\ SameTree
  BY <1>1, <1>2, <1>3, AsideSteps, TreePut
<1> QED BY <1>4, TreesStay

(* flink, once it has the lock.                                            *)
LEMMA FlinkLockedTree ==
  ASSUME CoreInv, RelocsAreTrees, NEW t \in Threads, FlinkLocked(t)
  PROVE  RelocsAreTrees'
<1>1. PICK b \in Bos : b = thread[t].bo
  BY DEF FlinkLocked, At, CoreInv, BorrowInv, Borrowing
<1>2. /\ thread[t].pc = "flink" /\ Return(t) /\ GemTypeOK
      /\ \/ bo' = bo
         \/ bo' = [bo EXCEPT ![b].global_name = ObjOf(b), ![b].reusable = FALSE,
                             ![b].name_list = NamedLink(b)]
  BY <1>1 DEF FlinkLocked, At, CoreInv
<1>3. Aside(t)
  BY <1>2, AsideSteps
<1> DEFINE r == [bo[b] EXCEPT !.global_name = ObjOf(b), !.reusable = FALSE,
                              !.name_list = NamedLink(b)]
<1>4. bo' = bo \/ bo' = [bo EXCEPT ![b] = r]
  BY <1>2 DEF GemTypeOK
<1>5. r.relocs = bo[b].relocs /\ r.used_as_reloc_target = bo[b].used_as_reloc_target
  BY <1>2, BoTypes DEF BoRecord
<1> HIDE DEF r
<1>6. SameTree
  BY <1>2, <1>4, <1>5, TreePut, TreeAll
<1> QED BY <1>3, <1>6, TreesStay

(* export_to_prime, first the list and then the ioctl.                     *)
LEMMA ExportTree ==
  ASSUME CoreInv, RelocsAreTrees, NEW t \in Threads,
         HandleToFD(t) \/ \E b \in Bos : ExportToPrime(t, b)
  PROVE  RelocsAreTrees'
<1>1. GemTypeOK
  BY DEF CoreInv
<1>2. CASE HandleToFD(t)
  <2>1. PICK b \in Bos : b = thread[t].bo
    BY <1>2 DEF HandleToFD, At, CoreInv, BorrowInv, Borrowing
  <2>2. /\ thread[t].pc = "export" /\ Return(t)
        /\ bo' = bo \/ bo' = [bo EXCEPT ![b].reusable = FALSE]
    BY <1>2, <2>1 DEF HandleToFD, At
  <2> DEFINE r == [bo[b] EXCEPT !.reusable = FALSE]
  <2>3. bo' = bo \/ bo' = [bo EXCEPT ![b] = r]
    BY <1>1, <2>2 DEF GemTypeOK
  <2>4. r.relocs = bo[b].relocs /\ r.used_as_reloc_target = bo[b].used_as_reloc_target
    BY <1>1, BoTypes DEF BoRecord
  <2> HIDE DEF r
  <2>5. Aside(t) /\ SameTree
    BY <1>1, <2>2, <2>3, <2>4, AsideSteps, TreePut, TreeAll
  <2> QED BY <2>5, TreesStay
<1>3. ASSUME NEW b \in Bos, ExportToPrime(t, b) PROVE RelocsAreTrees'
  <2>1. /\ thread[t].pc = "idle" /\ Begin(t, "export", b)
        /\ bo' = [bo EXCEPT ![b].name_list = NamedLink(b)]
    BY <1>3 DEF ExportToPrime, Calls, At
  <2> DEFINE r == [bo[b] EXCEPT !.name_list = NamedLink(b)]
  <2>2. bo' = [bo EXCEPT ![b] = r]
    BY <1>1, <2>1 DEF GemTypeOK
  <2>3. r.relocs = bo[b].relocs /\ r.used_as_reloc_target = bo[b].used_as_reloc_target
    BY <1>1, BoTypes DEF BoRecord
  <2> HIDE DEF r
  <2>4. SameTree
    BY <1>1, <2>2, <2>3, TreePut
  <2>5. Aside(t)
    BY <1>1, <2>1, AsideSteps DEF Places
  <2> QED BY <2>4, <2>5, TreesStay
<1> QED BY <1>2, <1>3

(* The tiling of an imported object is read, or cannot be.                 *)
LEMMA GetTilingTree ==
  ASSUME CoreInv, RelocsAreTrees, NEW t \in Threads, GetTiling(t)
  PROVE  RelocsAreTrees'
<1>1. PICK b \in Bos : b = thread[t].bo
  BY DEF GetTiling, At, CoreInv, BorrowInv, Borrowing
<1>2. /\ thread[t].pc = "tiling" /\ GemTypeOK
      /\ \/ Return(t) /\ bo' = bo
         \/ thread' = [thread EXCEPT ![t].pc = "unref", ![t].time = clock] /\ bo' = bo
         \/ bo' = [bo EXCEPT ![b].refcount = bo[b].refcount - 1] /\ Return(t)
  BY <1>1 DEF GetTiling, At, CoreInv, GemTypeOK
<1>3. CASE Return(t) /\ bo' = bo
  BY <1>2, <1>3, AsideSteps, TreeAll, TreesStay
<1>4. CASE thread' = [thread EXCEPT ![t].pc = "unref", ![t].time = clock] /\ bo' = bo
  <2> DEFINE r == [thread[t] EXCEPT !.pc = "unref", !.time = clock]
  <2>1. thread' = [thread EXCEPT ![t] = r]
    BY <1>2, <1>4 DEF GemTypeOK
  <2>2. r.pc = "unref"
    BY <1>2, ThreadTypes DEF ThreadRecord
  <2> HIDE DEF r
  <2> QED BY <1>2, <1>4, <2>1, <2>2, AsidePut, TreeAll, TreesStay
<1>5. CASE bo' = [bo EXCEPT ![b].refcount = bo[b].refcount - 1] /\ Return(t)
  <2>1. Aside(t) /\ SameTree
    BY <1>2, <1>5, AsideSteps, TreeCount
  <2> QED BY <2>1, TreesStay
<1> QED BY <1>2, <1>3, <1>4, <1>5

(* Cached objects are freed: by the cleanup, by the purge of a bucket, by  *)
(* alloc, which may take one instead.                                      *)
LEMMA CacheTree ==
  ASSUME CoreInv, TRUE \notin CanReject, RelocsAreTrees, NEW t \in Threads,
         CleanupFree(t) \/ PurgeBucket(t) \/ AllocHit(t)
  PROVE  RelocsAreTrees'
<1>1. GemTypeOK
  BY DEF CoreInv
<1>2. ASSUME NEW k \in Buckets, NEW b \in Items(cache[k]), FreeBo(b) PROVE SameTree
  <2>1. b \in Bos /\ b \notin Used /\ bo' = [bo EXCEPT ![b] = Blank]
    BY <1>2, CachedFacts DEF FreeBo
  <2> QED BY <2>1, BlankType, TreeParked
<1>3. ASSUME NEW k \in Buckets, cache[k] # << >> PROVE cache[k][1] \in Items(cache[k])
  BY <1>1, <1>3, TailItems DEF CoreInv, CacheInv, GemTypeOK
<1>4. CASE CleanupFree(t)
  <2>1. PICK k \in Buckets : cache[k] # << >> /\ FreeBo(cache[k][1])
    BY <1>4 DEF CleanupFree, Expired
  <2>2. thread[t].pc = "cleanup" /\ thread' = thread
    BY <1>4 DEF CleanupFree, At
  <2>3. SameTree
    BY <1>2, <1>3, <2>1
  <2> QED BY <1>1, <2>2, <2>3, AsideSteps, TreesStay
<1>5. CASE PurgeBucket(t)
  <2> DEFINE k == thread[t].bucket
             list == Bucket(k)
  <2>1. thread[t].pc = "purge"
    BY <1>5 DEF PurgeBucket, At
  <2>2. CASE Goto(t, "alloc") /\ bo' = bo
    <3>1. Aside(t)
      BY <1>1, <2>1, <2>2, AsideSteps DEF Places
    <3> QED BY <2>2, <3>1, TreeAll, TreesStay
  <2>3. CASE list # << >> /\ FreeBo(list[1]) /\ thread' = thread
    <3>1. k \in Buckets /\ list = cache[k]
      BY <2>3 DEF Bucket
    <3> HIDE DEF k, list
    <3>2. SameTree
      BY <1>2, <1>3, <2>3, <3>1
    <3> QED BY <1>1, <2>1, <2>3, <3>2, AsideSteps, TreesStay
  <2> QED BY <1>5, <2>2, <2>3 DEF PurgeBucket
<1>6. CASE AllocHit(t)
  <2>1. PICK b \in Candidates(t) : (FreeBo(b) /\ Goto(t, "purge")) \/ Reuse(t, b)
    BY <1>6 DEF AllocHit
  <2>2. thread[t].pc = "alloc"
    BY <1>6 DEF AllocHit, At
  <2>3. PICK k \in Buckets : b \in Items(cache[k])
    BY <1>1, CandidateCached
  <2>4. CASE FreeBo(b) /\ Goto(t, "purge")
    <3>1. Aside(t)
      BY <1>1, <2>2, <2>4, AsideSteps DEF Places
    <3> QED BY <1>2, <2>3, <2>4, <3>1, TreesStay
  <2>5. CASE Reuse(t, b)
    <3>1. b \in Bos /\ bo[b].refcount = 0
      BY <2>3, CachedFacts, ParkedFacts
    <3> DEFINE i == bo[b].idle \/ (~thread[t].flag /\ ObjOf(b) # NoObj)
               r == [bo[b] EXCEPT !.refcount = 1, !.reusable = TRUE, !.idle = i,
                                  !.used_as_reloc_target = FALSE]
    <3>2. bo' = [bo EXCEPT ![b] = r]
      BY <1>1, <2>5, <3>1 DEF Reuse, GemTypeOK
    <3> HIDE DEF i
    <3>3. r.relocs = bo[b].relocs
      BY <1>1, <3>1, BoTypes DEF BoRecord
    <3> HIDE DEF r
    <3>4. SameTree
      BY <1>1, <3>1, <3>2, <3>3, TreePut
    <3>5. Aside(t)
      BY <1>1, <2>2, <2>5, AsideSteps DEF Reuse
    <3> QED BY <3>4, <3>5, TreesStay
  <2> QED BY <2>1, <2>4, <2>5
<1> QED BY <1>4, <1>5, <1>6

(* A structure of which none was live is made.                             *)
LEMMA TreeFresh ==
  ASSUME CoreInv, NEW b \in Fresh, NEW r, bo' = [bo EXCEPT ![b] = r], r.relocs = << >>
  PROVE  SameTree
<1>1. b \in Bos /\ b \notin Used
  BY DEF Fresh, Used, Live
<1> QED BY <1>1, TreeParked

(* An object on the list is referenced.                                    *)
LEMMA TreeFound ==
  ASSUME GemTypeOK, NEW S, S # {}, S \subseteq Items(named), Found(FirstNamed(S))
  PROVE  SameTree
<1>1. PICK b \in Bos : b = FirstNamed(S)
  BY FirstNamedIn, NamedBos
<1>2. bo' = [bo EXCEPT ![b].refcount = bo[b].refcount + 1]
  BY <1>1 DEF Found, GemTypeOK
<1> QED BY <1>2, TreeCount

(* A new object, or none.                                                  *)
LEMMA CreateBoTree ==
  ASSUME CoreInv, TRUE \notin CanReject, RelocsAreTrees, NEW t \in Threads, CreateBo(t)
  PROVE  RelocsAreTrees'
<1>1. thread[t].pc = "create" /\ Return(t) /\ GemTypeOK
  BY DEF CreateBo, At, CoreInv
<1>2. \/ \E b \in Fresh : \E h, k : bo' = [bo EXCEPT ![b] = Created(h, k)]
      \/ bo' = bo
  BY DEF CreateBo
<1>3. \A h, k : Created(h, k).relocs = << >>
  BY DEF Created, Blank
<1>4. SameTree
  BY <1>2, <1>3, TreeFresh, TreeAll
<1> QED BY <1>1, <1>4, AsideSteps, TreesStay

(* The imports.                                                            *)
LEMMA ImportTree ==
  ASSUME CoreInv, RelocsAreTrees, NEW t \in Threads,
         CreateFromPrime(t) \/ \E o \in Objs : CreateFromName(t, o)
  PROVE  RelocsAreTrees'
<1>1. GemTypeOK
  BY DEF CoreInv
<1>2. \A h, o : Imported(h, o).relocs = << >>
  BY DEF Imported, Blank
<1>3. \A o : WithName(o) \subseteq Items(named) /\ WithHandle(o) \subseteq Items(named)
  BY DEF WithName, WithHandle
<1>4. CASE CreateFromPrime(t)
  <2> DEFINE h == thread[t].handle
  <2>1. thread[t].pc = "prime"
    BY <1>4 DEF CreateFromPrime, At
  <2>2. \/ WithHandle(h) # {} /\ Found(FirstNamed(WithHandle(h))) /\ Return(t)
        \/ Return(t) /\ bo' = bo
        \/ \E b \in Fresh : /\ bo' = [bo EXCEPT ![b] = Imported(h, NoObj)]
                            /\ thread' = [thread EXCEPT ![t] = [Idle EXCEPT !.pc = "tiling", !.bo = b]]
    BY <1>4 DEF CreateFromPrime
  <2> HIDE DEF h
  <2>3. CASE WithHandle(h) # {} /\ Found(FirstNamed(WithHandle(h))) /\ Return(t)
    BY <1>1, <1>3, <2>1, <2>3, TreeFound, AsideSteps, TreesStay
  <2>4. CASE Return(t) /\ bo' = bo
    BY <1>1, <2>1, <2>4, TreeAll, AsideSteps, TreesStay
  <2>5. ASSUME NEW b \in Fresh, bo' = [bo EXCEPT ![b] = Imported(h, NoObj)],
               thread' = [thread EXCEPT ![t] = [Idle EXCEPT !.pc = "tiling", !.bo = b]]
        PROVE  RelocsAreTrees'
    <3> DEFINE r == [Idle EXCEPT !.pc = "tiling", !.bo = b]
    <3>1. r.pc = "tiling" /\ thread' = [thread EXCEPT ![t] = r]
      BY <2>5 DEF Idle
    <3> HIDE DEF r
    <3>2. Aside(t)
      BY <1>1, <2>1, <3>1, AsidePut
    <3>3. SameTree
      BY <1>2, <2>5, TreeFresh
    <3> QED BY <3>2, <3>3, TreesStay
  <2> QED BY <2>2, <2>3, <2>4, <2>5
<1>5. ASSUME NEW o \in Objs, CreateFromName(t, o) PROVE RelocsAreTrees'
  <2>1. thread[t].pc = "idle"
    BY <1>5 DEF CreateFromName, Calls, At
  <2> DEFINE h == HandleFor(kernel, o)
  <2>2. \/ WithName(o) # {} /\ Found(FirstNamed(WithName(o))) /\ thread' = thread
        \/ WithHandle(h) # {} /\ Found(FirstNamed(WithHandle(h))) /\ thread' = thread
        \/ thread' = thread /\ \E b \in Fresh : bo' = [bo EXCEPT ![b] = Imported(h, o)]
        \/ (Goto(t, "deadlock") \/ thread' = thread) /\ bo' = bo
    BY <1>5 DEF CreateFromName
  <2> HIDE DEF h
  <2>3. SameTree
    BY <1>1, <1>2, <1>3, <2>2, TreeFound, TreeFresh, TreeAll
  <2>4. Aside(t)
    BY <1>1, <2>1, <2>2, AsideSteps DEF Places
  <2> QED BY <2>3, <2>4, TreesStay
<1> QED BY <1>4, <1>5

(* What the rest of the system does, and doing nothing.                    *)
LEMMA EnvironmentTree ==
  ASSUME RelocsAreTrees, Environment \/ UNCHANGED gemVars
  PROVE  RelocsAreTrees'
<1>1. bo' = bo /\ thread' = thread
  BY DEF Environment, Tick, GpuRetires, ShrinkerPurges, SharersRender, SharersClose, gemVars
<1>2. \A c \in Bos : \A i \in 1 .. MaxRelocs : Passed(c, i)' <=> Passed(c, i)
  BY <1>1 DEF Passed, At
<1>3. \A c \in Bos : RelocsTo(c)' = RelocsTo(c)
  BY <1>1, <1>2, RelocsKept
<1> QED BY <1>1, <1>3, TreesShrink

(* unreference under the lock: the teardown starts, or a count falls.      *)
LEMMA UnrefLockedTree ==
  ASSUME CoreInv, RelocsAreTrees, NEW t \in Threads, UnrefLocked(t)
  PROVE  RelocsAreTrees'
<1>1. PICK b \in Bos : b = thread[t].bo
  BY DEF UnrefLocked, At, CoreInv, BorrowInv, Borrowing
<1>2. /\ thread[t].pc = "unref" /\ Unlocked /\ GemTypeOK
      /\ bo' = [bo EXCEPT ![b].refcount = bo[b].refcount - 1]
  BY <1>1 DEF UnrefLocked, At, CoreInv, GemTypeOK
<1>3. SameTree
  BY <1>2, TreeCount
<1>4. CASE Return(t)
  BY <1>2, <1>3, <1>4, AsideSteps, TreesStay
<1>5. CASE thread' = [thread EXCEPT ![t].pc = "frames", ![t].bo = NoBo,
                                    ![t].frames = << FinalFrame(b) >>]
  <2> DEFINE f == FinalFrame(b)
             r == [thread[t] EXCEPT !.pc = "frames", !.bo = NoBo, !.frames = << f >>]
  <2>1. f \in Frame /\ f.from = f.at
    BY FinalFrameType
  <2> HIDE DEF f
  <2>2. thread' = [thread EXCEPT ![t] = r]
    BY <1>2, <1>5 DEF GemTypeOK, f
  <2>3. r.frames = << f >>
    BY <1>2, ThreadTypes DEF ThreadRecord
  <2> HIDE DEF r
  <2>4. thread'[t].frames = << f >> /\ \A u \in Threads \ {t} : thread'[u] = thread[u]
    BY <1>2, <2>2, <2>3, MovePut
  <2>5. \A c \in Bos : RelocsTo(c)' = RelocsTo(c)
    BY <1>2, <1>3, <2>1, <2>4, EnterRelocs DEF SameTree
  <2>6. \A c \in Bos : bo[c].refcount = 0 => RelocsTo(c)' = {}
    BY <2>5, NoTarget
  <2> QED BY <1>3, <2>5, <2>6, TreesShrink DEF SameTree
<1> QED BY <1>1, <1>4, <1>5 DEF UnrefLocked

(* clear_relocs gets the lock.                                             *)
LEMMA ClearLockedTree ==
  ASSUME CoreInv, RelocsAreTrees, NEW t \in Threads, ClearLocked(t)
  PROVE  RelocsAreTrees'
<1>1. thread[t].pc = "clear" /\ Unlocked /\ Goto(t, "frames") /\ bo' = bo /\ GemTypeOK
  BY DEF ClearLocked, At, CoreInv
<1>2. ClearOK(t) /\ thread[t].frames \in Seq(Frame)
  BY <1>1, ThreadTypes DEF CoreInv, ClearInv
<1>3. PICK s : s = thread[t].frames
  OBVIOUS
<1>4. s \in Seq(Frame) /\ Len(s) = 1 /\ s[1].from = s[1].at
  BY <1>2, <1>3 DEF ClearOK
<1>5. PICK f \in Frame : s = << f >> /\ f.from = f.at
  <2>1. PICK f : f = s[1]
    OBVIOUS
  <2>2. f \in Frame /\ s = << f >>
    BY <1>4, <2>1
  <2> QED BY <1>4, <2>1, <2>2
<1>6. thread'[t].frames = << f >> /\ \A u \in Threads \ {t} : thread'[u] = thread[u]
  BY <1>1, <1>3, <1>5, GotoStep DEF Places
<1>7. \A c \in Bos : RelocsTo(c)' = RelocsTo(c)
  BY <1>1, <1>5, <1>6, EnterRelocs
<1> QED BY <1>1, <1>7, TreesShrink

(* A turn of the loop over the relocations gives one reference up.         *)
LEMMA DropTargetTree ==
  ASSUME CoreInv, RelocsAreTrees, NEW t \in Threads, DropTarget(t)
  PROVE  RelocsAreTrees'
<1>1. thread[t].pc = "frames" /\ Top(t).at <= Len(bo[Top(t).bo].relocs) /\ GemTypeOK
  BY DEF DropTarget, At, CoreInv
<1>2. PICK c \in Bos : c = bo[Top(t).bo].relocs[Top(t).at]
  <2>1. /\ Top(t).at \in Nat /\ 1 <= Top(t).from /\ Top(t).from \in Nat /\ Top(t).from <= Top(t).at
        /\ bo[Top(t).bo].relocs \in Seq(Bos) /\ Len(bo[Top(t).bo].relocs) \in Nat
    BY <1>1, TopOK
  <2>2. Top(t).at \in 1 .. Len(bo[Top(t).bo].relocs)
    BY <1>1, <2>1
  <2> QED BY <2>1, <2>2
<1> DEFINE next == Append(Pop(t), [Top(t) EXCEPT !.at = @ + 1])
           more == Append(next, FinalFrame(c))
<1>3. Advanced(t, next, c) /\ Advanced(t, more, c)
  BY <1>1, NextAdvanced
<1>4. \/ bo' = bo /\ thread' = [thread EXCEPT ![t].frames = next]
      \/ /\ bo' = [bo EXCEPT ![c].refcount = bo[c].refcount - 1]
         /\ thread' = [thread EXCEPT ![t].frames = IF bo[c].refcount = 1 THEN more ELSE next]
  <2>1. CASE c = Top(t).bo
    BY <1>2, <2>1 DEF DropTarget
  <2>2. CASE c # Top(t).bo
    BY <1>1, <1>2, <2>2 DEF DropTarget, GemTypeOK
  <2> QED BY <2>1, <2>2
<1> HIDE DEF next, more
<1>5. PICK gs : thread' = [thread EXCEPT ![t].frames = gs] /\ Advanced(t, gs, c)
  BY <1>3, <1>4
<1>6. SameTree
  BY <1>1, <1>4, TreeCount, TreeAll
<1> DEFINE r == [thread[t] EXCEPT !.frames = gs]
<1>7. thread' = [thread EXCEPT ![t] = r]
  BY <1>5
<1>8. r.frames = gs /\ r.pc = "frames"
  BY <1>1, ThreadTypes DEF ThreadRecord
<1> HIDE DEF r
<1>9. /\ thread'[t].frames = gs /\ thread'[t].pc = "frames"
      /\ \A u \in Threads \ {t} : thread'[u] = thread[u]
  BY <1>1, <1>7, <1>8, MovePut
<1>10. \A d \in Bos : bo'[d].relocs = bo[d].relocs
  BY <1>6 DEF SameTree
<1>11. Advanced(t, thread'[t].frames, c)
  BY <1>5, <1>9
<1>12. \A d \in Bos : RelocsTo(d)' = IF d = c /\ c # Top(t).bo
                                    THEN RelocsTo(d) \ {<< Top(t).bo, Top(t).at >>}
                                    ELSE RelocsTo(d)
  BY <1>1, <1>2, <1>9, <1>10, <1>11, DropOwns
<1>13. \A d \in Bos : RelocsTo(d)' \subseteq RelocsTo(d)
  BY <1>12
<1>14. \A d \in Bos : bo[d].refcount = 0 => RelocsTo(d)' = {}
  BY <1>13, NoTarget
<1> QED BY <1>6, <1>13, <1>14, TreesShrink DEF SameTree

(* clear_relocs returns: what it has passed is forgotten.                  *)
LEMMA ClearedTree ==
  ASSUME CoreInv, RelocsAreTrees, NEW t \in Threads, Cleared(t)
  PROVE  RelocsAreTrees'
<1>1. PICK b \in Bos : b = Top(t).bo
  <2>1. thread[t].pc = "frames"
    BY DEF Cleared, At
  <2> QED BY <2>1, TopOK
<1> DEFINE s == SubSeq(bo[b].relocs, 1, Top(t).from - 1)
           r == [bo[b] EXCEPT !.relocs = s]
<1>2. /\ thread[t].pc = "frames" /\ ~Top(t).final /\ Top(t).at > Len(bo[b].relocs)
      /\ Return(t) /\ GemTypeOK /\ bo' = [bo EXCEPT ![b] = r]
  BY <1>1 DEF Cleared, At, CoreInv, GemTypeOK
<1> HIDE DEF s
<1>3. r.relocs = s /\ r.used_as_reloc_target = bo[b].used_as_reloc_target
  BY <1>2, BoTypes DEF BoRecord
<1> HIDE DEF r
<1>4. bo'[b] = r /\ \A c \in Bos \ {b} : bo'[c] = bo[c]
  BY <1>2 DEF GemTypeOK
<1>5. thread'[t].pc = "idle" /\ \A u \in Threads \ {t} : thread'[u] = thread[u]
  BY <1>2, ReturnStep
<1>6. \A u \in Threads : thread'[u].pc # "frames"
  BY <1>2, <1>5, OnlyHolder DEF Holding
<1>7. bo'[b].relocs = SubSeq(bo[b].relocs, 1, Top(t).from - 1)
  BY <1>3, <1>4 DEF s
<1>8. \A c \in Bos : RelocsTo(c)' = RelocsTo(c)
  BY <1>1, <1>2, <1>4, <1>6, <1>7, ClearedOwns
<1>9. \A c \in Bos : bo'[c].used_as_reloc_target = bo[c].used_as_reloc_target
  BY <1>3, <1>4
<1> QED BY <1>8, <1>9, TreesShrink

(* The end of unreference_final: nobody refers to the object.              *)
LEMMA RetireBoTree ==
  ASSUME CoreInv, TRUE \notin CanReject, RelocsAreTrees, NEW t \in Threads, RetireBo(t)
  PROVE  RelocsAreTrees'
<1>1. thread[t].pc = "frames" /\ Top(t).final /\ Top(t).at > Len(bo[Top(t).bo].relocs)
  BY DEF RetireBo, At
<1>2. PICK b \in Bos : b = Top(t).bo /\ bo[b].refcount = 0
  <2>1. /\ Top(t).bo \in Bos /\ FrameOK(t, Len(thread[t].frames))
        /\ Top(t) = thread[t].frames[Len(thread[t].frames)]
    BY <1>1, TopOK, Zenon
  <2>2. bo[Top(t).bo].refcount = 0
    BY <1>1, <2>1 DEF FrameOK
  <2> QED BY <2>1, <2>2
<1>3. GemTypeOK /\ GemTypeOK'
  BY RetireBoInv DEF CoreInv
<1> DEFINE gs == Pop(t)
           pc == IF gs = << >> THEN "cleanup" ELSE "frames"
           r == [thread[t] EXCEPT !.frames = gs, !.pc = pc]
<1>4. thread' = [thread EXCEPT ![t] = r]
  BY <1>3 DEF RetireBo, GemTypeOK
<1> HIDE DEF gs, pc
<1>5. r.frames = gs /\ r.pc = pc /\ r.bo = thread[t].bo
  BY <1>3, ThreadTypes DEF ThreadRecord
<1> HIDE DEF r
<1>6. /\ thread'[t].frames = gs /\ thread'[t].pc = pc /\ thread'[t].bo = thread[t].bo
      /\ \A u \in Threads \ {t} : thread'[u] = thread[u]
  BY <1>3, <1>4, <1>5, MovePut
<1>7. bo'[b].relocs = << >> /\ bo'[b].refcount = 0 /\ \A c \in Bos \ {b} : bo'[c] = bo[c]
  <2>1. CASE Keeps(b)
    <3> DEFINE l == AfterDel(bo[b].name_list)
               tm == thread[t].time
               q == [bo[b] EXCEPT !.relocs = << >>, !.used_as_reloc_target = FALSE,
                                  !.name_list = l, !.free_time = tm]
    <3>1. bo' = [bo EXCEPT ![b] = q]
      BY <1>2, <1>3, <2>1 DEF RetireBo, GemTypeOK
    <3> HIDE DEF l, tm
    <3>2. q.relocs = << >> /\ q.refcount = 0
      BY <1>2, <1>3, BoTypes DEF BoRecord
    <3> HIDE DEF q
    <3>3. bo'[b] = q /\ \A c \in Bos \ {b} : bo'[c] = bo[c]
      BY <1>3, <3>1 DEF GemTypeOK
    <3> QED BY <3>2, <3>3
  <2>2. CASE ~Keeps(b)
    <3>1. bo' = [bo EXCEPT ![b] = Blank]
      BY <1>2, <2>2 DEF RetireBo, Discard
    <3> QED BY <1>3, <3>1, BlankType, BoPut
  <2> QED BY <2>1, <2>2
<1>8. Popped(t, b)
  BY <1>3, <1>6, <1>7 DEF Popped, GemTypeOK, gs, pc
<1>9. \A c \in Bos : RelocsTo(c)' = RelocsTo(c)
  BY <1>1, <1>2, <1>8, RetireOwns
<1>10. RelocsTo(b)' = {}
  BY <1>2, <1>9, NoTarget
<1>11. \A c \in Bos : bo[c].used_as_reloc_target =>
                        bo'[c].used_as_reloc_target \/ RelocsTo(c)' = {}
  BY <1>7, <1>10
<1> QED BY <1>9, <1>11, TreesShrink

(* emit_reloc: a batch that is the target of nothing gets a target.        *)
LEMMA EmitRelocTree ==
  ASSUME CoreInv, RelocsAreTrees, NEW t \in Threads, NEW b \in Bos, NEW c \in Bos,
         EmitReloc(t, b, c)
  PROVE  RelocsAreTrees'
<1>1. /\ GemTypeOK /\ thread' = thread /\ Len(bo[b].relocs) < MaxRelocs
      /\ ~bo[b].used_as_reloc_target
  BY DEF EmitReloc, CoreInv
<1>2. CASE c = b /\ bo' = [bo EXCEPT ![b].relocs = Append(@, b)]
  <2>1. Emitted(b, c)
    BY <1>1, <1>2, EmitSelf
  <2>2. \A d \in Bos : RelocsTo(d)' = RelocsTo(d)
    BY <1>1, <1>2, <2>1, EmitOwns
  <2>3. ASSUME NEW d \in Bos, bo[d].used_as_reloc_target PROVE bo'[d].used_as_reloc_target
    BY <1>1, <1>2, <2>3 DEF GemTypeOK
  <2> QED BY <2>2, <2>3, TreesShrink
<1>3. CASE c # b /\ bo' = Relocated(b, c)
  <2>1. Emitted(b, c)
    BY <1>1, <1>3, EmitOther
  <2>2. PICK n : n = Len(bo[b].relocs) + 1
    OBVIOUS
  <2>3. \A d \in Bos : RelocsTo(d)' = IF d = c THEN RelocsTo(d) \cup {<< b, n >>} ELSE RelocsTo(d)
    BY <1>1, <1>3, <2>1, <2>2, EmitOwns
  <2> DEFINE s == Append(bo[b].relocs, c)
             m == bo[c].refcount + 1
             r == [bo[b] EXCEPT !.relocs = s]
             q == [bo[c] EXCEPT !.used_as_reloc_target = TRUE, !.refcount = m]
  <2>4. bo' = [bo EXCEPT ![b] = r, ![c] = q]
    BY <1>1, <1>3 DEF Relocated, GemTypeOK
  <2> HIDE DEF s, m
  <2>5. q.used_as_reloc_target
    BY <1>1, BoTypes DEF BoRecord
  <2> HIDE DEF r, q
  <2>6. bo'[c] = q /\ \A d \in Bos \ {b, c} : bo'[d] = bo[d]
    BY <1>1, <2>4 DEF GemTypeOK
  <2>7. \A d \in Bos : bo[d].used_as_reloc_target => bo'[d].used_as_reloc_target
    BY <1>1, <2>5, <2>6
  <2> QED BY <1>1, <1>3, <2>3, <2>5, <2>6, <2>7, TreesGrow
<1> QED BY <1>2, <1>3 DEF EmitReloc

(* Nothing has a relocation at first.                                      *)
LEMMA TreeInit == GemInit => RelocsAreTrees
<1> SUFFICES ASSUME GemInit PROVE RelocsAreTrees
  OBVIOUS
<1>1. \A c \in Bos : bo[c].relocs = << >>
  BY BlankType DEF GemInit
<1>2. \A c \in Bos : \A i \in 1 .. MaxRelocs : ~(i <= Len(bo[c].relocs))
  BY <1>1, GemBoundsAssumption
<1>3. \A b \in Bos : RelocsTo(b) = {}
  BY <1>2 DEF RelocsTo, Owns
<1> QED BY <1>3 DEF RelocsAreTrees, DependsOn

(* Every step keeps the forest.                                            *)
LEMMA TreeNext ==
  ASSUME CoreInv, TRUE \notin CanReject, RelocsAreTrees, [GemNext]_gemVars
  PROVE  RelocsAreTrees'
<1>1. CASE Environment \/ UNCHANGED gemVars
  BY <1>1, EnvironmentTree
<1>2. ASSUME NEW t \in Threads, Call(t) PROVE RelocsAreTrees'
  <2>1. ASSUME NEW b \in Bos,
               ClearRelocs(t, b) \/ Busy(t, b) \/ Flink(t, b) \/ MapBo(t, b)
        PROVE  RelocsAreTrees'
    BY <2>1, CallsTree
  <2>2. ASSUME NEW b \in Bos,
               \/ Reference(t, b) \/ Unreference(t, b) \/ Exec(t, b)
               \/ DisableReuse(t, b) \/ ExportToPrime(t, b)
        PROVE  RelocsAreTrees'
    BY <2>2, ReferenceTree, UnreferenceTree, IdleTree, DisableReuseTree, ExportTree
  <2>3. ASSUME NEW b \in Bos, NEW c \in Bos, EmitReloc(t, b, c) PROVE RelocsAreTrees'
    BY <2>3, EmitRelocTree
  <2>4. ASSUME NEW o \in Objs, CreateFromName(t, o) \/ FDToHandle(t, o) PROVE RelocsAreTrees'
    BY <2>4, ImportTree, CallsTree
  <2>5. CASE Alloc(t) \/ SetVmaLimit(t)
    BY <2>5, CallsTree
  <2> QED BY <1>2, <2>1, <2>2, <2>3, <2>4, <2>5 DEF Call
<1>3. ASSUME NEW t \in Threads, Proceed(t) PROVE RelocsAreTrees'
  <2>1. CASE AllocMiss(t) \/ AllocHit(t) \/ PurgeBucket(t) \/ CreateBo(t)
    BY <2>1, IdleTree, CacheTree, CreateBoTree
  <2>2. CASE DropTarget(t) \/ Cleared(t) \/ RetireBo(t) \/ CleanupFree(t) \/ CleanupDone(t)
    BY <2>2, DropTargetTree, ClearedTree, RetireBoTree, CacheTree, CallsTree
  <2>3. CASE StoreIdle(t) \/ HandleToFD(t) \/ GetTiling(t)
    BY <2>3, StoreIdleTree, ExportTree, GetTilingTree
  <2> QED BY <1>3, <2>1, <2>2, <2>3 DEF Proceed
<1>4. ASSUME NEW t \in Threads, Enter(t) PROVE RelocsAreTrees'
  BY <1>4, UnrefLockedTree, ClearLockedTree, FlinkLockedTree, ImportTree DEF Enter
<1> QED BY <1>1, <1>2, <1>3, <1>4 DEF GemNext

(* Relocations form a forest: process_reloc and unreference_final do not   *)
(* recurse for ever, and no target of a relocation loses its mark, however *)
(* emit_reloc, clear_relocs, imports and teardowns interleave.             *)
THEOREM GemRelocsAreTrees ==
  ASSUME TRUE \notin CanReject
  PROVE  GemSpec => []RelocsAreTrees
<1>1. GemInit => CoreInv /\ RelocsAreTrees
  BY GemInitInv, TreeInit
<1>2. (CoreInv /\ RelocsAreTrees) /\ [GemNext]_gemVars => (CoreInv /\ RelocsAreTrees)'
  BY GemNextInv, TreeNext
<1> QED BY <1>1, <1>2, PTL DEF GemSpec

-----------------------------------------------------------------------------
(* The age of the cache and the idle flags, with one thread.               *)
OneThread == \A t, u \in Threads : t = u

(* Where a thread has read the clock for what it is about to free.         *)
Timed == {"unref", "clear", "frames", "cleanup"}

(* Every bucket is in the order in which its objects were freed.           *)
InOrder(list) ==
  \A i, j \in 1 .. Len(list) : i <= j => bo[list[i]].free_time <= bo[list[j]].free_time

(* The times that a thread, the cache and the last cleanup have are in the *)
(* order in which they were read.                                          *)
YoungInv ==
  /\ time <= clock
  /\ \A t \in Threads : thread[t].pc \in Timed => time <= thread[t].time /\ thread[t].time <= clock
  /\ \A k \in Buckets : InOrder(cache[k])
  /\ \A k \in Buckets : \A b \in CachedIn(k) :
       /\ bo[b].free_time <= clock
       /\ \A t \in Threads : thread[t].pc \in Timed => bo[b].free_time <= thread[t].time
  /\ CacheIsYoung

(* What the busy ioctl said is still true when it is stored.               *)
BusyNote ==
  \A t \in Threads : thread[t].pc = "busy" /\ ~thread[t].flag /\ bo[thread[t].bo].reusable
                       => ObjOf(thread[t].bo) \notin kernel.busy

IdleInv == IdleIsIdle /\ BusyNote

-----------------------------------------------------------------------------
(* A list with nothing but members of another, in the same order.          *)
Within(new, list) ==
  \A i, j \in 1 .. Len(new) : i <= j =>
    \E p, q \in 1 .. Len(list) : p <= q /\ new[i] = list[p] /\ new[j] = list[q]

(* DRMLISTDEL keeps the order.                                             *)
LEMMA RemoveWithin ==
  ASSUME NEW S, NEW list \in Seq(S), NEW x \in Items(list)
  PROVE  Within(RemoveItem(list, x), list)
<1> DEFINE at == CHOOSE i \in 1 .. Len(list) : list[i] = x
           n == Len(list) - 1
           new == [j \in 1 .. n |-> IF j < at THEN list[j] ELSE list[j + 1]]
<1>1. at \in 1 .. Len(list)
  BY DEF Items
<1>2. RemoveItem(list, x) = new
  BY DEF RemoveItem
<1>3. Len(list) \in Nat /\ n \in Nat /\ Len(list) = n + 1
  BY <1>1
<1> HIDE DEF at, n
<1>4. Len(new) = n /\ \A j \in 1 .. n : new[j] = IF j < at THEN list[j] ELSE list[j + 1]
  BY <1>3
<1> HIDE DEF new
<1>5. ASSUME NEW i \in 1 .. n, NEW j \in 1 .. n, i <= j
      PROVE  \E p, q \in 1 .. Len(list) : p <= q /\ new[i] = list[p] /\ new[j] = list[q]
  <2>1. CASE j < at
    <3>1. i < at /\ i \in 1 .. Len(list) /\ j \in 1 .. Len(list)
      BY <1>1, <1>3, <1>5, <2>1
    <3> QED BY <1>4, <1>5, <2>1, <3>1
  <2>2. CASE i < at /\ ~ (j < at)
    <3>1. i \in 1 .. Len(list) /\ j + 1 \in 1 .. Len(list) /\ i <= j + 1
      BY <1>1, <1>3, <1>5
    <3> QED BY <1>4, <2>2, <3>1
  <2>3. CASE ~ (i < at)
    <3>1. ~ (j < at) /\ i + 1 \in 1 .. Len(list) /\ j + 1 \in 1 .. Len(list) /\ i + 1 <= j + 1
      BY <1>1, <1>3, <1>5, <2>3
    <3> QED BY <1>4, <2>3, <3>1
  <2> QED BY <2>1, <2>2, <2>3
<1> QED BY <1>2, <1>4, <1>5 DEF Within

(* So does taking the first member.                                        *)
LEMMA TailWithin ==
  ASSUME NEW S, NEW list \in Seq(S), list # << >>
  PROVE  Within(Tail(list), list)
<1> DEFINE new == Tail(list)
<1>1. /\ Len(list) \in Nat \ {0} /\ Len(new) = Len(list) - 1
      /\ \A j \in 1 .. Len(list) - 1 : new[j] = list[j + 1]
  OBVIOUS
<1> HIDE DEF new
<1>2. ASSUME NEW i \in 1 .. Len(new), NEW j \in 1 .. Len(new), i <= j
      PROVE  \E p, q \in 1 .. Len(list) : p <= q /\ new[i] = list[p] /\ new[j] = list[q]
  <2>1. i + 1 \in 1 .. Len(list) /\ j + 1 \in 1 .. Len(list) /\ i + 1 <= j + 1
    BY <1>1, <1>2
  <2> QED BY <1>1, <2>1
<1> QED BY <1>2 DEF Within, new

(* A list is within itself.                                                *)
LEMMA SameWithin ==
  ASSUME NEW list
  PROVE  Within(list, list)
BY DEF Within

(* A thread reads the clock, or keeps what it read.                        *)
OnTime ==
  \A u \in Threads : thread'[u].pc \in Timed =>
    \/ thread[u].pc \in Timed /\ thread'[u].time = thread[u].time
    \/ thread'[u].time = clock

(* What stays in the cache keeps its place and its time.                   *)
KeepsAge ==
  /\ cache' \in [Buckets -> Seq(Bos)]
  /\ \A k \in Buckets : Within(cache'[k], cache[k])
  /\ \A k \in Buckets : \A b \in Items(cache'[k]) : bo'[b].free_time = bo[b].free_time

(* A step that puts nothing into the cache and ends no cleanup.            *)
LEMMA YoungStill ==
  ASSUME CoreInv, YoungInv, time' = time, clock' \in Nat, clock <= clock', KeepsAge, OnTime
  PROVE  YoungInv'
<1>1. /\ time \in Nat /\ clock \in Nat /\ cache \in [Buckets -> Seq(Bos)]
      /\ \A b \in Bos : bo[b].free_time \in Nat
      /\ \A u \in Threads : thread[u].time \in Nat
  BY ThreadTypes DEF CoreInv, GemTypeOK, BoRecord
<1>2. /\ \A k \in Buckets : \A b \in Items(cache'[k]) :
             b \in Items(cache[k]) /\ b \in Bos /\ bo'[b].free_time = bo[b].free_time
  <2>1. ASSUME NEW k \in Buckets, NEW b \in Items(cache'[k]) PROVE b \in Items(cache[k]) /\ b \in Bos
    <3>1. PICK i \in 1 .. Len(cache'[k]) : cache'[k][i] = b
      BY DEF Items
    <3>2. Len(cache'[k]) \in Nat /\ i <= i
      BY <3>1 DEF KeepsAge
    <3>3. PICK p \in 1 .. Len(cache[k]) : cache[k][p] = b
      BY <3>1, <3>2 DEF KeepsAge, Within
    <3>4. cache[k] \in Seq(Bos)
      BY <1>1
    <3> QED BY <3>3, <3>4 DEF Items
  <2> QED BY <2>1 DEF KeepsAge
<1>3. time' <= clock'
  BY <1>1 DEF YoungInv
<1>4. ASSUME NEW u \in Threads, thread'[u].pc \in Timed
      PROVE  time' <= thread'[u].time /\ thread'[u].time <= clock'
  BY <1>1, <1>4 DEF YoungInv, OnTime
<1>5. ASSUME NEW k \in Buckets, NEW i \in 1 .. Len(cache'[k]), NEW j \in 1 .. Len(cache'[k]), i <= j
      PROVE  bo'[cache'[k][i]].free_time <= bo'[cache'[k][j]].free_time
  <2>1. PICK p, q \in 1 .. Len(cache[k]) :
          p <= q /\ cache'[k][i] = cache[k][p] /\ cache'[k][j] = cache[k][q]
    BY <1>5 DEF KeepsAge, Within
  <2>2. bo[cache[k][p]].free_time <= bo[cache[k][q]].free_time
    BY <2>1 DEF YoungInv, InOrder
  <2>3. cache'[k][i] \in Items(cache'[k]) /\ cache'[k][j] \in Items(cache'[k])
    BY DEF Items
  <2> QED BY <1>2, <2>1, <2>2, <2>3
<1>6. ASSUME NEW k \in Buckets, NEW b \in Items(cache'[k])
      PROVE  /\ bo'[b].free_time <= clock' /\ time' - bo'[b].free_time <= 1
             /\ \A u \in Threads : thread'[u].pc \in Timed => bo'[b].free_time <= thread'[u].time
  <2>1. /\ b \in Bos /\ bo'[b].free_time = bo[b].free_time /\ bo[b].free_time \in Nat
        /\ bo[b].free_time <= clock /\ time - bo[b].free_time <= 1
        /\ \A u \in Threads : thread[u].pc \in Timed => bo[b].free_time <= thread[u].time
    BY <1>1, <1>2 DEF YoungInv, CacheIsYoung, CachedIn
  <2> QED BY <1>1, <2>1 DEF OnTime
<1> QED BY <1>3, <1>4, <1>5, <1>6 DEF YoungInv, InOrder, CacheIsYoung, CachedIn

-----------------------------------------------------------------------------
(* The structures keep their handles and times, and none becomes known to  *)
(* be idle.                                                                *)
SteadyBo ==
  \A b \in Bos : /\ bo'[b].free_time = bo[b].free_time /\ bo'[b].gem_handle = bo[b].gem_handle
                 /\ bo'[b].reusable /\ bo'[b].idle => bo[b].reusable /\ bo[b].idle

(* The thread t goes to another place than the one between the two halves  *)
(* of drm_intel_gem_bo_busy.                                               *)
Passes(t) == OnTime /\ thread'[t].pc # "busy"

(* A step that neither the cache nor the idle flags depend on.             *)
Plain(t) ==
  /\ cache' = cache /\ time' = time /\ clock' = clock /\ Live' = Live
  /\ kernel'.file = kernel.file /\ kernel'.busy = kernel.busy
  /\ SteadyBo /\ Passes(t)

(* Such a step keeps the times in order.                                   *)
LEMMA PlainYoung ==
  ASSUME CoreInv, YoungInv, NEW t \in Threads, Plain(t)
  PROVE  YoungInv'
<1>1. cache' \in [Buckets -> Seq(Bos)] /\ clock' \in Nat /\ clock <= clock' /\ time' = time /\ OnTime
  BY DEF CoreInv, GemTypeOK, Plain, Passes
<1>2. \A k \in Buckets : Within(cache'[k], cache[k])
  BY SameWithin DEF Plain
<1>3. \A k \in Buckets : Items(cache'[k]) \subseteq Bos
  BY <1>1 DEF Items
<1>4. KeepsAge
  BY <1>1, <1>2, <1>3 DEF KeepsAge, Plain, SteadyBo
<1> QED BY <1>1, <1>4, YoungStill

(* And the idle flags right.                                               *)
LEMMA PlainIdle ==
  ASSUME OneThread, IdleInv, NEW t \in Threads, Plain(t)
  PROVE  IdleInv'
<1>1. \A u \in Threads : thread'[u].pc # "busy"
  BY DEF OneThread, Plain, Passes
<1>2. BusyNote'
  BY <1>1 DEF BusyNote
<1>3. \A b \in Bos : ObjOf(b)' = ObjOf(b)
  BY DEF ObjOf, Plain, SteadyBo
<1>4. IdleIsIdle'
  BY <1>3 DEF IdleInv, IdleIsIdle, Plain, SteadyBo, Live, KnownIdle
<1> QED BY <1>2, <1>4 DEF IdleInv

(* One structure is replaced.                                              *)
LEMMA SteadyPut ==
  ASSUME GemTypeOK, NEW b \in Bos, NEW r, bo' = [bo EXCEPT ![b] = r],
         r.free_time = bo[b].free_time, r.gem_handle = bo[b].gem_handle,
         r.reusable /\ r.idle => bo[b].reusable /\ bo[b].idle
  PROVE  SteadyBo
<1>1. bo'[b] = r /\ \A c \in Bos \ {b} : bo'[c] = bo[c]
  BY DEF GemTypeOK
<1> QED BY <1>1 DEF SteadyBo

(* No structure changes.                                                   *)
LEMMA SteadySame ==
  ASSUME bo' = bo
  PROVE  SteadyBo
BY DEF SteadyBo

(* A count changes.                                                        *)
LEMMA SteadyCount ==
  ASSUME GemTypeOK, NEW b \in Bos, NEW n, bo' = [bo EXCEPT ![b].refcount = n]
  PROVE  SteadyBo
<1> DEFINE r == [bo[b] EXCEPT !.refcount = n]
<1>1. bo' = [bo EXCEPT ![b] = r]
  OBVIOUS
<1>2. /\ r.free_time = bo[b].free_time /\ r.gem_handle = bo[b].gem_handle
      /\ r.reusable = bo[b].reusable /\ r.idle = bo[b].idle
  BY BoTypes DEF BoRecord
<1> HIDE DEF r
<1> QED BY <1>1, <1>2, SteadyPut

(* Relocations change.                                                     *)
LEMMA SteadyRelocs ==
  ASSUME GemTypeOK, NEW b \in Bos, NEW s, bo' = [bo EXCEPT ![b].relocs = s]
  PROVE  SteadyBo
<1> DEFINE r == [bo[b] EXCEPT !.relocs = s]
<1>1. bo' = [bo EXCEPT ![b] = r]
  OBVIOUS
<1>2. /\ r.free_time = bo[b].free_time /\ r.gem_handle = bo[b].gem_handle
      /\ r.reusable = bo[b].reusable /\ r.idle = bo[b].idle
  BY BoTypes DEF BoRecord
<1> HIDE DEF r
<1> QED BY <1>1, <1>2, SteadyPut

(* A thread is given a new record.                                         *)
LEMMA PassPut ==
  ASSUME GemTypeOK, NEW t \in Threads, NEW r, thread' = [thread EXCEPT ![t] = r], r.pc # "busy",
         r.pc \in Timed => (thread[t].pc \in Timed /\ r.time = thread[t].time) \/ r.time = clock
  PROVE  Passes(t)
<1>1. thread'[t] = r /\ \A u \in Threads \ {t} : thread'[u] = thread[u]
  BY MovePut
<1>2. ASSUME NEW u \in Threads, thread'[u].pc \in Timed
      PROVE  (thread[u].pc \in Timed /\ thread'[u].time = thread[u].time) \/ thread'[u].time = clock
  BY <1>1, <1>2
<1> QED BY <1>1, <1>2 DEF Passes, OnTime

(* A call returns.                                                         *)
LEMMA PassReturn ==
  ASSUME GemTypeOK, NEW t \in Threads, Return(t)
  PROVE  Passes(t)
<1>1. Idle.pc = "idle" /\ "idle" \notin Timed /\ "idle" # "busy"
  BY DEF Idle, Timed
<1>2. thread' = [thread EXCEPT ![t] = Idle]
  BY DEF Return
<1> QED BY <1>1, <1>2, PassPut

(* A call goes on, and has read the clock before if it has to have.        *)
LEMMA PassGoto ==
  ASSUME GemTypeOK, NEW t \in Threads, NEW where, where # "busy",
         where \in Timed => thread[t].pc \in Timed, Goto(t, where)
  PROVE  Passes(t)
<1> DEFINE r == [thread[t] EXCEPT !.pc = where]
<1>1. thread' = [thread EXCEPT ![t] = r]
  BY DEF Goto
<1>2. r.pc = where /\ r.time = thread[t].time
  BY ThreadTypes DEF ThreadRecord
<1> HIDE DEF r
<1> QED BY <1>1, <1>2, PassPut

(* A call begins.                                                          *)
LEMMA PassBegin ==
  ASSUME GemTypeOK, NEW t \in Threads, NEW where, where # "busy", where \notin Timed,
         NEW b, Begin(t, where, b)
  PROVE  Passes(t)
<1> DEFINE r == [thread[t] EXCEPT !.pc = where, !.bo = b]
<1>1. thread' = [thread EXCEPT ![t] = r]
  BY DEF Begin
<1>2. r.pc = where
  BY ThreadTypes DEF ThreadRecord
<1> HIDE DEF r
<1> QED BY <1>1, <1>2, PassPut

(* No thread moves.                                                        *)
LEMMA PassSame ==
  ASSUME GemTypeOK, NEW t \in Threads, thread' = thread, thread[t].pc # "busy"
  PROVE  Passes(t)
BY DEF Passes, OnTime

(* A step on structures and threads alone.                                 *)
LEMMA PlainIs ==
  ASSUME UNCHANGED << vma, cache, time, clock >>,
         kernel'.file = kernel.file, kernel'.busy = kernel.busy,
         NEW t, SteadyBo, Passes(t)
  PROVE  Plain(t)
<1>1. Live' = Live
  BY DEF Live, Exists
<1> QED BY <1>1 DEF Plain

(* alloc takes the lock.                                                   *)
LEMMA AllocPlain ==
  ASSUME CoreInv, NEW t \in Threads, Alloc(t)
  PROVE  Plain(t)
<1>1. PICK k, for_render :
        thread' = [thread EXCEPT ![t].pc = "alloc", ![t].bucket = k, ![t].flag = for_render]
  BY DEF Alloc
<1>2. UNCHANGED << vma, bo, cache, time, clock, kernel >> /\ GemTypeOK
  BY DEF Alloc, CoreInv
<1> DEFINE r == [thread[t] EXCEPT !.pc = "alloc", !.bucket = k, !.flag = for_render]
<1>3. thread' = [thread EXCEPT ![t] = r]
  BY <1>1, <1>2 DEF GemTypeOK
<1>4. r.pc = "alloc" /\ "alloc" \notin Timed /\ "alloc" # "busy"
  BY <1>2, ThreadTypes DEF ThreadRecord, Timed
<1> HIDE DEF r
<1>5. Passes(t)
  BY <1>2, <1>3, <1>4, PassPut
<1> QED BY <1>2, <1>5, SteadySame, PlainIs

(* Nothing in the cache serves.                                            *)
LEMMA AllocMissPlain ==
  ASSUME CoreInv, NEW t \in Threads, AllocMiss(t)
  PROVE  Plain(t)
<1>1. /\ Goto(t, "create")
      /\ bo' = [b \in Bos |-> IF b \in Candidates(t) THEN [bo[b] EXCEPT !.idle = FALSE] ELSE bo[b]]
      /\ UNCHANGED << vma, cache, time, clock, kernel >> /\ GemTypeOK
  BY DEF AllocMiss, CoreInv
<1>2. SteadyBo
  <2> SUFFICES ASSUME NEW b \in Bos
               PROVE  /\ bo'[b].free_time = bo[b].free_time /\ bo'[b].gem_handle = bo[b].gem_handle
                      /\ bo'[b].reusable /\ bo'[b].idle => bo[b].reusable /\ bo[b].idle
    BY DEF SteadyBo
  <2>1. bo'[b] = [bo[b] EXCEPT !.idle = FALSE] \/ bo'[b] = bo[b]
    BY <1>1
  <2> QED BY <1>1, <2>1, BoTypes DEF BoRecord
<1>3. Passes(t)
  <2>1. "create" \notin Timed /\ "create" # "busy"
    BY DEF Timed
  <2> QED BY <1>1, <2>1, PassGoto
<1> QED BY <1>1, <1>2, <1>3, PlainIs

(* reference.                                                              *)
LEMMA ReferencePlain ==
  ASSUME CoreInv, NEW t \in Threads, NEW b \in Bos, Reference(t, b)
  PROVE  Plain(t)
<1>1. /\ bo' = [bo EXCEPT ![b].refcount = bo[b].refcount + 1]
      /\ thread' = thread /\ thread[t].pc = "idle"
      /\ UNCHANGED << vma, cache, time, clock, kernel >> /\ GemTypeOK
  BY DEF Reference, CoreInv, GemTypeOK, Calls, At
<1>2. SteadyBo /\ Passes(t)
  BY <1>1, SteadyCount, PassSame
<1> QED BY <1>1, <1>2, PlainIs

(* unreference, up to the lock: the clock is read.                         *)
LEMMA UnreferencePlain ==
  ASSUME CoreInv, NEW t \in Threads, NEW b \in Bos, Unreference(t, b)
  PROVE  Plain(t)
<1>1. /\ thread[t].pc = "idle" /\ UNCHANGED << vma, cache, time, clock, kernel >> /\ GemTypeOK
      /\ \/ /\ thread' = [thread EXCEPT ![t].pc = "unref", ![t].bo = b, ![t].time = clock]
            /\ bo' = bo
         \/ bo' = [bo EXCEPT ![b].refcount = bo[b].refcount - 1] /\ thread' = thread
  BY DEF Unreference, Calls, At, CoreInv, GemTypeOK
<1>2. CASE /\ thread' = [thread EXCEPT ![t].pc = "unref", ![t].bo = b, ![t].time = clock]
           /\ bo' = bo
  <2> DEFINE r == [thread[t] EXCEPT !.pc = "unref", !.bo = b, !.time = clock]
  <2>1. thread' = [thread EXCEPT ![t] = r]
    BY <1>1, <1>2 DEF GemTypeOK
  <2>2. r.pc = "unref" /\ r.time = clock
    BY <1>1, ThreadTypes DEF ThreadRecord
  <2> HIDE DEF r
  <2>3. Passes(t)
    BY <1>1, <2>1, <2>2, PassPut
  <2> QED BY <1>1, <1>2, <2>3, SteadySame, PlainIs
<1>3. CASE bo' = [bo EXCEPT ![b].refcount = bo[b].refcount - 1] /\ thread' = thread
  <2>1. SteadyBo /\ Passes(t)
    BY <1>1, <1>3, SteadyCount, PassSame
  <2> QED BY <1>1, <2>1, PlainIs
<1> QED BY <1>1, <1>2, <1>3

(* The decrement under the lock.                                           *)
LEMMA UnrefLockedPlain ==
  ASSUME CoreInv, NEW t \in Threads, UnrefLocked(t)
  PROVE  Plain(t)
<1>1. PICK b \in Bos : b = thread[t].bo
  BY DEF UnrefLocked, At, CoreInv, BorrowInv, Borrowing
<1>2. GemTypeOK
  BY DEF CoreInv
<1>3. /\ thread[t].pc = "unref" /\ UNCHANGED << vma, cache, time, clock, kernel >>
      /\ bo' = [bo EXCEPT ![b].refcount = bo[b].refcount - 1]
      /\ \/ thread' = [thread EXCEPT ![t].pc = "frames", ![t].bo = NoBo,
                                     ![t].frames = << FinalFrame(b) >>]
         \/ Return(t)
  BY <1>1, <1>2 DEF UnrefLocked, At, GemTypeOK
<1>4. SteadyBo
  BY <1>2, <1>3, SteadyCount
<1>5. CASE Return(t)
  <2>1. Passes(t)
    BY <1>2, <1>5, PassReturn
  <2> QED BY <1>3, <1>4, <2>1, PlainIs
<1>6. CASE thread' = [thread EXCEPT ![t].pc = "frames", ![t].bo = NoBo,
                                    ![t].frames = << FinalFrame(b) >>]
  <2> DEFINE fs == << FinalFrame(b) >>
             r == [thread[t] EXCEPT !.pc = "frames", !.bo = NoBo, !.frames = fs]
  <2>1. thread' = [thread EXCEPT ![t] = r]
    BY <1>2, <1>6 DEF GemTypeOK
  <2> HIDE DEF fs
  <2>2. r.pc = "frames" /\ r.time = thread[t].time
    BY <1>2, ThreadTypes DEF ThreadRecord
  <2> HIDE DEF r
  <2>3. "unref" \in Timed /\ "frames" # "busy"
    BY DEF Timed
  <2>4. Passes(t)
    BY <1>2, <1>3, <2>1, <2>2, <2>3, PassPut
  <2> QED BY <1>3, <1>4, <2>4, PlainIs
<1> QED BY <1>3, <1>5, <1>6

(* clear_relocs is called: the clock is read.                              *)
LEMMA ClearRelocsPlain ==
  ASSUME CoreInv, NEW t \in Threads, NEW b \in Bos, ClearRelocs(t, b)
  PROVE  Plain(t)
<1>1. PICK fs : thread' = [thread EXCEPT ![t].pc = "clear", ![t].bo = b, ![t].time = clock,
                                         ![t].frames = fs]
  BY DEF ClearRelocs
<1>2. UNCHANGED << vma, bo, cache, time, clock, kernel >> /\ GemTypeOK
  BY DEF ClearRelocs, CoreInv
<1> DEFINE r == [thread[t] EXCEPT !.pc = "clear", !.bo = b, !.time = clock, !.frames = fs]
<1>3. thread' = [thread EXCEPT ![t] = r]
  BY <1>1, <1>2 DEF GemTypeOK
<1>4. r.pc = "clear" /\ r.time = clock
  BY <1>2, ThreadTypes DEF ThreadRecord
<1> HIDE DEF r
<1>5. Passes(t)
  BY <1>2, <1>3, <1>4, PassPut
<1> QED BY <1>2, <1>5, SteadySame, PlainIs

(* clear_relocs takes the lock.                                            *)
LEMMA ClearLockedPlain ==
  ASSUME CoreInv, NEW t \in Threads, ClearLocked(t)
  PROVE  Plain(t)
<1>1. /\ thread[t].pc = "clear" /\ Goto(t, "frames")
      /\ UNCHANGED << vma, bo, cache, time, clock, kernel >> /\ GemTypeOK
  BY DEF ClearLocked, At, CoreInv
<1>2. "clear" \in Timed /\ "frames" # "busy"
  BY DEF Timed
<1>3. Passes(t)
  BY <1>1, <1>2, PassGoto
<1> QED BY <1>1, <1>3, SteadySame, PlainIs

(* A turn of the loop over the relocations.                                *)
LEMMA DropTargetPlain ==
  ASSUME CoreInv, NEW t \in Threads, DropTarget(t)
  PROVE  Plain(t)
<1>1. /\ thread[t].pc = "frames" /\ Top(t).at <= Len(bo[Top(t).bo].relocs)
      /\ UNCHANGED << vma, cache, time, clock, kernel >> /\ GemTypeOK
  BY DEF DropTarget, At, CoreInv
<1>2. PICK c \in Bos : c = bo[Top(t).bo].relocs[Top(t).at]
  <2>1. /\ Top(t).at \in Nat /\ 1 <= Top(t).from /\ Top(t).from \in Nat /\ Top(t).from <= Top(t).at
        /\ bo[Top(t).bo].relocs \in Seq(Bos) /\ Len(bo[Top(t).bo].relocs) \in Nat
    BY <1>1, TopOK
  <2>2. Top(t).at \in 1 .. Len(bo[Top(t).bo].relocs)
    BY <1>1, <2>1
  <2> QED BY <2>1, <2>2
<1>3. PICK fs : /\ thread' = [thread EXCEPT ![t].frames = fs]
                /\ bo' = bo \/ bo' = [bo EXCEPT ![c].refcount = bo[c].refcount - 1]
  <2>1. CASE c = Top(t).bo
    BY <1>2, <2>1 DEF DropTarget
  <2>2. CASE c # Top(t).bo
    BY <1>1, <1>2, <2>2 DEF DropTarget, GemTypeOK
  <2> QED BY <2>1, <2>2
<1>4. SteadyBo
  BY <1>1, <1>3, SteadyCount, SteadySame
<1> DEFINE r == [thread[t] EXCEPT !.frames = fs]
<1>5. thread' = [thread EXCEPT ![t] = r]
  BY <1>3
<1>6. r.pc = "frames" /\ r.time = thread[t].time
  BY <1>1, ThreadTypes DEF ThreadRecord
<1> HIDE DEF r
<1>7. "frames" # "busy"
  OBVIOUS
<1>8. Passes(t)
  BY <1>1, <1>5, <1>6, <1>7, PassPut
<1> QED BY <1>1, <1>4, <1>8, PlainIs

(* clear_relocs returns.                                                   *)
LEMMA ClearedPlain ==
  ASSUME CoreInv, NEW t \in Threads, Cleared(t)
  PROVE  Plain(t)
<1>1. /\ thread[t].pc = "frames" /\ Return(t) /\ GemTypeOK
      /\ UNCHANGED << vma, cache, time, clock, kernel >>
  BY DEF Cleared, At, CoreInv
<1>2. PICK b \in Bos : b = Top(t).bo
  BY <1>1, TopOK
<1>3. PICK s : bo' = [bo EXCEPT ![b].relocs = s]
  BY <1>2 DEF Cleared
<1>4. SteadyBo /\ Passes(t)
  BY <1>1, <1>3, SteadyRelocs, PassReturn
<1> QED BY <1>1, <1>4, PlainIs

(* emit_reloc.                                                             *)
LEMMA EmitRelocPlain ==
  ASSUME CoreInv, NEW t \in Threads, NEW b \in Bos, NEW c \in Bos, EmitReloc(t, b, c)
  PROVE  Plain(t)
<1>1. /\ UNCHANGED << vma, cache, time, clock, kernel >> /\ GemTypeOK
      /\ thread' = thread /\ thread[t].pc = "idle"
      /\ \/ bo' = [bo EXCEPT ![b].relocs = Append(bo[b].relocs, b)]
         \/ c # b /\ bo' = Relocated(b, c)
  BY DEF EmitReloc, CoreInv, GemTypeOK, Calls, At
<1>2. Passes(t)
  BY <1>1, PassSame
<1>3. CASE bo' = [bo EXCEPT ![b].relocs = Append(bo[b].relocs, b)]
  BY <1>1, <1>2, <1>3, SteadyRelocs, PlainIs
<1>4. CASE c # b /\ bo' = Relocated(b, c)
  <2>1. /\ bo'[b] = [bo[b] EXCEPT !.relocs = Append(bo[b].relocs, c)]
        /\ bo'[c] = [bo[c] EXCEPT !.used_as_reloc_target = TRUE, !.refcount = bo[c].refcount + 1]
        /\ \A d \in Bos \ {b, c} : bo'[d] = bo[d]
    BY <1>1, <1>4 DEF Relocated, GemTypeOK, BoRecord
  <2>2. /\ bo'[b].gem_handle = bo[b].gem_handle /\ bo'[b].free_time = bo[b].free_time
        /\ bo'[b].reusable = bo[b].reusable /\ bo'[b].idle = bo[b].idle
    BY <1>1, <2>1, BoTypes DEF BoRecord
  <2>3. /\ bo'[c].gem_handle = bo[c].gem_handle /\ bo'[c].free_time = bo[c].free_time
        /\ bo'[c].reusable = bo[c].reusable /\ bo'[c].idle = bo[c].idle
    BY <1>1, <2>1, BoTypes DEF BoRecord
  <2>4. SteadyBo
    BY <2>1, <2>2, <2>3 DEF SteadyBo
  <2> QED BY <1>1, <1>2, <2>4, PlainIs
<1> QED BY <1>1, <1>3, <1>4

(* disable_reuse.                                                          *)
LEMMA DisableReusePlain ==
  ASSUME CoreInv, NEW t \in Threads, NEW b \in Bos, DisableReuse(t, b)
  PROVE  Plain(t)
<1>1. /\ bo' = [bo EXCEPT ![b].reusable = FALSE] /\ thread' = thread /\ thread[t].pc = "idle"
      /\ UNCHANGED << vma, cache, time, clock, kernel >> /\ GemTypeOK
  BY DEF DisableReuse, Calls, At, CoreInv
<1> DEFINE r == [bo[b] EXCEPT !.reusable = FALSE]
<1>2. bo' = [bo EXCEPT ![b] = r]
  BY <1>1
<1>3. r.gem_handle = bo[b].gem_handle /\ r.free_time = bo[b].free_time /\ ~r.reusable
  BY <1>1, BoTypes DEF BoRecord
<1> HIDE DEF r
<1>4. SteadyBo /\ Passes(t)
  BY <1>1, <1>2, <1>3, SteadyPut, PassSame
<1> QED BY <1>1, <1>4, PlainIs

(* flink is called.                                                        *)
LEMMA FlinkPlain ==
  ASSUME CoreInv, NEW t \in Threads, NEW b \in Bos, Flink(t, b)
  PROVE  Plain(t)
<1>1. Begin(t, "flink", b) /\ UNCHANGED << vma, bo, cache, time, clock, kernel >> /\ GemTypeOK
  BY DEF Flink, CoreInv
<1>2. "flink" \notin Timed /\ "flink" # "busy"
  BY DEF Timed
<1>3. Passes(t)
  BY <1>1, <1>2, PassBegin
<1> QED BY <1>1, <1>3, SteadySame, PlainIs

(* flink under the lock.                                                   *)
LEMMA FlinkLockedPlain ==
  ASSUME CoreInv, NEW t \in Threads, FlinkLocked(t)
  PROVE  Plain(t)
<1>1. PICK b \in Bos : b = thread[t].bo
  BY DEF FlinkLocked, At, CoreInv, BorrowInv, Borrowing
<1>2. Return(t) /\ UNCHANGED << vma, cache, time, clock >> /\ GemTypeOK /\ kernel \in KernelRecord
  BY DEF FlinkLocked, CoreInv, GemTypeOK
<1>3. Passes(t)
  BY <1>2, PassReturn
<1>4. CASE UNCHANGED << kernel, named, bo >>
  BY <1>2, <1>3, <1>4, SteadySame, PlainIs
<1>5. CASE /\ kernel' = [kernel EXCEPT !.flinked = @ \cup {ObjOf(b)}]
           /\ bo' = [bo EXCEPT ![b].global_name = ObjOf(b), ![b].reusable = FALSE,
                               ![b].name_list = NamedLink(b)]
  <2> DEFINE o == ObjOf(b)
             l == NamedLink(b)
             r == [bo[b] EXCEPT !.global_name = o, !.reusable = FALSE, !.name_list = l]
  <2>1. bo' = [bo EXCEPT ![b] = r]
    BY <1>2, <1>5 DEF GemTypeOK
  <2>2. kernel'.file = kernel.file /\ kernel'.busy = kernel.busy
    BY <1>2, <1>5 DEF KernelRecord
  <2> HIDE DEF o, l
  <2>3. r.gem_handle = bo[b].gem_handle /\ r.free_time = bo[b].free_time /\ ~r.reusable
    BY <1>2, BoTypes DEF BoRecord
  <2> HIDE DEF r
  <2>4. SteadyBo
    BY <1>2, <2>1, <2>3, SteadyPut
  <2> QED BY <1>2, <1>3, <2>2, <2>4, PlainIs
<1> QED BY <1>1, <1>4, <1>5 DEF FlinkLocked

(* An export begins.                                                       *)
LEMMA ExportToPrimePlain ==
  ASSUME CoreInv, NEW t \in Threads, NEW b \in Bos, ExportToPrime(t, b)
  PROVE  Plain(t)
<1>1. /\ Begin(t, "export", b) /\ bo' = [bo EXCEPT ![b].name_list = NamedLink(b)]
      /\ UNCHANGED << vma, cache, time, clock, kernel >> /\ GemTypeOK
  BY DEF ExportToPrime, CoreInv
<1>2. "export" \notin Timed /\ "export" # "busy"
  BY DEF Timed
<1>3. Passes(t)
  BY <1>1, <1>2, PassBegin
<1> DEFINE l == NamedLink(b)
           r == [bo[b] EXCEPT !.name_list = l]
<1>4. bo' = [bo EXCEPT ![b] = r]
  BY <1>1
<1> HIDE DEF l
<1>5. /\ r.gem_handle = bo[b].gem_handle /\ r.free_time = bo[b].free_time
      /\ r.reusable = bo[b].reusable /\ r.idle = bo[b].idle
  BY <1>1, BoTypes DEF BoRecord
<1> HIDE DEF r
<1>6. SteadyBo
  BY <1>1, <1>4, <1>5, SteadyPut
<1> QED BY <1>1, <1>3, <1>6, PlainIs

(* An export ends.                                                         *)
LEMMA HandleToFDPlain ==
  ASSUME CoreInv, NEW t \in Threads, HandleToFD(t)
  PROVE  Plain(t)
<1>1. PICK b \in Bos : b = thread[t].bo
  BY DEF HandleToFD, At, CoreInv, BorrowInv, Borrowing
<1>2. Return(t) /\ UNCHANGED << vma, cache, time, clock >> /\ GemTypeOK /\ kernel \in KernelRecord
  BY DEF HandleToFD, CoreInv, GemTypeOK
<1>3. Passes(t)
  BY <1>2, PassReturn
<1>4. CASE UNCHANGED << kernel, bo >>
  BY <1>2, <1>3, <1>4, SteadySame, PlainIs
<1>5. CASE /\ kernel' = [kernel EXCEPT !.fds = @ \cup {ObjOf(b)}]
           /\ bo' = [bo EXCEPT ![b].reusable = FALSE]
  <2> DEFINE r == [bo[b] EXCEPT !.reusable = FALSE]
  <2>1. bo' = [bo EXCEPT ![b] = r]
    BY <1>5
  <2>2. kernel'.file = kernel.file /\ kernel'.busy = kernel.busy
    BY <1>2, <1>5 DEF KernelRecord
  <2>3. r.gem_handle = bo[b].gem_handle /\ r.free_time = bo[b].free_time /\ ~r.reusable
    BY <1>2, BoTypes DEF BoRecord
  <2> HIDE DEF r
  <2>4. SteadyBo
    BY <1>2, <2>1, <2>3, SteadyPut
  <2> QED BY <1>2, <1>3, <2>2, <2>4, PlainIs
<1> QED BY <1>1, <1>4, <1>5 DEF HandleToFD

(* The mapping calls.                                                      *)
LEMMA MapBoPlain ==
  ASSUME CoreInv, NEW t \in Threads, NEW b \in Bos, MapBo(t, b)
  PROVE  Plain(t)
<1>1. /\ Map(b) \/ MapGttOrUnsynchronized(b) \/ Unmap(b)
      /\ UNCHANGED << bo, cache, time, clock, thread, kernel >> /\ GemTypeOK
  BY DEF MapBo, Calls, At, CoreInv
<1>2. Good(vma) /\ Bounded(vma) /\ VirtualMapped(vma)
  BY DEF CoreInv, VmaInv
<1>3. OnlyMaps(vma, vma', b)
  <2>1. CASE Map(b)
    BY <1>2, <2>1, MapCpuGood DEF Map, Exists
  <2>2. CASE MapGttOrUnsynchronized(b)
    BY <1>2, <2>2, MapGttGood DEF MapGttOrUnsynchronized, Exists
  <2>3. CASE Unmap(b)
    BY <1>2, <2>3, UnmapGood DEF Unmap
  <2> QED BY <1>1, <2>1, <2>2, <2>3
<1>4. \A c \in Bos : vma'.link[c] = "zero" <=> vma.link[c] = "zero"
  BY <1>3 DEF OnlyMaps
<1>5. Live' = Live
  BY <1>4 DEF Live, Exists
<1>6. thread[t].pc = "idle" /\ "idle" # "busy"
  BY DEF MapBo, Calls, At
<1>7. Passes(t)
  BY <1>1, <1>6, PassSame
<1> QED BY <1>1, <1>5, <1>7, SteadySame DEF Plain

(* set_vma_cache_size.                                                     *)
LEMMA SetVmaLimitPlain ==
  ASSUME CoreInv, NEW t \in Threads, SetVmaLimit(t)
  PROVE  Plain(t)
<1>1. /\ thread[t].pc = "idle" /\ UNCHANGED << bo, cache, time, clock, thread, kernel >> /\ GemTypeOK
  BY DEF SetVmaLimit, Calls, At, CoreInv
<1>2. PICK limit \in VmaLimits : SetVmaCacheSize(limit)
  BY DEF SetVmaLimit
<1>3. Good(vma) /\ VirtualMapped(vma) /\ limit \in Int
  BY VmaLimitsAssumption DEF CoreInv, VmaInv
<1>4. \A c \in Bos : vma'.link[c] = "zero" <=> vma.link[c] = "zero"
  BY <1>2, <1>3, SetSizeGood DEF SetVmaCacheSize
<1>5. Live' = Live
  BY <1>4 DEF Live, Exists
<1>6. Passes(t)
  BY <1>1, PassSame
<1> QED BY <1>1, <1>5, <1>6, SteadySame DEF Plain

-----------------------------------------------------------------------------
(* The age of the cache, step by step.                                     *)

(* A step beside the cache.                                                *)
LEMMA YoungAside ==
  ASSUME CoreInv, YoungInv, UNCHANGED << cache, time, clock >>, OnTime,
         \A b \in InCache : bo'[b].free_time = bo[b].free_time
  PROVE  YoungInv'
<1>1. cache' \in [Buckets -> Seq(Bos)] /\ clock' \in Nat /\ clock <= clock'
  BY DEF CoreInv, GemTypeOK
<1>2. KeepsAge
  BY <1>1, SameWithin DEF KeepsAge, InCache, CachedIn
<1> QED BY <1>1, <1>2, YoungStill

(* A step on one structure that is not in the cache.                       *)
LEMMA YoungPut ==
  ASSUME CoreInv, YoungInv, UNCHANGED << cache, time, clock >>, OnTime,
         NEW b \in Bos \ InCache, NEW r, bo' = [bo EXCEPT ![b] = r]
  PROVE  YoungInv'
<1>1. InCache \subseteq Bos /\ GemTypeOK
  BY CachedLive DEF Live, CoreInv
<1>2. \A c \in InCache : bo'[c] = bo[c]
  BY <1>1 DEF GemTypeOK
<1> QED BY <1>2, YoungAside

(* A new object, or none.                                                  *)
LEMMA CreateBoYoung ==
  ASSUME TRUE \notin CanReject, CoreInv, YoungInv, NEW t \in Threads, CreateBo(t)
  PROVE  YoungInv'
<1>1. Return(t) /\ UNCHANGED << cache, time, clock >> /\ GemTypeOK
  BY DEF CreateBo, CoreInv
<1>2. OnTime
  BY <1>1, PassReturn DEF Passes
<1>3. CASE bo' = bo
  BY <1>1, <1>2, <1>3, YoungAside
<1>4. ASSUME NEW b \in Fresh, NEW r, bo' = [bo EXCEPT ![b] = r]
      PROVE  YoungInv'
  <2>1. b \in Bos \ InCache
    BY CachedLive DEF Fresh, Live
  <2> QED BY <1>1, <1>2, <1>4, <2>1, YoungPut
<1> QED BY <1>3, <1>4 DEF CreateBo

(* An object found on the list of named ones.                              *)
LEMMA FoundYoung ==
  ASSUME CoreInv, YoungInv, UNCHANGED << cache, time, clock >>, OnTime,
         NEW S, S # {}, S \subseteq Items(named), Found(FirstNamed(S))
  PROVE  YoungInv'
<1>1. PICK b \in Bos : b = FirstNamed(S)
  BY FirstNamedIn, NamedBos DEF CoreInv
<1>2. bo' = [bo EXCEPT ![b].refcount = bo[b].refcount + 1] /\ GemTypeOK
  BY <1>1 DEF Found, CoreInv, GemTypeOK
<1>3. SteadyBo
  BY <1>2, SteadyCount
<1>4. InCache \subseteq Bos
  BY CachedLive DEF Live
<1> QED BY <1>3, <1>4, YoungAside DEF SteadyBo

(* An import by name.                                                      *)
LEMMA CreateFromNameYoung ==
  ASSUME CoreInv, YoungInv, NEW t \in Threads, NEW o \in Objs, CreateFromName(t, o)
  PROVE  YoungInv'
<1>1. thread[t].pc = "idle" /\ UNCHANGED << cache, time, clock >> /\ GemTypeOK
  BY DEF CreateFromName, Calls, At, CoreInv
<1>2. PICK h : h = HandleFor(kernel, o)
  OBVIOUS
<1>3. WithName(o) \subseteq Items(named) /\ WithHandle(h) \subseteq Items(named)
  BY DEF WithName, WithHandle
<1>4. OnTime
  <2>1. CASE thread' = thread
    BY <2>1 DEF OnTime
  <2>2. CASE Goto(t, "deadlock")
    <3>1. "deadlock" \notin Timed /\ "deadlock" # "busy"
      BY DEF Timed
    <3> QED BY <1>1, <2>2, <3>1, PassGoto DEF Passes
  <2> QED BY <2>1, <2>2 DEF CreateFromName
<1>5. CASE WithName(o) # {} /\ Found(FirstNamed(WithName(o)))
  BY <1>1, <1>3, <1>4, <1>5, FoundYoung
<1>6. CASE WithHandle(h) # {} /\ Found(FirstNamed(WithHandle(h)))
  BY <1>1, <1>3, <1>4, <1>6, FoundYoung
<1>7. ASSUME NEW b \in Fresh, bo' = [bo EXCEPT ![b] = Imported(h, o)]
      PROVE  YoungInv'
  <2>1. b \in Bos \ InCache
    BY CachedLive DEF Fresh, Live
  <2> QED BY <1>1, <1>4, <1>7, <2>1, YoungPut
<1>8. CASE bo' = bo
  BY <1>1, <1>4, <1>8, YoungAside
<1>9. \/ WithName(o) # {} /\ Found(FirstNamed(WithName(o)))
      \/ WithHandle(h) # {} /\ Found(FirstNamed(WithHandle(h)))
      \/ \E b \in Fresh : bo' = [bo EXCEPT ![b] = Imported(h, o)]
      \/ bo' = bo
  BY <1>2 DEF CreateFromName
<1> QED BY <1>5, <1>6, <1>7, <1>8, <1>9

(* The handle of a dma-buf.                                                *)
LEMMA FDToHandleYoung ==
  ASSUME CoreInv, YoungInv, NEW t \in Threads, NEW o \in Objs, FDToHandle(t, o)
  PROVE  YoungInv'
<1>1. UNCHANGED << bo, cache, time, clock >> /\ GemTypeOK
  BY DEF FDToHandle, CoreInv
<1>2. PICK f, h : thread' = [thread EXCEPT ![t].pc = "prime", ![t].flag = f, ![t].handle = h]
  <2>1. CASE thread' = [thread EXCEPT ![t].pc = "prime", ![t].flag = TRUE,
                                      ![t].handle = HandleFor(kernel, o)]
    BY <2>1
  <2>2. ASSUME NEW h, thread' = [thread EXCEPT ![t].pc = "prime", ![t].handle = h]
        PROVE  thread' = [thread EXCEPT ![t].pc = "prime", ![t].flag = thread[t].flag, ![t].handle = h]
    <3> DEFINE q == [thread[t] EXCEPT !.pc = "prime", !.handle = h]
               r == [thread[t] EXCEPT !.pc = "prime", !.flag = thread[t].flag, !.handle = h]
    <3>1. q = r
      BY <1>1, ThreadTypes DEF ThreadRecord
    <3>2. thread' = [thread EXCEPT ![t] = q]
      BY <1>1, <2>2 DEF GemTypeOK
    <3>3. [thread EXCEPT ![t].pc = "prime", ![t].flag = thread[t].flag, ![t].handle = h]
            = [thread EXCEPT ![t] = r]
      BY <1>1 DEF GemTypeOK
    <3> QED BY <3>1, <3>2, <3>3
  <2> QED BY <2>1, <2>2 DEF FDToHandle
<1> DEFINE r == [thread[t] EXCEPT !.pc = "prime", !.flag = f, !.handle = h]
<1>3. thread' = [thread EXCEPT ![t] = r]
  BY <1>1, <1>2 DEF GemTypeOK
<1>4. r.pc = "prime" /\ "prime" \notin Timed /\ "prime" # "busy"
  BY <1>1, ThreadTypes DEF ThreadRecord, Timed
<1> HIDE DEF r
<1>5. OnTime
  BY <1>1, <1>3, <1>4, PassPut DEF Passes
<1> QED BY <1>1, <1>5, YoungAside

(* An import by fd.                                                        *)
LEMMA CreateFromPrimeYoung ==
  ASSUME CoreInv, YoungInv, NEW t \in Threads, CreateFromPrime(t)
  PROVE  YoungInv'
<1>1. UNCHANGED << cache, time, clock >> /\ GemTypeOK
  BY DEF CreateFromPrime, CoreInv
<1>2. PICK h : h = thread[t].handle
  OBVIOUS
<1>3. WithHandle(h) \subseteq Items(named)
  BY DEF WithHandle
<1>4. CASE Return(t) /\ bo' = bo
  <2>1. OnTime
    BY <1>1, <1>4, PassReturn DEF Passes
  <2> QED BY <1>1, <1>4, <2>1, YoungAside
<1>5. CASE Return(t) /\ WithHandle(h) # {} /\ Found(FirstNamed(WithHandle(h)))
  <2>1. OnTime
    BY <1>1, <1>5, PassReturn DEF Passes
  <2> QED BY <1>1, <1>3, <1>5, <2>1, FoundYoung
<1>6. ASSUME NEW b \in Fresh, bo' = [bo EXCEPT ![b] = Imported(h, NoObj)],
             thread' = [thread EXCEPT ![t] = [Idle EXCEPT !.pc = "tiling", !.bo = b]]
      PROVE  YoungInv'
  <2> DEFINE r == [Idle EXCEPT !.pc = "tiling", !.bo = b]
  <2>1. r.pc = "tiling" /\ "tiling" \notin Timed /\ "tiling" # "busy"
    BY DEF Idle, Timed
  <2>2. thread' = [thread EXCEPT ![t] = r]
    BY <1>6
  <2> HIDE DEF r
  <2>3. OnTime
    BY <1>1, <2>1, <2>2, PassPut DEF Passes
  <2>4. b \in Bos \ InCache
    BY CachedLive DEF Fresh, Live
  <2> QED BY <1>1, <1>6, <2>3, <2>4, YoungPut
<1> QED BY <1>2, <1>4, <1>5, <1>6 DEF CreateFromPrime

(* The tiling of an import.                                                *)
LEMMA GetTilingYoung ==
  ASSUME CoreInv, YoungInv, NEW t \in Threads, GetTiling(t)
  PROVE  YoungInv'
<1>1. PICK b \in Bos : b = thread[t].bo
  BY DEF GetTiling, At, CoreInv, BorrowInv, Borrowing
<1>2. UNCHANGED << cache, time, clock >> /\ GemTypeOK
  BY DEF GetTiling, CoreInv
<1>3. CASE Return(t) /\ bo' = bo
  <2>1. OnTime
    BY <1>2, <1>3, PassReturn DEF Passes
  <2> QED BY <1>2, <1>3, <2>1, YoungAside
<1>4. CASE Return(t) /\ bo' = [bo EXCEPT ![b].refcount = bo[b].refcount - 1]
  <2>1. OnTime
    BY <1>2, <1>4, PassReturn DEF Passes
  <2>2. SteadyBo /\ InCache \subseteq Bos
    BY <1>2, <1>4, SteadyCount, CachedLive DEF Live
  <2> QED BY <1>2, <2>1, <2>2, YoungAside DEF SteadyBo
<1>5. CASE thread' = [thread EXCEPT ![t].pc = "unref", ![t].time = clock] /\ bo' = bo
  <2> DEFINE r == [thread[t] EXCEPT !.pc = "unref", !.time = clock]
  <2>1. thread' = [thread EXCEPT ![t] = r]
    BY <1>2, <1>5 DEF GemTypeOK
  <2>2. r.pc = "unref" /\ r.time = clock
    BY <1>2, ThreadTypes DEF ThreadRecord
  <2> HIDE DEF r
  <2>3. OnTime
    BY <1>2, <2>1, <2>2, PassPut DEF Passes
  <2> QED BY <1>2, <1>5, <2>3, YoungAside
<1>6. \/ Return(t) /\ bo' = bo
      \/ Return(t) /\ bo' = [bo EXCEPT ![b].refcount = bo[b].refcount - 1]
      \/ thread' = [thread EXCEPT ![t].pc = "unref", ![t].time = clock] /\ bo' = bo
  BY <1>1, <1>2 DEF GetTiling, GemTypeOK
<1> QED BY <1>3, <1>4, <1>5, <1>6

(* drm_intel_gem_bo_exec.                                                  *)
LEMMA ExecYoung ==
  ASSUME CoreInv, YoungInv, NEW t \in Threads, NEW b \in Bos, Exec(t, b)
  PROVE  YoungInv'
<1>1. bo' = Executed(b) /\ UNCHANGED << cache, time, clock, thread >> /\ GemTypeOK
  BY DEF Exec, CoreInv
<1>2. ASSUME NEW c \in Bos PROVE bo'[c].free_time = bo[c].free_time
  <2>1. bo'[c] = bo[c] \/ bo'[c] = [bo[c] EXCEPT !.idle = FALSE]
    BY <1>1 DEF Executed
  <2> QED BY <1>1, <2>1, BoTypes DEF BoRecord
<1>3. InCache \subseteq Bos /\ OnTime
  BY <1>1, CachedLive DEF Live, OnTime
<1> QED BY <1>1, <1>2, <1>3, YoungAside

(* The busy ioctl.                                                         *)
LEMMA BusyYoung ==
  ASSUME CoreInv, YoungInv, NEW t \in Threads, NEW b \in Bos, Busy(t, b)
  PROVE  YoungInv'
<1>1. PICK f : thread' = [thread EXCEPT ![t].pc = "busy", ![t].bo = b, ![t].flag = f]
  BY DEF Busy
<1>2. UNCHANGED << bo, cache, time, clock >> /\ GemTypeOK
  BY DEF Busy, CoreInv
<1> DEFINE r == [thread[t] EXCEPT !.pc = "busy", !.bo = b, !.flag = f]
<1>3. thread' = [thread EXCEPT ![t] = r]
  BY <1>1, <1>2 DEF GemTypeOK
<1>4. r.pc = "busy" /\ "busy" \notin Timed
  BY <1>2, ThreadTypes DEF ThreadRecord, Timed
<1> HIDE DEF r
<1>5. thread'[t] = r /\ \A u \in Threads \ {t} : thread'[u] = thread[u]
  BY <1>2, <1>3, MovePut
<1>6. ASSUME NEW u \in Threads, thread'[u].pc \in Timed
      PROVE  thread[u].pc \in Timed /\ thread'[u].time = thread[u].time
  <2>1. u # t
    BY <1>4, <1>5, <1>6
  <2> QED BY <1>5, <1>6, <2>1
<1>7. OnTime
  BY <1>6 DEF OnTime
<1> QED BY <1>2, <1>7, YoungAside

(* Its answer.                                                             *)
LEMMA StoreIdleYoung ==
  ASSUME CoreInv, YoungInv, NEW t \in Threads, StoreIdle(t)
  PROVE  YoungInv'
<1>1. PICK b \in Bos : b = thread[t].bo
  BY DEF StoreIdle, At, CoreInv, BorrowInv, Borrowing
<1>2. /\ Return(t) /\ bo' = [bo EXCEPT ![b].idle = ~thread[t].flag]
      /\ UNCHANGED << cache, time, clock >> /\ GemTypeOK
  BY <1>1 DEF StoreIdle, CoreInv
<1>3. OnTime
  BY <1>2, PassReturn DEF Passes
<1>4. b \notin InCache
  BY <1>1, BorrowedIsUsed DEF Used
<1> DEFINE r == [bo[b] EXCEPT !.idle = ~thread[t].flag]
<1>5. bo' = [bo EXCEPT ![b] = r]
  BY <1>2
<1> HIDE DEF r
<1> QED BY <1>2, <1>3, <1>4, <1>5, YoungPut

(* The rest of the system.                                                 *)
LEMMA EnvironmentYoung ==
  ASSUME CoreInv, YoungInv, Environment
  PROVE  YoungInv'
<1>1. UNCHANGED << bo, cache, time, thread >> /\ (clock' = clock \/ clock' = clock + 1)
  BY DEF Environment, Tick, GpuRetires, ShrinkerPurges, SharersRender, SharersClose
<1>2. clock \in Nat /\ cache \in [Buckets -> Seq(Bos)]
  BY DEF CoreInv, GemTypeOK
<1>3. clock' \in Nat /\ clock <= clock'
  BY <1>1, <1>2
<1>4. KeepsAge /\ OnTime
  BY <1>1, <1>2, SameWithin DEF KeepsAge, OnTime
<1> QED BY <1>1, <1>3, <1>4, YoungStill

(* b leaves the cache.                                                     *)
LEMMA YoungTaken ==
  ASSUME CoreInv, YoungInv, NEW k \in Buckets, NEW b \in Items(cache[k]), NEW list \in Seq(Bos),
         Within(list, cache[k]), Items(list) = Items(cache[k]) \ {b},
         cache' = [cache EXCEPT ![k] = list], \A c \in Bos \ {b} : bo'[c] = bo[c],
         UNCHANGED << time, clock >>, OnTime
  PROVE  YoungInv'
<1>1. clock' \in Nat /\ clock <= clock' /\ cache \in [Buckets -> Seq(Bos)]
  BY DEF CoreInv, GemTypeOK
<1>2. /\ cache' \in [Buckets -> Seq(Bos)] /\ cache'[k] = list
      /\ \A j \in Buckets \ {k} : cache'[j] = cache[j]
  BY <1>1
<1>3. \A j \in Buckets : Within(cache'[j], cache[j])
  BY <1>2, SameWithin
<1>4. ASSUME NEW j \in Buckets, NEW c \in Items(cache'[j]) PROVE c \in Bos \ {b}
  <2>1. c \in Bos
    BY <1>2 DEF Items
  <2>2. CASE j = k
    BY <1>2, <2>1, <2>2
  <2>3. CASE j # k
    BY <1>2, <2>1, <2>3, CachedFacts
  <2> QED BY <2>2, <2>3
<1>5. KeepsAge
  BY <1>2, <1>3, <1>4 DEF KeepsAge
<1> QED BY <1>1, <1>5, YoungStill

(* The first object of a bucket is freed.                                  *)
LEMMA YoungTail ==
  ASSUME CoreInv, YoungInv, NEW k \in Buckets, cache[k] # << >>, FreeBo(cache[k][1]),
         cache' = [cache EXCEPT ![k] = Tail(cache[k])], UNCHANGED << time, clock, thread >>
  PROVE  YoungInv'
<1>1. cache[k] \in Seq(Bos) /\ NoDuplicates(cache[k]) /\ GemTypeOK /\ OnTime
  BY DEF CoreInv, GemTypeOK, CacheInv, OnTime
<1>2. /\ Tail(cache[k]) \in Seq(Bos) /\ cache[k][1] \in Items(cache[k])
      /\ Items(Tail(cache[k])) = Items(cache[k]) \ {cache[k][1]}
  BY <1>1, TailItems
<1>3. Within(Tail(cache[k]), cache[k])
  BY <1>1, TailWithin
<1>4. bo' = [bo EXCEPT ![cache[k][1]] = Blank]
  BY DEF FreeBo
<1>5. \A c \in Bos \ {cache[k][1]} : bo'[c] = bo[c]
  BY <1>1, <1>4 DEF GemTypeOK
<1> QED BY <1>1, <1>2, <1>3, <1>5, YoungTaken

(* The cleanup frees an aged object.                                       *)
LEMMA CleanupFreeYoung ==
  ASSUME CoreInv, YoungInv, NEW t \in Threads, CleanupFree(t)
  PROVE  YoungInv'
<1>1. PICK k \in Buckets : /\ cache[k] # << >> /\ FreeBo(cache[k][1])
                           /\ cache' = [cache EXCEPT ![k] = Tail(@)]
  BY DEF CleanupFree, Expired
<1>2. UNCHANGED << time, clock, thread >> /\ cache' = [cache EXCEPT ![k] = Tail(cache[k])]
  BY <1>1 DEF CleanupFree
<1> QED BY <1>1, <1>2, YoungTail

(* A turn of the purge of a bucket.                                        *)
LEMMA PurgeBucketYoung ==
  ASSUME CoreInv, YoungInv, NEW t \in Threads, PurgeBucket(t)
  PROVE  YoungInv'
<1> DEFINE k == thread[t].bucket
           list == Bucket(k)
<1>1. UNCHANGED << time, clock >> /\ GemTypeOK
  BY DEF PurgeBucket, CoreInv
<1>2. CASE Goto(t, "alloc") /\ UNCHANGED << vma, bo, cache, kernel >>
  <2>1. "alloc" \notin Timed /\ "alloc" # "busy"
    BY DEF Timed
  <2>2. OnTime
    BY <1>1, <1>2, <2>1, PassGoto DEF Passes
  <2> QED BY <1>1, <1>2, <2>2, YoungAside
<1>3. CASE /\ list # << >> /\ FreeBo(list[1])
           /\ cache' = [cache EXCEPT ![k] = Tail(@)] /\ UNCHANGED thread
  <2>1. k \in Buckets /\ list = cache[k]
    BY <1>3 DEF Bucket
  <2>2. cache' = [cache EXCEPT ![k] = Tail(cache[k])]
    BY <1>3
  <2> HIDE DEF k, list
  <2> QED BY <1>1, <1>3, <2>1, <2>2, YoungTail
<1> QED BY <1>2, <1>3 DEF PurgeBucket

(* alloc_internal takes a cached object, or frees one that lost its pages. *)
LEMMA AllocHitYoung ==
  ASSUME TRUE \notin CanReject, CoreInv, YoungInv, NEW t \in Threads, AllocHit(t)
  PROVE  YoungInv'
<1> DEFINE k == thread[t].bucket
<1>1. UNCHANGED << time, clock >> /\ GemTypeOK
  BY DEF AllocHit, CoreInv
<1>2. PICK b \in Candidates(t) :
        /\ cache' = [cache EXCEPT ![k] = RemoveItem(@, b)]
        /\ \/ FreeBo(b) /\ Goto(t, "purge")
           \/ Reuse(t, b)
  BY DEF AllocHit
<1>3. k \in Buckets /\ b \in Items(cache[k])
  BY <1>1, CandidateCached
<1> HIDE DEF k
<1>4. b \in Bos
  BY <1>3, CachedFacts
<1> DEFINE list == RemoveItem(cache[k], b)
<1>5. /\ list \in Seq(Bos) /\ Items(list) = Items(cache[k]) \ {b} /\ Within(list, cache[k])
      /\ cache' = [cache EXCEPT ![k] = list]
  <2>1. cache[k] \in Seq(Bos) /\ NoDuplicates(cache[k])
    BY <1>3 DEF CoreInv, GemTypeOK, CacheInv
  <2> QED BY <1>2, <1>3, <2>1, RemoveItemItems, RemoveWithin
<1> HIDE DEF list
<1>6. OnTime
  <2>1. CASE Goto(t, "purge")
    <3>1. "purge" \notin Timed /\ "purge" # "busy"
      BY DEF Timed
    <3> QED BY <1>1, <2>1, <3>1, PassGoto DEF Passes
  <2>2. CASE Reuse(t, b)
    BY <1>1, <2>2, PassReturn DEF Passes, Reuse
  <2> QED BY <1>2, <2>1, <2>2
<1>7. \A c \in Bos \ {b} : bo'[c] = bo[c]
  BY <1>1, <1>2 DEF FreeBo, Reuse, GemTypeOK
<1> QED BY <1>1, <1>3, <1>5, <1>6, <1>7, YoungTaken

(* A cleanup ends: the first object of a bucket is its oldest.             *)
LEMMA CleanupDoneYoung ==
  ASSUME OneThread, CoreInv, YoungInv, NEW t \in Threads, CleanupDone(t)
  PROVE  YoungInv'
<1>1. /\ thread[t].pc = "cleanup" /\ Return(t) /\ UNCHANGED << bo, cache, clock >>
      /\ time' = thread[t].time
      /\ time = thread[t].time \/ Expired(t) = {}
  BY DEF CleanupDone, At
<1>2. /\ GemTypeOK /\ time \in Nat /\ clock \in Nat /\ cache \in [Buckets -> Seq(Bos)]
      /\ thread[t].time \in Nat /\ \A b \in Bos : bo[b].free_time \in Nat
  BY ThreadTypes DEF CoreInv, GemTypeOK, BoRecord
<1>3. time <= thread[t].time /\ thread[t].time <= clock
  BY <1>1 DEF YoungInv, Timed
<1>4. \A u \in Threads : thread'[u].pc \notin Timed
  <2>1. thread'[t].pc = "idle"
    BY <1>1, <1>2, MovePut, IdleType DEF Return
  <2> QED BY <2>1 DEF OneThread, Timed
<1>5. ASSUME NEW k \in Buckets, NEW b \in Items(cache[k]) PROVE thread[t].time - bo[b].free_time <= 1
  <2>1. CASE time = thread[t].time
    BY <2>1 DEF YoungInv, CacheIsYoung, CachedIn
  <2>2. CASE Expired(t) = {}
    <3>1. PICK j \in 1 .. Len(cache[k]) : cache[k][j] = b
      BY DEF Items
    <3>2. cache[k] \in Seq(Bos) /\ Len(cache[k]) \in Nat
      BY <1>2
    <3>3. cache[k] # << >> /\ 1 \in 1 .. Len(cache[k]) /\ 1 <= j
      BY <3>1, <3>2
    <3>4. cache[k][1] \in Bos /\ b \in Bos
      BY <3>1, <3>2, <3>3
    <3>5. ~ (thread[t].time - bo[cache[k][1]].free_time > 1)
      BY <2>2, <3>3 DEF Expired
    <3>6. bo[cache[k][1]].free_time <= bo[b].free_time
      BY <3>1, <3>3 DEF YoungInv, InOrder
    <3> QED BY <1>2, <3>4, <3>5, <3>6
  <2> QED BY <1>1, <2>1, <2>2
<1>6. \A k \in Buckets : InOrder(cache[k])'
  BY <1>1 DEF YoungInv, InOrder
<1>7. \A k \in Buckets : \A b \in Items(cache[k]) : bo[b].free_time <= clock
  BY DEF YoungInv, CachedIn
<1> QED BY <1>1, <1>3, <1>4, <1>5, <1>6, <1>7 DEF YoungInv, CacheIsYoung, CachedIn, InOrder

(* The rest of unreference_final: what goes to the cache is the youngest   *)
(* there.                                                                  *)
LEMMA RetireBoYoung ==
  ASSUME OneThread, CoreInv, YoungInv, NEW t \in Threads, RetireBo(t)
  PROVE  YoungInv'
<1>1. PICK b : b = Top(t).bo
  OBVIOUS
<1>2. thread[t].pc = "frames" /\ UNCHANGED << time, clock >> /\ thread[t].pc \in Timed
  BY DEF RetireBo, At, Timed
<1>3. b \in Bos /\ b \in Used /\ b \notin InCache /\ GemTypeOK
  BY <1>1, <1>2, TopOK DEF Used, CoreInv
<1>4. /\ time \in Nat /\ clock \in Nat /\ cache \in [Buckets -> Seq(Bos)]
      /\ thread[t].time \in Nat /\ \A c \in Bos : bo[c].free_time \in Nat
  BY ThreadTypes DEF CoreInv, GemTypeOK, BoRecord
<1>5. /\ thread'[t].time = thread[t].time /\ thread'[t].pc \in Timed
      /\ \A u \in Threads \ {t} : thread'[u] = thread[u]
  <2> DEFINE gs == Pop(t)
             pc == IF gs = << >> THEN "cleanup" ELSE "frames"
             r == [thread[t] EXCEPT !.frames = gs, !.pc = pc]
  <2>1. thread' = [thread EXCEPT ![t] = r]
    BY <1>3 DEF RetireBo, GemTypeOK
  <2>2. pc \in Timed
    BY DEF Timed
  <2> HIDE DEF gs, pc
  <2>3. r.pc = pc /\ r.time = thread[t].time
    BY <1>3, ThreadTypes DEF ThreadRecord
  <2> HIDE DEF r
  <2> QED BY <1>3, <2>1, <2>2, <2>3, MovePut
<1>6. CASE ~Keeps(b)
  <2>1. cache' = cache /\ bo' = [bo EXCEPT ![b] = Blank]
    BY <1>1, <1>6 DEF RetireBo, Discard
  <2>2. ASSUME NEW u \in Threads PROVE thread[u].pc \in Timed /\ thread'[u].time = thread[u].time
    BY <1>2, <1>5 DEF OneThread
  <2>3. OnTime
    BY <2>2 DEF OnTime
  <2> QED BY <1>2, <1>3, <2>1, <2>3, YoungPut
<1>7. CASE Keeps(b)
  <2>1. /\ cache' = [cache EXCEPT ![bo[b].bucket] = Append(@, b)]
        /\ bo' = [bo EXCEPT ![b].relocs = << >>, ![b].used_as_reloc_target = FALSE,
                            ![b].name_list = AfterDel(@), ![b].free_time = thread[t].time]
    BY <1>1, <1>7 DEF RetireBo
  <2>2. PICK k \in Buckets : k = bo[b].bucket
    BY <1>7 DEF Keeps
  <2> DEFINE new == Append(cache[k], b)
             n == Len(cache[k])
  <2>3. cache' = [cache EXCEPT ![k] = new] /\ cache[k] \in Seq(Bos) /\ n \in Nat
    BY <1>4, <2>1, <2>2
  <2>4. /\ cache'[k] = new /\ \A j \in Buckets \ {k} : cache'[j] = cache[j]
    BY <1>4, <2>3
  <2>5. /\ Items(new) = Items(cache[k]) \cup {b} /\ Len(new) = n + 1 /\ new[n + 1] = b
        /\ \A i \in 1 .. n : new[i] = cache[k][i]
    BY <1>3, <2>3, AppendItems
  <2> HIDE DEF new, n
  <2> DEFINE l == AfterDel(bo[b].name_list)
             tm == thread[t].time
             q == [bo[b] EXCEPT !.relocs = << >>, !.used_as_reloc_target = FALSE,
                                !.name_list = l, !.free_time = tm]
  <2>6. bo' = [bo EXCEPT ![b] = q]
    BY <1>3, <2>1 DEF GemTypeOK
  <2> HIDE DEF l
  <2>7. q.free_time = tm
    BY <1>3, BoTypes DEF BoRecord
  <2> HIDE DEF q
  <2>8. bo'[b].free_time = thread[t].time /\ \A c \in Bos \ {b} : bo'[c] = bo[c]
    BY <1>3, <2>6, <2>7 DEF GemTypeOK
  <2>9. \A j \in Buckets : \A c \in Items(cache[j]) : /\ c \in Bos \ {b} /\ bo'[c] = bo[c]
                                                      /\ bo[c].free_time \in Nat
                                                      /\ bo[c].free_time <= thread[t].time
                                                      /\ bo[c].free_time <= clock
                                                      /\ time - bo[c].free_time <= 1
    <3> TAKE j \in Buckets
    <3> TAKE c \in Items(cache[j])
    <3>1. c \in Bos /\ c \in InCache
      BY CachedFacts
    <3> QED BY <1>2, <1>3, <1>4, <2>8, <3>1 DEF YoungInv, CachedIn, CacheIsYoung
  <2>10. time <= thread[t].time /\ thread[t].time <= clock
    BY <1>2 DEF YoungInv
  <2>11. ASSUME NEW u \in Threads, thread'[u].pc \in Timed PROVE thread'[u].time = thread[t].time
    BY <1>5 DEF OneThread
  <2>12. ASSUME NEW j \in Buckets, NEW c \in Items(cache'[j])
         PROVE  /\ bo'[c].free_time <= thread[t].time /\ bo'[c].free_time <= clock
                /\ time - bo'[c].free_time <= 1
    <3>1. CASE c = b
      BY <1>4, <2>8, <2>10, <3>1
    <3>2. CASE c # b
      <4>1. c \in Items(cache[j])
        <5>1. CASE j = k
          BY <2>4, <2>5, <2>12, <3>2, <5>1
        <5>2. CASE j # k
          BY <2>4, <2>12, <5>2
        <5> QED BY <5>1, <5>2
      <4> QED BY <2>9, <4>1
    <3> QED BY <3>1, <3>2
  <2>13. ASSUME NEW j \in Buckets, NEW x \in 1 .. Len(cache'[j]), NEW y \in 1 .. Len(cache'[j]), x <= y
         PROVE  bo'[cache'[j][x]].free_time <= bo'[cache'[j][y]].free_time
    <3>1. ASSUME NEW p \in 1 .. Len(cache[j]), NEW q1 \in 1 .. Len(cache[j]), p <= q1
          PROVE  bo'[cache[j][p]].free_time <= bo'[cache[j][q1]].free_time
      <4>1. cache[j][p] \in Items(cache[j]) /\ cache[j][q1] \in Items(cache[j])
        BY DEF Items
      <4>2. bo[cache[j][p]].free_time <= bo[cache[j][q1]].free_time
        BY <3>1 DEF YoungInv, InOrder
      <4> QED BY <2>9, <4>1, <4>2
    <3>2. CASE j # k
      BY <2>4, <2>13, <3>1, <3>2
    <3>3. CASE j = k
      <4>1. Len(cache'[j]) = n + 1 /\ Len(cache[j]) = n
        BY <2>4, <2>5, <3>3 DEF n
      <4>2. CASE y \in 1 .. n
        <5>1. x \in 1 .. n
          BY <2>3, <2>13, <4>2
        <5> QED BY <2>4, <2>5, <2>13, <3>1, <3>3, <4>1, <4>2, <5>1
      <4>3. CASE y = n + 1
        <5>1. cache'[j][x] \in Items(cache'[j]) /\ cache'[j][y] = b
          BY <2>4, <2>5, <3>3, <4>3 DEF Items
        <5> QED BY <2>8, <2>12, <5>1
      <4> QED BY <2>3, <4>1, <4>2, <4>3
    <3> QED BY <3>2, <3>3
  <2>14. time' <= clock'
    BY <1>2 DEF YoungInv
  <2>15. \A u \in Threads : thread'[u].pc \in Timed =>
           time' <= thread'[u].time /\ thread'[u].time <= clock'
    BY <1>2, <2>10, <2>11
  <2>16. \A j \in Buckets : InOrder(cache[j])'
    BY <2>13 DEF InOrder
  <2> QED BY <1>2, <2>11, <2>12, <2>14, <2>15, <2>16 DEF YoungInv, CacheIsYoung, CachedIn
<1> QED BY <1>6, <1>7

(* The calls and the steps of calls that neither invariant depends on.     *)
PlainCall(t) ==
  \/ Alloc(t) \/ SetVmaLimit(t)
  \/ \E b \in Bos :
       \/ Reference(t, b) \/ Unreference(t, b) \/ ClearRelocs(t, b) \/ DisableReuse(t, b)
       \/ Flink(t, b) \/ ExportToPrime(t, b) \/ MapBo(t, b)
       \/ \E c \in Bos : EmitReloc(t, b, c)
PlainProceed(t) ==
  \/ AllocMiss(t) \/ DropTarget(t) \/ Cleared(t) \/ HandleToFD(t)
  \/ UnrefLocked(t) \/ ClearLocked(t) \/ FlinkLocked(t)

(* Each of them is plain.                                                  *)
LEMMA PlainSteps ==
  ASSUME CoreInv, NEW t \in Threads, PlainCall(t) \/ PlainProceed(t)
  PROVE  Plain(t)
<1>1. CASE Alloc(t) \/ SetVmaLimit(t)
  BY <1>1, AllocPlain, SetVmaLimitPlain
<1>2. ASSUME NEW b \in Bos,
             \/ Reference(t, b) \/ Unreference(t, b) \/ ClearRelocs(t, b) \/ DisableReuse(t, b)
             \/ Flink(t, b) \/ ExportToPrime(t, b) \/ MapBo(t, b)
      PROVE  Plain(t)
  BY <1>2, ReferencePlain, UnreferencePlain, ClearRelocsPlain, DisableReusePlain, FlinkPlain,
     ExportToPrimePlain, MapBoPlain
<1>3. ASSUME NEW b \in Bos, NEW c \in Bos, EmitReloc(t, b, c) PROVE Plain(t)
  BY <1>3, EmitRelocPlain
<1>4. CASE PlainCall(t)
  BY <1>1, <1>2, <1>3, <1>4 DEF PlainCall
<1>5. CASE PlainProceed(t)
  BY <1>5, AllocMissPlain, DropTargetPlain, ClearedPlain, HandleToFDPlain, UnrefLockedPlain,
     ClearLockedPlain, FlinkLockedPlain DEF PlainProceed
<1> QED BY <1>4, <1>5

(* And these are the others.                                               *)
LEMMA OtherSteps ==
  ASSUME NEW t \in Threads, Call(t) \/ Proceed(t) \/ Enter(t)
  PROVE  \/ PlainCall(t) \/ PlainProceed(t)
         \/ \E b \in Bos : Exec(t, b) \/ Busy(t, b)
         \/ \E o \in Objs : CreateFromName(t, o) \/ FDToHandle(t, o)
         \/ AllocHit(t) \/ PurgeBucket(t) \/ CreateBo(t) \/ RetireBo(t) \/ CleanupFree(t)
         \/ CleanupDone(t) \/ StoreIdle(t) \/ GetTiling(t) \/ CreateFromPrime(t)
<1>1. CASE Call(t)
  BY <1>1 DEF Call, PlainCall
<1>2. CASE Proceed(t) \/ Enter(t)
  BY <1>2 DEF Proceed, Enter, PlainProceed
<1> QED BY <1>1, <1>2

(* Every step keeps the times in order.                                    *)
LEMMA YoungNext ==
  ASSUME TRUE \notin CanReject, OneThread, CoreInv, YoungInv, [GemNext]_gemVars
  PROVE  YoungInv'
<1>1. CASE UNCHANGED gemVars
  <2>1. UNCHANGED << bo, cache, time, clock, thread >>
    BY <1>1 DEF gemVars
  <2>2. OnTime
    BY <2>1 DEF OnTime
  <2> QED BY <2>1, <2>2, YoungAside
<1>2. CASE Environment
  BY <1>2, EnvironmentYoung
<1>3. ASSUME NEW t \in Threads, Call(t) \/ Proceed(t) \/ Enter(t) PROVE YoungInv'
  <2>1. CASE PlainCall(t) \/ PlainProceed(t)
    BY <2>1, PlainSteps, PlainYoung
  <2>2. ASSUME NEW b \in Bos, Exec(t, b) \/ Busy(t, b) PROVE YoungInv'
    BY <2>2, ExecYoung, BusyYoung
  <2>3. ASSUME NEW o \in Objs, CreateFromName(t, o) \/ FDToHandle(t, o) PROVE YoungInv'
    BY <2>3, CreateFromNameYoung, FDToHandleYoung
  <2>4. CASE \/ AllocHit(t) \/ PurgeBucket(t) \/ CreateBo(t) \/ RetireBo(t)
             \/ CleanupFree(t) \/ CleanupDone(t)
    BY <2>4, AllocHitYoung, PurgeBucketYoung, CreateBoYoung, RetireBoYoung, CleanupFreeYoung,
       CleanupDoneYoung
  <2>5. CASE StoreIdle(t) \/ GetTiling(t) \/ CreateFromPrime(t)
    BY <2>5, StoreIdleYoung, GetTilingYoung, CreateFromPrimeYoung
  <2> QED BY <1>3, <2>1, <2>2, <2>3, <2>4, <2>5, OtherSteps
<1> QED BY <1>1, <1>2, <1>3 DEF GemNext

(* With one thread drm_intel_gem_cleanup_bo_cache keeps what it promises:  *)
(* after a cleanup nothing in the cache is older than two seconds, and     *)
(* nothing that is freed later makes it so.  With two threads the clock is *)
(* read before the lock is taken, and the buckets need not be in order.    *)
THEOREM GemCacheIsYoung ==
  ASSUME TRUE \notin CanReject, OneThread
  PROVE  GemSpec => []CacheIsYoung
<1>1. GemInit => CoreInv /\ YoungInv
  <2> SUFFICES ASSUME GemInit PROVE YoungInv
    BY GemInitInv
  <2>1. /\ cache = [k \in Buckets |-> << >>] /\ time = 0 /\ clock = 0
        /\ \A t \in Threads : thread[t].pc = "idle"
    BY DEF GemInit, Idle
  <2>2. "idle" \notin Timed /\ Items(<< >>) = {} /\ Len(<< >>) = 0
    BY DEF Timed, Items
  <2>3. \A k \in Buckets : CachedIn(k) = {} /\ InOrder(cache[k])
    BY <2>1, <2>2 DEF CachedIn, InOrder
  <2> QED BY <2>1, <2>2, <2>3 DEF YoungInv, CacheIsYoung
<1>2. (CoreInv /\ YoungInv) /\ [GemNext]_gemVars => (CoreInv /\ YoungInv)'
  BY GemNextInv, YoungNext
<1>3. YoungInv => CacheIsYoung
  BY DEF YoungInv
<1> QED BY <1>1, <1>2, <1>3, PTL DEF GemSpec

-----------------------------------------------------------------------------
(* The idle flags, step by step.                                           *)

(* A step after which no structure is newly known to be idle, and none of  *)
(* those that are stands for another object or for one newly busy.         *)
LEMMA IdleStill ==
  ASSUME OneThread, IdleInv, NEW t \in Threads, thread'[t].pc # "busy",
         \A c \in Live' : KnownIdle(c)' => c \in Live /\ KnownIdle(c) /\ ObjOf(c)' = ObjOf(c),
         kernel'.busy \subseteq kernel.busy
  PROVE  IdleInv'
<1>1. BusyNote'
  BY DEF BusyNote, OneThread
<1>2. IdleIsIdle'
  BY DEF IdleInv, IdleIsIdle
<1> QED BY <1>1, <1>2 DEF IdleInv

(* A new structure is not known to be idle.                                *)
LEMMA IdleBirth ==
  ASSUME OneThread, CoreInv, ShareInv, IdleInv, NEW t \in Threads, thread'[t].pc # "busy",
         NEW h \in Handles, NEW o \in Objs, Opens(h, o), kernel'.busy = kernel.busy,
         NEW b \in Bos \ Live, Live' \subseteq Live \cup {b},
         \A c \in Bos \ {b} : bo'[c] = bo[c], b \in Live' => ~KnownIdle(b)'
  PROVE  IdleInv'
<1>1. \A c \in Live : c \in Bos /\ c # b /\ bo'[c] = bo[c]
  BY DEF Live
<1>2. \A c \in Live : ObjOf(c)' = ObjOf(c)
  BY <1>1, OpenKeeps
<1>3. \A c \in Live' : KnownIdle(c)' => c \in Live /\ KnownIdle(c) /\ ObjOf(c)' = ObjOf(c)
  BY <1>1, <1>2 DEF KnownIdle
<1> QED BY <1>3, IdleStill

(* What has been returned from is not the place of the busy ioctl.         *)
LEMMA ReturnPc ==
  ASSUME GemTypeOK, NEW t \in Threads, Return(t)
  PROVE  thread'[t].pc # "busy"
BY PassReturn DEF Passes

(* A new object.                                                           *)
LEMMA CreateBoIdle ==
  ASSUME Disciplined, OneThread, CoreInv, ShareInv, IdleInv, NEW t \in Threads, CreateBo(t)
  PROVE  IdleInv'
<1>1. Return(t) /\ UNCHANGED << named, cache, time, clock >>
  BY DEF CreateBo
<1>2. /\ GemTypeOK /\ kernel \in KernelRecord
      /\ thread[t].bucket \in Buckets \cup {NoBucket}
  BY ThreadTypes DEF CoreInv, GemTypeOK
<1>3. Passes(t) /\ thread'[t].pc # "busy"
  BY <1>1, <1>2, PassReturn DEF Passes
<1>4. CASE UNCHANGED << vma, bo, kernel, held >>
  <2>1. Plain(t)
    BY <1>1, <1>3, <1>4, SteadySame, PlainIs
  <2> QED BY <2>1, PlainIdle
<1>5. ASSUME NEW b \in Fresh, NEW o \in Dead(kernel), HandlesOf(kernel, NoObj) # {},
             bo' = [bo EXCEPT ![b] = Created(HandleFor(kernel, o), thread[t].bucket)],
             vma' = InitVmaList(vma, b), kernel' = OpenHandle(kernel, o)
      PROVE  IdleInv'
  <2>1. o \in Objs /\ CanOpen(kernel, o) /\ HandlesOf(kernel, o) = {}
    BY <1>5 DEF Dead, CanOpen
  <2>2. PICK h : h = HandleFor(kernel, o)
    OBVIOUS
  <2>3. h \in Handles
    BY <1>2, <2>1, <2>2, HandleForType
  <2>4. kernel.file[h] # o
    BY <2>1, <2>3 DEF HandlesOf
  <2>5. Opens(h, o) /\ kernel'.busy = kernel.busy
    BY <1>2, <1>5, <2>1, <2>2, <2>4, OpensHandle, OpenType
  <2>6. b \in Bos /\ Live' = Live \cup {b} /\ b \notin Live
    BY <1>1, <1>5, NewVma DEF Fresh, Live
  <2> DEFINE r == Created(h, thread[t].bucket)
  <2>7. r \in BoRecord /\ ~r.idle
    <3>1. r \in BoRecord
      BY <1>2, <2>3, CreatedType
    <3> QED BY <3>1 DEF Created, Blank
  <2>8. bo' = [bo EXCEPT ![b] = r]
    BY <1>5, <2>2
  <2> HIDE DEF r
  <2>9. bo'[b] = r /\ \A c \in Bos \ {b} : bo'[c] = bo[c]
    BY <1>2, <2>6, <2>7, <2>8, BoPut
  <2>10. ~KnownIdle(b)'
    BY <2>7, <2>9 DEF KnownIdle
  <2> QED BY <1>3, <2>1, <2>3, <2>5, <2>6, <2>9, <2>10, IdleBirth
<1> QED BY <1>4, <1>5 DEF CreateBo, Disciplined

(* A named object is referenced, and the kernel opens nothing new.         *)
LEMMA FoundIdle ==
  ASSUME OneThread, CoreInv, IdleInv, NEW t \in Threads, thread[t].pc = "idle",
         NEW S, S # {}, S \subseteq Items(named), Found(FirstNamed(S)),
         UNCHANGED << vma, cache, time, clock, thread >>,
         kernel'.file = kernel.file, kernel'.busy = kernel.busy
  PROVE  IdleInv'
<1>1. PICK b \in Bos : b = FirstNamed(S)
  BY FirstNamedIn, NamedBos DEF CoreInv
<1>2. bo' = [bo EXCEPT ![b].refcount = bo[b].refcount + 1] /\ GemTypeOK
  BY <1>1 DEF Found, CoreInv, GemTypeOK
<1>3. SteadyBo /\ Passes(t)
  BY <1>2, SteadyCount, PassSame
<1>4. Plain(t)
  BY <1>3, PlainIs
<1> QED BY <1>4, PlainIdle

(* An import by name.                                                      *)
LEMMA CreateFromNameIdle ==
  ASSUME OneThread, CoreInv, ShareInv, IdleInv, NEW t \in Threads, NEW o \in Objs, CreateFromName(t, o)
  PROVE  IdleInv'
<1>1. thread[t].pc = "idle" /\ UNCHANGED << cache, time, clock >>
  BY DEF CreateFromName, Calls, At
<1>2. /\ GemTypeOK /\ SharedIsNamed /\ OpenInv /\ kernel \in KernelRecord /\ NamedInv
  BY DEF CoreInv, ShareInv, GemTypeOK
<1>3. PICK h : h = HandleFor(kernel, o)
  OBVIOUS
<1>4. WithName(o) \subseteq Items(named) /\ WithHandle(h) \subseteq Items(named)
  BY DEF WithName, WithHandle
<1>5. CASE /\ WithName(o) # {} /\ Found(FirstNamed(WithName(o)))
           /\ UNCHANGED << vma, named, lock, thread, kernel >>
  BY <1>1, <1>4, <1>5, FoundIdle
<1>6. CASE o \in kernel.flinked /\ CanOpen(kernel, o) /\ kernel' = OpenHandle(kernel, o)
           /\ WithHandle(h) # {} /\ Found(FirstNamed(WithHandle(h)))
           /\ UNCHANGED << vma, named, lock, thread >>
  <2>1. PICK c \in Live : bo[c].gem_handle = h
    BY <1>2, <1>4, <1>6 DEF WithHandle, NamedInv, Used
  <2>2. h \in Handles /\ kernel.file[h] # NoObj
    BY <1>2, <2>1 DEF OpenInv
  <2>3. kernel.file[h] = o
    BY <1>2, <1>3, <1>6, <2>2, HandleForType
  <2>4. kernel'.file = [kernel.file EXCEPT ![h] = o] /\ kernel'.busy = kernel.busy
    BY <1>2, <1>3, <1>6, OpenType
  <2>5. kernel'.file = kernel.file
    BY <1>2, <2>2, <2>3, <2>4, KernelTypes
  <2> QED BY <1>1, <1>4, <1>6, <2>4, <2>5, FoundIdle
<1>7. CASE o \in kernel.flinked /\ CanOpen(kernel, o) /\ WithHandle(h) = {}
           /\ (kernel' = OpenHandle(kernel, o) \/ kernel' = Leak(OpenHandle(kernel, o), h))
  <2>1. ASSUME kernel.file[h] = o, h \in Handles, NEW c \in Live PROVE bo[c].gem_handle # h
    <3> SUFFICES ASSUME bo[c].gem_handle = h PROVE FALSE
      OBVIOUS
    <3>1. ObjOf(c) \in Shared(kernel)
      BY <1>7, <2>1 DEF ObjOf, Shared
    <3>2. c \in Items(named)
      BY <1>2, <3>1 DEF SharedIsNamed
    <3> QED BY <1>7, <3>2 DEF WithHandle
  <2>0. h \in Handles
    BY <1>2, <1>3, <1>7, HandleForType
  <2>3. Opens(h, o) /\ kernel'.busy = kernel.busy
    BY <1>3, <1>7, <2>0, <2>1, OpensHandle
  <2>2. h \in Handles /\ kernel'.busy = kernel.busy
    BY <2>0, <2>3
  <2>4. ASSUME NEW b \in Fresh, bo' = [bo EXCEPT ![b] = Imported(h, o)],
               vma' = InitVmaList(vma, b), UNCHANGED thread
        PROVE  IdleInv'
    <3>1. b \in Bos /\ Live' = Live \cup {b} /\ b \notin Live
      BY <1>1, <2>4, NewVma DEF Fresh, Live
    <3> DEFINE r == Imported(h, o)
    <3>2. r \in BoRecord /\ ~r.reusable
      BY <2>2, ImportedType
    <3>3. bo' = [bo EXCEPT ![b] = r]
      BY <2>4
    <3> HIDE DEF r
    <3>4. bo'[b] = r /\ \A c \in Bos \ {b} : bo'[c] = bo[c]
      BY <1>2, <3>1, <3>2, <3>3, BoPut
    <3>5. ~KnownIdle(b)' /\ thread'[t].pc # "busy"
      BY <1>1, <2>4, <3>2, <3>4 DEF KnownIdle
    <3> QED BY <2>2, <2>3, <3>1, <3>4, <3>5, IdleBirth
  <2>5. ASSUME Goto(t, "deadlock") \/ UNCHANGED thread, UNCHANGED << vma, bo >>
        PROVE  IdleInv'
    <3>1. "deadlock" \notin Timed /\ "deadlock" # "busy"
      BY DEF Timed
    <3>2. thread'[t].pc # "busy"
      <4>1. CASE Goto(t, "deadlock")
        BY <1>2, <4>1, <3>1, PassGoto DEF Passes
      <4>2. CASE UNCHANGED thread
        BY <1>1, <4>2
      <4> QED BY <2>5, <4>1, <4>2
    <3>3. Live' = Live
      BY <2>5 DEF Live, Exists
    <3>4. \A c \in Live : ObjOf(c)' = ObjOf(c)
      BY <2>2, <2>3, <2>5, OpenKeeps
    <3>5. \A c \in Live' : KnownIdle(c)' => c \in Live /\ KnownIdle(c) /\ ObjOf(c)' = ObjOf(c)
      BY <2>5, <3>3, <3>4 DEF KnownIdle
    <3> QED BY <2>2, <3>2, <3>5, IdleStill
  <2>6. \/ \E b \in Fresh : /\ bo' = [bo EXCEPT ![b] = Imported(h, o)]
                            /\ vma' = InitVmaList(vma, b)
                            /\ UNCHANGED thread
        \/ (Goto(t, "deadlock") \/ UNCHANGED thread) /\ UNCHANGED << vma, bo >>
        \/ WithName(o) # {} /\ Found(FirstNamed(WithName(o)))
             /\ UNCHANGED << vma, named, lock, thread, kernel >>
    BY <1>3, <1>7 DEF CreateFromName
  <2> QED BY <1>5, <2>4, <2>5, <2>6
<1>8. \/ WithName(o) # {} /\ Found(FirstNamed(WithName(o)))
           /\ UNCHANGED << vma, named, lock, thread, kernel >>
      \/ /\ o \in kernel.flinked /\ CanOpen(kernel, o)
         /\ \/ /\ WithHandle(h) = {}
               /\ kernel' = OpenHandle(kernel, o) \/ kernel' = Leak(OpenHandle(kernel, o), h)
            \/ /\ WithHandle(h) # {} /\ Found(FirstNamed(WithHandle(h)))
               /\ kernel' = OpenHandle(kernel, o) /\ UNCHANGED << vma, named, lock, thread >>
  BY <1>3 DEF CreateFromName
<1> QED BY <1>5, <1>6, <1>7, <1>8

(* DRM_IOCTL_GEM_CLOSE does not stop the GPU.                              *)
LEMMA CloseBusy ==
  ASSUME NEW k, k \in KernelRecord, NEW h
  PROVE  CloseHandle(k, h).busy = k.busy
<1>1. CASE h \in Handles
  <2> DEFINE lost == {k.file[h]} \ Shared(k)
             f == [k.file EXCEPT ![h] = NoObj]
             d == k.dontneed \ lost
             p == k.purged \ lost
             l == k.leaked \ {h}
             x == [k EXCEPT !.file = f, !.dontneed = d, !.purged = p, !.leaked = l]
  <2>1. CloseHandle(k, h) = x
    BY <1>1 DEF CloseHandle, KernelRecord
  <2> HIDE DEF f, d, p, l
  <2>2. x.busy = k.busy
    BY DEF KernelRecord
  <2> QED BY <2>1, <2>2
<1>2. CASE h \notin Handles
  BY <1>2 DEF CloseHandle
<1> QED BY <1>1, <1>2

(* An object goes.                                                         *)
LEMMA IdleDeath ==
  ASSUME OneThread, CoreInv, ShareInv, IdleInv, NEW t \in Threads, thread'[t].pc # "busy",
         NEW b \in Live, Live' = Live \ {b}, kernel' = CloseHandle(kernel, bo[b].gem_handle),
         \A c \in Bos \ {b} : bo'[c] = bo[c]
  PROVE  IdleInv'
<1>1. OpenInv /\ ApartInv /\ Live \subseteq Bos /\ kernel \in KernelRecord
  BY DEF ShareInv, CoreInv, Live, GemTypeOK
<1>2. PICK h \in Handles : h = bo[b].gem_handle
  BY <1>1 DEF OpenInv
<1>3. kernel'.file = [kernel.file EXCEPT ![h] = NoObj] /\ kernel'.busy = kernel.busy
  BY <1>1, <1>2, CloseType, CloseBusy
<1>4. \A g \in Handles \ {h} : kernel'.file[g] = kernel.file[g]
  BY <1>1, <1>3, KernelTypes
<1>5. \A c \in Live' : c \in Live /\ bo'[c] = bo[c] /\ bo[c].gem_handle \in Handles \ {h}
  BY <1>1, <1>2 DEF ApartInv, OpenInv
<1>6. \A c \in Live' : ObjOf(c)' = ObjOf(c)
  BY <1>4, <1>5 DEF ObjOf
<1>7. \A c \in Live' : KnownIdle(c)' => c \in Live /\ KnownIdle(c) /\ ObjOf(c)' = ObjOf(c)
  BY <1>5, <1>6 DEF KnownIdle
<1> QED BY <1>3, <1>7, IdleStill

(* A cached object is freed.                                               *)
LEMMA FreeIdle ==
  ASSUME OneThread, CoreInv, ShareInv, IdleInv, NEW t \in Threads, thread'[t].pc # "busy",
         NEW k \in Buckets, NEW b \in Items(cache[k]), FreeBo(b)
  PROVE  IdleInv'
<1>1. /\ GemTypeOK /\ Good(vma) /\ Bounded(vma) /\ VirtualMapped(vma)
      /\ vma.link \in [Bos -> Links]
  BY DEF CoreInv, VmaInv, Good, VmaState
<1>2. b \in Bos \ Used /\ b \in Live /\ vma.map_count[b] = 0
  BY CachedFacts, ParkedFacts
<1>3. vma' = FreeVma(vma, b) /\ vma.link[b] # "zero"
  BY <1>2 DEF FreeBo, Live, Exists
<1>4. vma'.link = [vma.link EXCEPT ![b] = "zero"]
  BY <1>1, <1>2, <1>3, FreeGood
<1>5. Live' = Live \ {b}
  BY <1>1, <1>2, <1>4 DEF Live, Exists
<1>6. bo' = [bo EXCEPT ![b] = Blank] /\ kernel' = CloseHandle(kernel, bo[b].gem_handle)
  BY DEF FreeBo
<1>7. \A c \in Bos \ {b} : bo'[c] = bo[c]
  BY <1>1, <1>2, <1>6, BlankType, BoPut
<1> QED BY <1>2, <1>5, <1>6, <1>7, IdleDeath

(* The cleanup frees an aged object.                                       *)
LEMMA CleanupFreeIdle ==
  ASSUME OneThread, CoreInv, ShareInv, IdleInv, NEW t \in Threads, CleanupFree(t)
  PROVE  IdleInv'
<1>1. PICK k \in Buckets : cache[k] # << >> /\ FreeBo(cache[k][1])
  BY DEF CleanupFree, Expired
<1>2. thread[t].pc = "cleanup" /\ thread' = thread
  BY DEF CleanupFree, At
<1>3. cache[k] \in Seq(Bos) /\ NoDuplicates(cache[k])
  BY DEF CoreInv, GemTypeOK, CacheInv
<1>4. cache[k][1] \in Items(cache[k])
  BY <1>1, <1>3, TailItems
<1>5. thread'[t].pc # "busy"
  BY <1>2
<1> QED BY <1>1, <1>4, <1>5, FreeIdle

(* A turn of the purge of a bucket.                                        *)
LEMMA PurgeBucketIdle ==
  ASSUME OneThread, CoreInv, ShareInv, IdleInv, NEW t \in Threads, PurgeBucket(t)
  PROVE  IdleInv'
<1> DEFINE k == thread[t].bucket
           list == Bucket(k)
<1>1. thread[t].pc = "purge" /\ UNCHANGED << time, clock >> /\ GemTypeOK
  BY DEF PurgeBucket, At, CoreInv
<1>2. CASE Goto(t, "alloc") /\ UNCHANGED << vma, bo, cache, kernel >>
  <2>1. "alloc" \notin Timed /\ "alloc" # "busy"
    BY DEF Timed
  <2>2. Passes(t)
    BY <1>1, <1>2, <2>1, PassGoto
  <2>3. Plain(t)
    BY <1>1, <1>2, <2>2, SteadySame, PlainIs
  <2> QED BY <2>3, PlainIdle
<1>3. CASE list # << >> /\ FreeBo(list[1]) /\ UNCHANGED thread
  <2>1. k \in Buckets /\ list = cache[k]
    BY <1>3 DEF Bucket
  <2>2. cache[k] \in Seq(Bos) /\ NoDuplicates(cache[k])
    BY <2>1 DEF CoreInv, GemTypeOK, CacheInv
  <2>3. cache[k][1] \in Items(cache[k])
    BY <1>3, <2>1, <2>2, TailItems
  <2>4. thread'[t].pc # "busy"
    BY <1>1, <1>3
  <2> HIDE DEF k, list
  <2> QED BY <1>3, <2>1, <2>3, <2>4, FreeIdle
<1> QED BY <1>2, <1>3 DEF PurgeBucket

(* A cleanup ends.                                                         *)
LEMMA CleanupDoneIdle ==
  ASSUME OneThread, CoreInv, IdleInv, NEW t \in Threads, CleanupDone(t)
  PROVE  IdleInv'
<1>1. Return(t) /\ UNCHANGED << vma, bo, kernel >> /\ GemTypeOK
  BY DEF CleanupDone, CoreInv
<1>2. thread'[t].pc # "busy"
  BY <1>1, ReturnPc
<1>3. \A c \in Live' : KnownIdle(c)' => c \in Live /\ KnownIdle(c) /\ ObjOf(c)' = ObjOf(c)
  BY <1>1 DEF Live, Exists, KnownIdle, ObjOf
<1> QED BY <1>1, <1>2, <1>3, IdleStill

(* The advice to the kernel does not concern the GPU.                      *)
LEMMA MadviseBusy ==
  ASSUME NEW k, k \in KernelRecord, NEW o, NEW dontneed \in BOOLEAN
  PROVE  Madvise(k, o, dontneed).busy = k.busy
<1> DEFINE d == IF dontneed THEN k.dontneed \cup ({o} \ {NoObj}) ELSE k.dontneed \ {o}
           x == [k EXCEPT !.dontneed = d]
<1>1. Madvise(k, o, dontneed) = x
  BY DEF Madvise, KernelRecord
<1> HIDE DEF d
<1>2. x.busy = k.busy
  BY DEF KernelRecord
<1> QED BY <1>1, <1>2

(* alloc_internal takes a cached object: without for_render the busy ioctl *)
(* has just been asked, and said no.                                       *)
LEMMA AllocHitIdle ==
  ASSUME Disciplined, OneThread, CoreInv, ShareInv, IdleInv, NEW t \in Threads, AllocHit(t)
  PROVE  IdleInv'
<1> DEFINE k == thread[t].bucket
<1>1. PICK b \in Candidates(t) :
        /\ thread[t].flag \/ ~SaysBusy(b)
        /\ \/ FreeBo(b) /\ Goto(t, "purge")
           \/ Reuse(t, b)
  BY DEF AllocHit, Disciplined
<1>2. GemTypeOK /\ kernel \in KernelRecord
  BY DEF CoreInv, GemTypeOK
<1>3. k \in Buckets /\ b \in Items(cache[k])
  BY <1>2, CandidateCached
<1> HIDE DEF k
<1>4. CASE FreeBo(b) /\ Goto(t, "purge")
  <2>1. "purge" \notin Timed /\ "purge" # "busy"
    BY DEF Timed
  <2>2. thread'[t].pc # "busy"
    BY <1>2, <1>4, <2>1, PassGoto DEF Passes
  <2> QED BY <1>3, <1>4, <2>2, FreeIdle
<1>5. CASE Reuse(t, b)
  <2>1. b \in Bos /\ b \in Live /\ bo[b].reusable
    BY <1>3, CachedFacts
  <2>2. kernel' = Madvise(kernel, ObjOf(b), FALSE) /\ vma' = vma /\ Return(t)
    BY <1>5 DEF Reuse
  <2>3. kernel'.file = kernel.file /\ kernel'.busy = kernel.busy
    <3>1. ObjOf(b) \in Objs \cup {NoObj}
      BY <1>2, <2>1, ObjOfType
    <3> QED BY <1>2, <2>2, <3>1, MadviseType, MadviseBusy
  <2> DEFINE i == bo[b].idle \/ (~thread[t].flag /\ ObjOf(b) # NoObj)
             r == [bo[b] EXCEPT !.refcount = 1, !.reusable = TRUE, !.idle = i,
                                !.used_as_reloc_target = FALSE]
  <2>4. bo' = [bo EXCEPT ![b] = r]
    BY <1>2, <1>5, <2>1 DEF Reuse, GemTypeOK
  <2>5. i => bo[b].idle \/ ~thread[t].flag
    OBVIOUS
  <2> HIDE DEF i
  <2>6. r.gem_handle = bo[b].gem_handle /\ (r.idle <=> i)
    BY <1>2, <2>1, BoTypes DEF BoRecord
  <2> HIDE DEF r
  <2>7. bo'[b] = r /\ \A c \in Bos \ {b} : bo'[c] = bo[c]
    BY <1>2, <2>1, <2>4 DEF GemTypeOK
  <2>8. Live' = Live /\ Live \subseteq Bos
    BY <2>2 DEF Live, Exists
  <2>9. \A c \in Bos : ObjOf(c)' = ObjOf(c)
    BY <2>3, <2>6, <2>7 DEF ObjOf
  <2>10. i => ObjOf(b) \notin kernel.busy
    <3>1. CASE bo[b].idle
      BY <2>1, <3>1 DEF IdleInv, IdleIsIdle, KnownIdle
    <3>2. CASE ~bo[b].idle /\ ~thread[t].flag
      BY <1>1, <3>2 DEF SaysBusy, KnownIdle, BusyIoctl
    <3> QED BY <2>5, <3>1, <3>2
  <2>11. IdleIsIdle'
    <3> SUFFICES ASSUME NEW c \in Live', KnownIdle(c)' PROVE ObjOf(c)' \notin kernel'.busy
      BY DEF IdleIsIdle
    <3>1. CASE c = b
      BY <2>1, <2>3, <2>6, <2>7, <2>9, <2>10, <3>1 DEF KnownIdle
    <3>2. CASE c # b
      BY <2>3, <2>7, <2>8, <2>9, <3>2 DEF KnownIdle, IdleInv, IdleIsIdle
    <3> QED BY <3>1, <3>2
  <2>12. BusyNote'
    <3>1. thread'[t].pc # "busy"
      BY <1>2, <2>2, ReturnPc
    <3> QED BY <3>1 DEF BusyNote, OneThread
  <2> QED BY <2>11, <2>12 DEF IdleInv
<1> QED BY <1>1, <1>4, <1>5

(* The rest of unreference_final.                                          *)
LEMMA RetireBoIdle ==
  ASSUME OneThread, CoreInv, ShareInv, IdleInv, NEW t \in Threads, RetireBo(t)
  PROVE  IdleInv'
<1>1. PICK b : b = Top(t).bo
  OBVIOUS
<1>2. thread[t].pc = "frames" /\ Top(t).final
  BY DEF RetireBo, At
<1>3. /\ GemTypeOK /\ kernel \in KernelRecord
      /\ b \in Bos /\ b \in Used /\ b \in Live /\ bo[b].refcount = 0
  <2>1. b \in Bos /\ b \in Used /\ bo[b].refcount = 0
    <3>1. /\ Top(t).bo \in Bos /\ Top(t).bo \in Used /\ FrameOK(t, Len(thread[t].frames))
          /\ Top(t) = thread[t].frames[Len(thread[t].frames)]
      BY <1>2, TopOK, Zenon
    <3>2. bo[Top(t).bo].refcount = 0
      BY <1>2, <3>1 DEF FrameOK
    <3> QED BY <1>1, <3>1, <3>2, Zenon
  <2> QED BY <2>1 DEF CoreInv, GemTypeOK, Used
<1>4. thread'[t].pc # "busy"
  <2> DEFINE gs == Pop(t)
             pc == IF gs = << >> THEN "cleanup" ELSE "frames"
             r == [thread[t] EXCEPT !.frames = gs, !.pc = pc]
  <2>1. thread' = [thread EXCEPT ![t] = r]
    BY <1>3 DEF RetireBo, GemTypeOK
  <2>2. pc # "busy"
    OBVIOUS
  <2> HIDE DEF gs, pc
  <2>3. r.pc = pc
    BY <1>3, ThreadTypes DEF ThreadRecord
  <2> HIDE DEF r
  <2> QED BY <1>3, <2>1, <2>2, <2>3, MovePut
<1>5. CASE Keeps(b)
  <2>1. /\ vma' = DropMappings(vma, b) /\ kernel' = Madvise(kernel, ObjOf(b), TRUE)
        /\ bo' = [bo EXCEPT ![b].relocs = << >>, ![b].used_as_reloc_target = FALSE,
                            ![b].name_list = AfterDel(@), ![b].free_time = thread[t].time]
    BY <1>1, <1>5 DEF RetireBo
  <2> DEFINE l == AfterDel(bo[b].name_list)
             tm == thread[t].time
             q == [bo[b] EXCEPT !.relocs = << >>, !.used_as_reloc_target = FALSE,
                                !.name_list = l, !.free_time = tm]
  <2>2. bo' = [bo EXCEPT ![b] = q]
    BY <1>3, <2>1 DEF GemTypeOK
  <2> HIDE DEF l, tm
  <2>3. q.gem_handle = bo[b].gem_handle /\ q.reusable = bo[b].reusable /\ q.idle = bo[b].idle
    BY <1>3, BoTypes DEF BoRecord
  <2> HIDE DEF q
  <2>4. bo'[b] = q /\ \A c \in Bos \ {b} : bo'[c] = bo[c]
    BY <1>3, <2>2 DEF GemTypeOK
  <2>5. \A c \in Bos : /\ bo'[c].gem_handle = bo[c].gem_handle /\ bo'[c].reusable = bo[c].reusable
                       /\ bo'[c].idle = bo[c].idle
    BY <2>3, <2>4
  <2>6. Live' = Live /\ Live \subseteq Bos
    BY <1>3, <2>1, RetireVma DEF Live
  <2>7. kernel'.file = kernel.file /\ kernel'.busy = kernel.busy
    <3>1. ObjOf(b) \in Objs \cup {NoObj}
      BY <1>3, ObjOfType
    <3> QED BY <1>3, <2>1, <3>1, MadviseType, MadviseBusy
  <2>8. \A c \in Live' : KnownIdle(c)' => c \in Live /\ KnownIdle(c) /\ ObjOf(c)' = ObjOf(c)
    BY <2>5, <2>6, <2>7 DEF KnownIdle, ObjOf
  <2> QED BY <1>4, <2>7, <2>8, IdleStill
<1>6. CASE ~Keeps(b)
  <2>1. /\ vma' = FreeVma(DropMappings(vma, b), b)
        /\ kernel' = CloseHandle(kernel, bo[b].gem_handle) /\ bo' = [bo EXCEPT ![b] = Blank]
    BY <1>1, <1>6 DEF RetireBo, Discard
  <2>2. \A c \in Bos \ {b} : bo'[c] = bo[c]
    BY <1>3, <2>1, BlankType, BoPut
  <2>3. Live' = Live \ {b}
    BY <1>3, <2>1, DiscardVma
  <2> QED BY <1>3, <1>4, <2>1, <2>2, <2>3, IdleDeath
<1> QED BY <1>5, <1>6

(* What a batch of the only thread leads to is in use: no teardown is      *)
(* under way.                                                              *)
LEMMA ReachUsed ==
  ASSUME OneThread, CoreInv, NEW t \in Threads, thread[t].pc = "idle", NEW b \in Used
  PROVE  Reach(b) \subseteq Used
<1>1. \A u \in Threads : thread[u].pc # "frames"
  BY DEF OneThread
<1>2. ASSUME NEW d \in Used, NEW c \in Targets(d) PROVE c \in Used
  <2>1. /\ d \in Bos /\ bo[d].relocs \in Seq(Bos) /\ Len(bo[d].relocs) <= MaxRelocs
        /\ GemTypeOK /\ CountInv
    <3>1. d \in Bos
      BY DEF Used, Live
    <3> QED BY <3>1, BoTypes DEF CoreInv, RelocLen
  <2>2. PICK i \in 1 .. Len(bo[d].relocs) : bo[d].relocs[i] = c
    BY DEF Targets, Items
  <2>3. c \in Bos /\ c # d
    BY <2>1, <2>2 DEF Targets
  <2>4. Len(bo[d].relocs) \in Nat /\ MaxRelocs \in Nat
    BY <2>1, GemBoundsAssumption
  <2>5. i \in 1 .. MaxRelocs /\ i <= Len(bo[d].relocs)
    BY <2>1, <2>2, <2>4
  <2>6. ~Passed(d, i)
    BY <1>1 DEF Passed, At
  <2>7. << d, i >> \in RelocsTo(c)
    BY <2>1, <2>2, <2>3, <2>5, <2>6 DEF RelocsTo, Owns
  <2>8. /\ held[c] \in Nat /\ Cardinality(Borrowers(c)) \in Nat
        /\ Cardinality(RelocsTo(c)) \in Nat /\ Cardinality(RelocsTo(c)) >= 1
        /\ bo[c].refcount = held[c] + Cardinality(Borrowers(c)) + Cardinality(RelocsTo(c))
    BY <2>1, <2>3, <2>7, CountsApart, BoTypes
  <2>9. bo[c].refcount # 0
    BY <2>8
  <2> QED BY <2>3, <2>9, ParkedFacts
<1>3. Used \in SUBSET Bos
  BY DEF Used, Live
<1>4. \A d \in Used : Targets(d) \subseteq Used
  BY <1>2
<1> QED BY <1>3, <1>4 DEF Reach

(* drm_intel_gem_bo_exec: what becomes busy loses its flag, and nothing    *)
(* else stands for it.                                                     *)
LEMMA ExecIdle ==
  ASSUME OneThread, CoreInv, ShareInv, IdleInv, NEW t \in Threads, NEW b \in Bos, Exec(t, b)
  PROVE  IdleInv'
<1>1. /\ thread[t].pc = "idle" /\ thread' = thread /\ vma' = vma /\ held[b] > 0 /\ bo' = Executed(b)
      /\ \/ kernel' = [kernel EXCEPT !.busy = @ \cup ({ObjOf(c) : c \in Reach(b)} \ {NoObj})]
         \/ UNCHANGED kernel
  BY DEF Exec, Calls, At, Uses
<1>2. GemTypeOK /\ kernel \in KernelRecord /\ FileInv /\ OpenInv /\ ApartInv
  BY DEF CoreInv, ShareInv, GemTypeOK
<1>3. Reach(b) \subseteq Used /\ Used \subseteq Live /\ Live \subseteq Bos /\ Live' = Live
  <2>1. b \in Used
    BY <1>1, HeldIsUsed
  <2> QED BY <1>1, <2>1, ReachUsed DEF Used, Live, Exists
<1>4. /\ kernel'.file = kernel.file
      /\ kernel'.busy \subseteq kernel.busy \cup {ObjOf(c) : c \in Reach(b)}
  <2> DEFINE s == kernel.busy \cup ({ObjOf(c) : c \in Reach(b)} \ {NoObj})
  <2>1. CASE kernel' = [kernel EXCEPT !.busy = s]
    <3>1. s \subseteq kernel.busy \cup {ObjOf(c) : c \in Reach(b)}
      OBVIOUS
    <3> HIDE DEF s
    <3>2. kernel'.file = kernel.file /\ kernel'.busy = s
      BY <1>2, <2>1 DEF KernelRecord
    <3> QED BY <3>1, <3>2
  <2>2. CASE UNCHANGED kernel
    BY <2>2
  <2> QED BY <1>1, <2>1, <2>2
<1>5. ASSUME NEW c \in Bos
      PROVE  /\ bo'[c].gem_handle = bo[c].gem_handle /\ bo'[c].reusable = bo[c].reusable
             /\ IF c \in Reach(b) THEN ~bo'[c].idle ELSE bo'[c].idle = bo[c].idle
  <2>1. bo'[c] = IF c \in Reach(b) THEN [bo[c] EXCEPT !.idle = FALSE] ELSE bo[c]
    BY <1>1 DEF Executed
  <2> QED BY <1>2, <2>1, BoTypes DEF BoRecord
<1>6. \A c \in Bos : ObjOf(c)' = ObjOf(c)
  BY <1>4, <1>5 DEF ObjOf
<1>7. IdleIsIdle'
  <2> SUFFICES ASSUME NEW c \in Live', KnownIdle(c)' PROVE ObjOf(c)' \notin kernel'.busy
    BY DEF IdleIsIdle
  <2>1. c \in Live /\ c \notin Reach(b) /\ KnownIdle(c)
    BY <1>3, <1>5 DEF KnownIdle
  <2>2. ObjOf(c) \notin kernel.busy
    BY <2>1 DEF IdleInv, IdleIsIdle
  <2>3. ASSUME NEW d \in Reach(b), ObjOf(d) = ObjOf(c) PROVE FALSE
    BY <1>2, <1>3, <2>1, <2>3, ObjsApart
  <2> QED BY <1>3, <1>4, <1>6, <2>1, <2>2, <2>3
<1>8. BusyNote'
  BY <1>1 DEF BusyNote, OneThread
<1> QED BY <1>7, <1>8 DEF IdleInv

(* The busy ioctl: its answer is the truth of the moment.                  *)
LEMMA BusyIdle ==
  ASSUME OneThread, CoreInv, IdleInv, NEW t \in Threads, NEW b \in Bos, Busy(t, b)
  PROVE  IdleInv'
<1>1. /\ thread' = [thread EXCEPT ![t].pc = "busy", ![t].bo = b, ![t].flag = BusyIoctl(b)]
      /\ UNCHANGED << vma, bo, kernel >> /\ GemTypeOK
  BY DEF Busy, CoreInv
<1> DEFINE f == BusyIoctl(b)
           r == [thread[t] EXCEPT !.pc = "busy", !.bo = b, !.flag = f]
<1>2. thread' = [thread EXCEPT ![t] = r]
  BY <1>1 DEF GemTypeOK
<1> HIDE DEF f
<1>3. r.bo = b /\ r.flag = f
  BY <1>1, ThreadTypes DEF ThreadRecord
<1> HIDE DEF r
<1>4. thread'[t].bo = b /\ thread'[t].flag = f
  BY <1>1, <1>2, <1>3, MovePut
<1>5. ObjOf(b)' = ObjOf(b)
  BY <1>1 DEF ObjOf
<1>6. f = (ObjOf(b) \in kernel.busy)
  BY DEF f, BusyIoctl
<1>7. BusyNote'
  <2> SUFFICES ASSUME NEW u \in Threads, ~thread'[u].flag
               PROVE  ObjOf(thread[u].bo)' \notin kernel'.busy
    BY DEF BusyNote
  <2>1. u = t
    BY DEF OneThread
  <2>2. ~f /\ thread'[u].bo = b
    BY <1>4, <2>1
  <2>3. ObjOf(thread[u].bo)' = ObjOf(b)
    BY <1>1, <2>2 DEF ObjOf
  <2> QED BY <1>1, <1>5, <1>6, <2>2, <2>3
<1>8. IdleIsIdle'
  BY <1>1 DEF IdleInv, IdleIsIdle, Live, Exists, KnownIdle, ObjOf
<1> QED BY <1>7, <1>8 DEF IdleInv

(* The answer is stored.                                                   *)
LEMMA StoreIdleIdle ==
  ASSUME OneThread, CoreInv, IdleInv, NEW t \in Threads, StoreIdle(t)
  PROVE  IdleInv'
<1>1. PICK b \in Bos : b = thread[t].bo
  BY DEF StoreIdle, At, CoreInv, BorrowInv, Borrowing
<1>2. /\ thread[t].pc = "busy" /\ Return(t) /\ bo' = [bo EXCEPT ![b].idle = ~thread[t].flag]
      /\ UNCHANGED << vma, kernel >> /\ GemTypeOK
  BY <1>1 DEF StoreIdle, At, CoreInv
<1> DEFINE f == ~thread[t].flag
           r == [bo[b] EXCEPT !.idle = f]
<1>3. bo' = [bo EXCEPT ![b] = r]
  BY <1>2
<1> HIDE DEF f
<1>4. r.gem_handle = bo[b].gem_handle /\ r.reusable = bo[b].reusable /\ r.idle = f
  BY <1>2, BoTypes DEF BoRecord
<1> HIDE DEF r
<1>5. bo'[b] = r /\ \A c \in Bos \ {b} : bo'[c] = bo[c]
  BY <1>2, <1>3 DEF GemTypeOK
<1>6. \A c \in Bos : ObjOf(c)' = ObjOf(c)
  BY <1>2, <1>4, <1>5 DEF ObjOf
<1>7. f /\ bo[b].reusable => ObjOf(b) \notin kernel.busy
  BY <1>1, <1>2 DEF f, IdleInv, BusyNote
<1>8. Live' = Live /\ Live \subseteq Bos
  BY <1>2 DEF Live, Exists
<1>9. IdleIsIdle'
  <2> SUFFICES ASSUME NEW c \in Live', KnownIdle(c)' PROVE ObjOf(c)' \notin kernel'.busy
    BY DEF IdleIsIdle
  <2>1. CASE c = b
    BY <1>2, <1>4, <1>5, <1>6, <1>7, <2>1 DEF KnownIdle
  <2>2. CASE c # b
    BY <1>2, <1>5, <1>6, <1>8, <2>2 DEF KnownIdle, IdleInv, IdleIsIdle
  <2> QED BY <2>1, <2>2
<1>10. BusyNote'
  <2>1. thread'[t].pc # "busy"
    BY <1>2, ReturnPc
  <2> QED BY <2>1 DEF BusyNote, OneThread
<1> QED BY <1>9, <1>10 DEF IdleInv

(* The rest of the system renders to shared objects only, and what is      *)
(* reusable is not shared.                                                 *)
LEMMA EnvironmentIdle ==
  ASSUME CoreInv, ShareInv, IdleInv, Environment
  PROVE  IdleInv'
<1>1. UNCHANGED << vma, bo, thread >>
  BY DEF Environment, Tick, GpuRetires, ShrinkerPurges, SharersRender, SharersClose
<1>2. kernel \in KernelRecord /\ GemTypeOK
  BY DEF CoreInv, GemTypeOK
<1>3. kernel'.file = kernel.file /\ kernel'.busy \subseteq kernel.busy \cup Shared(kernel)
  <2>1. CASE Tick
    BY <2>1 DEF Tick
  <2>2. ASSUME NEW o \in Objs, GpuRetires(o)
        PROVE  kernel'.file = kernel.file /\ kernel'.busy \subseteq kernel.busy \cup Shared(kernel)
    BY <1>2, <2>2 DEF GpuRetires, KernelRecord
  <2>3. ASSUME NEW o \in Objs, SharersRender(o)
        PROVE  kernel'.file = kernel.file /\ kernel'.busy \subseteq kernel.busy \cup Shared(kernel)
    BY <1>2, <2>3 DEF SharersRender, KernelRecord
  <2>4. ASSUME NEW o \in Objs, ShrinkerPurges(o)
        PROVE  kernel'.file = kernel.file /\ kernel'.busy \subseteq kernel.busy \cup Shared(kernel)
    BY <1>2, <2>4 DEF ShrinkerPurges, KernelRecord
  <2>5. ASSUME NEW o \in Objs, SharersClose(o)
        PROVE  kernel'.file = kernel.file /\ kernel'.busy \subseteq kernel.busy \cup Shared(kernel)
    <3> DEFINE s == kernel.fds \ {o}
               r == IF HandlesOf(kernel, o) = {} THEN kernel.flinked \ {o} ELSE kernel.flinked
    <3>1. kernel' = [kernel EXCEPT !.fds = s, !.flinked = r]
      BY <1>2, <2>5 DEF SharersClose, KernelRecord
    <3> HIDE DEF s, r
    <3> QED BY <1>2, <3>1 DEF KernelRecord
  <2> QED BY <2>1, <2>2, <2>3, <2>4, <2>5 DEF Environment
<1>4. \A c : ObjOf(c)' = ObjOf(c)
  BY <1>1, <1>3 DEF ObjOf
<1>5. Live' = Live
  BY <1>1 DEF Live, Exists
<1>6. \A c \in Live : bo[c].reusable /\ ObjOf(c) \notin kernel.busy => ObjOf(c) \notin kernel'.busy
  BY <1>3 DEF ShareInv, PrivateInv
<1>7. IdleIsIdle'
  BY <1>1, <1>4, <1>5, <1>6 DEF IdleInv, IdleIsIdle, KnownIdle
<1>8. BusyNote'
  <2> SUFFICES ASSUME NEW u \in Threads, thread[u].pc = "busy", ~thread[u].flag,
                      bo[thread[u].bo].reusable
               PROVE  ObjOf(thread[u].bo) \notin kernel'.busy
    BY <1>1, <1>4 DEF BusyNote
  <2>1. thread[u].bo \in Bos
    BY DEF CoreInv, BorrowInv, Borrowing
  <2>2. thread[u].bo \in Live
    BY <2>1, BorrowedIsUsed DEF Used
  <2>3. ObjOf(thread[u].bo) \notin kernel.busy
    BY DEF IdleInv, BusyNote
  <2> QED BY <1>6, <2>2, <2>3
<1> QED BY <1>7, <1>8 DEF IdleInv

(* Every step keeps the idle flags right.                                  *)
LEMMA IdleNext ==
  ASSUME Disciplined, OneThread, CoreInv, ShareInv, IdleInv, [GemNext]_gemVars
  PROVE  IdleInv'
<1>1. CASE UNCHANGED gemVars
  BY <1>1 DEF gemVars, IdleInv, IdleIsIdle, BusyNote, Live, Exists, KnownIdle, ObjOf
<1>2. CASE Environment
  BY <1>2, EnvironmentIdle
<1>3. ASSUME NEW t \in Threads, Call(t) \/ Proceed(t) \/ Enter(t) PROVE IdleInv'
  <2>1. CASE PlainCall(t) \/ PlainProceed(t)
    BY <2>1, PlainSteps, PlainIdle
  <2>2. ASSUME NEW b \in Bos, Exec(t, b) \/ Busy(t, b) PROVE IdleInv'
    BY <2>2, ExecIdle, BusyIdle
  <2>3. ASSUME NEW o \in Objs, CreateFromName(t, o) \/ FDToHandle(t, o) PROVE IdleInv'
    <3>1. ~FDToHandle(t, o)
      BY DEF FDToHandle, Calls, Disciplined
    <3> QED BY <2>3, <3>1, CreateFromNameIdle
  <2>4. CASE \/ AllocHit(t) \/ PurgeBucket(t) \/ CreateBo(t) \/ RetireBo(t)
             \/ CleanupFree(t) \/ CleanupDone(t)
    BY <2>4, AllocHitIdle, PurgeBucketIdle, CreateBoIdle, RetireBoIdle, CleanupFreeIdle,
       CleanupDoneIdle
  <2>5. CASE StoreIdle(t)
    BY <2>5, StoreIdleIdle
  <2>6. ~GetTiling(t) /\ ~CreateFromPrime(t)
    BY DEF GetTiling, CreateFromPrime, At, ShareInv, PrimeFree
  <2> QED BY <1>3, <2>1, <2>2, <2>3, <2>4, <2>5, <2>6, OtherSteps
<1> QED BY <1>1, <1>2, <1>3 DEF GemNext

(* With one thread the flag of bo_busy is right: "definitely not accessing *)
(* the buffer", whatever is executed, exported or reused in between.  With *)
(* two, an exec may fall between the ioctl and the store of its answer.    *)
THEOREM GemIdleIsIdle ==
  ASSUME Disciplined, OneThread
  PROVE  GemSpec => []IdleIsIdle
<1>1. GemInit => CoreInv /\ ShareInv /\ IdleInv
  <2> SUFFICES ASSUME GemInit PROVE IdleInv
    BY GemInitInv, ShareInitInv
  <2>1. \A t \in Threads : thread[t].pc = "idle"
    BY DEF GemInit, Idle
  <2>2. Live = {}
    BY DEF GemInit, VmaInit, Live, Exists
  <2> QED BY <2>1, <2>2 DEF IdleInv, IdleIsIdle, BusyNote
<1>2. (CoreInv /\ ShareInv /\ IdleInv) /\ [GemNext]_gemVars => (CoreInv /\ ShareInv /\ IdleInv)'
  BY GemNextInv, ShareNextInv, IdleNext DEF Disciplined
<1>3. IdleInv => IdleIsIdle
  BY DEF IdleInv
<1> QED BY <1>1, <1>2, <1>3, PTL DEF GemSpec
=============================================================================
