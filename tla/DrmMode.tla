------------------------------ MODULE DrmMode -------------------------------
(***************************************************************************)
(* Queries and events of the mode setting library (xf86drmMode.c) and the  *)
(* queries of xf86drm.c that work the same way.  A query asks the kernel   *)
(* for the lengths of its lists, allocates arrays and asks again for the   *)
(* lists; in between a hotplug event may change them.  drmHandleEvent      *)
(* reads a buffer of events and calls a handler for each, which may call   *)
(* drmHandleEvent again.                                                   *)
(***************************************************************************)
EXTENDS Integers, Sequences, FiniteSets

CONSTANTS
  QMaxLen,     \* bound: the length of a list
  QMaxChanges, \* bound: changes of the lists
  EvRoom,      \* what fits in drmHandleEvent's buffer
  EvMax,       \* bound: events
  EvDepth      \* bound: calls of drmHandleEvent in one another

ASSUME ModeAssumption == QMaxLen \in Nat

VARIABLES qry, evt
  (* qry.q: the query; len: the kernel's lists; changes: how often they    *)
  (* changed; pc: where the query is; counts: the lengths first reported;  *)
  (* arrays: allocated and not freed; ans: the last answer.                *)

(* A query: the lists it asks for; those it compares with their lengths    *)
(* before, to start again when one has grown; whether it answers without a *)
(* second ioctl when the first reports nothing; and after which failures   *)
(* it forgets to free its arrays.                                          *)
Query(lists, tested, shortcut, forgets) ==
  [lists |-> lists, tested |-> tested, shortcut |-> shortcut, forgets |-> forgets]

Retrying(lists) == Query(lists, lists, FALSE, {})

drmModeGetResources == Retrying({"fbs", "crtcs", "connectors", "encoders"})
drmModeGetConnector == Retrying({"props", "modes", "encoders"})
drmModeGetPlane == Retrying({"formats"})
drmModeGetPlaneResources == Retrying({"planes"})
drmModeObjectGetProperties == Retrying({"props"})
drmModeGetProperty == Query({"values", "enums"}, {}, FALSE, {"memory"})
drmModeGetPropertyBlob == Query({"data"}, {}, FALSE, {})
drmGetBufInfo == Query({"list"}, {}, TRUE, {})
drmMapBufs == Query({"bufs"}, {}, TRUE, {})
drmGetReservedContextList == Query({"contexts"}, {}, TRUE, {"ioctl"})
drmGetBusid == Query({"unique"}, {}, FALSE, {"ioctl"})

Queries ==
  {drmModeGetResources, drmModeGetConnector, drmModeGetPlane, drmModeGetPlaneResources,
   drmModeObjectGetProperties, drmModeGetProperty, drmModeGetPropertyBlob, drmGetBufInfo,
   drmMapBufs, drmGetReservedContextList, drmGetBusid}

NoAnswer == [grew |-> FALSE, list |-> << >>]

QInit ==
  qry \in {[q |-> q, len |-> [l \in q.lists |-> 1], changes |-> 0, pc |-> "idle",
            counts |-> [l \in q.lists |-> 0], arrays |-> {}, lost |-> {}, ans |-> NoAnswer] : q \in Queries}

(* A hotplug event or another process changes a list (external).           *)
Hotplug ==
  /\ qry.changes < QMaxChanges
  /\ \E l \in qry.q.lists, n \in 0..QMaxLen :
       /\ n # qry.len[l]
       /\ qry' = [qry EXCEPT !.len[l] = n, !.changes = @ + 1]

Unasked == [l \in qry.q.lists |-> 0]

(* The first ioctl, and the arrays for what it reports.                    *)
QBegin ==
  /\ qry.pc \in {"idle", "again"}
  /\ qry' = IF qry.q.shortcut /\ \A l \in qry.q.lists : qry.len[l] = 0
            THEN [qry EXCEPT !.ans = NoAnswer]
            ELSE [qry EXCEPT !.pc = "counted", !.counts = qry.len,
                             !.arrays = {l \in qry.q.lists : qry.len[l] > 0}]

Longer(l) == qry.counts[l] < qry.len[l]

(* mutation of Grown: every list must have grown                           *)
GrownAll == qry.q.tested # {} /\ \A l \in qry.q.tested : Longer(l)

Grown == \E l \in qry.q.tested : Longer(l)

(* The second ioctl fills a list that has room for it, leaves a list that  *)
(* has not alone, and reports the new lengths (external).  The answer is   *)
(* copied by the new lengths: an entry is from the list, one never         *)
(* written, or one beyond the array.                                       *)
Entry(l, i) ==
  IF i > qry.counts[l] THEN "beyond" ELSE IF Longer(l) THEN "blank" ELSE "listed"

Answer ==
  [grew |-> \E l \in qry.q.lists : Longer(l),
   list |-> [l \in qry.q.lists |-> [i \in 1..qry.len[l] |-> Entry(l, i)]]]

(* Start again, or answer.                                                 *)
QEnd ==
  /\ qry.pc = "counted"
  /\ qry' = IF Grown THEN [qry EXCEPT !.pc = "again", !.counts = Unasked, !.arrays = {}]
            ELSE [qry EXCEPT !.pc = "idle", !.counts = Unasked, !.arrays = {}, !.ans = Answer]

(* The second ioctl fails, or the memory for the answer.                   *)
QFail(why) ==
  /\ qry.pc = "counted"
  /\ qry' = [qry EXCEPT !.pc = "idle", !.counts = Unasked, !.arrays = {}, !.ans = NoAnswer,
                        !.lost = IF why \in qry.q.forgets THEN @ \cup qry.arrays ELSE @]

QNext == Hotplug \/ QBegin \/ QEnd \/ \E why \in {"ioctl", "memory"} : QFail(why)

QSpec == QInit /\ [][QNext]_qry

(* What a query answers is one state of the kernel's lists: every list is  *)
(* complete, none has an entry that was never written or lies beyond the   *)
(* array, however the lists change between the ioctls and whichever of     *)
(* them grows; and only the three queries that forget their arrays after a *)
(* failure lose any.  The queries that compare nothing are safe only while *)
(* no list grows.                                                          *)
AnswersAreSnapshots ==
  /\ (qry.q.tested # {} \/ ~qry.ans.grew) =>
       \A l \in DOMAIN qry.ans.list :
         \A i \in DOMAIN qry.ans.list[l] : qry.ans.list[l][i] = "listed"
  /\ qry.pc # "counted" => qry.arrays = {}
  /\ qry.lost # {} => qry.q.forgets # {}

-----------------------------------------------------------------------------
(* evt.queue: events the kernel holds; born: how many there were; due:     *)
(* those that there is a handler for; calls: the drmHandleEvent calls in   *)
(* progress, innermost last, each a buffer and the offset i; out: events   *)
(* handed to handlers; inner: a nested call read events while the outer    *)
(* one still had some; garbled: a header was expected and there was none.  *)

(* An event takes 2 words, or 3 if it is of a type the library does not    *)
(* know.  A handler may be missing, or newer than the context's version.   *)
EvTypes == {"vblank", "flip", "new"}
EvLength(type) == IF type = "new" THEN 3 ELSE 2

EvInit ==
  evt \in {[queue |-> << >>, born |-> 0, due |-> {}, calls |-> << >>, out |-> << >>, inner |-> FALSE,
            garbled |-> FALSE, handlers |-> h] : h \in {{"vblank"}, {"vblank", "flip"}}}

EvArrives(type) ==
  /\ evt.born < EvMax
  /\ LET id == evt.born + 1
     IN  evt' = [evt EXCEPT !.born = id, !.queue = Append(@, [id |-> id, type |-> type]),
                            !.due = IF type \in evt.handlers THEN @ \cup {id} ELSE @]

(* The words of the first n events: a header, then what the length says.   *)
Words(q, n) ==
  LET upto[k \in 0..n] ==
        IF k = 0 THEN << >>
        ELSE upto[k - 1] \o << q[k] >> \o [j \in 1..(EvLength(q[k].type) - 1) |-> [id |-> 0, type |-> "body"]]
  IN  upto[n]

(* read gives the complete events that fit (external).                     *)
ReadCount(q) ==
  CHOOSE n \in 0..Len(q) :
    /\ Len(Words(q, n)) <= EvRoom
    /\ n = Len(q) \/ Len(Words(q, n + 1)) > EvRoom

Top == evt.calls[Len(evt.calls)]

(* The program calls drmHandleEvent when no call is in progress, or from a *)
(* handler.                                                                *)
drmHandleEvent ==
  /\ Len(evt.calls) < EvDepth
  /\ evt.calls # << >> => Top.i > 0
  /\ LET n == ReadCount(evt.queue)
     IN  /\ n > 0
         /\ evt' = [evt EXCEPT !.queue = SubSeq(@, n + 1, Len(@)),
                      !.calls = Append(@, [buf |-> Words(evt.queue, n), i |-> 0]),
                      !.inner = @ \/ \E k \in DOMAIN evt.calls : evt.calls[k].i < Len(evt.calls[k].buf)]

StepByVblank(e) == 2   \* mutation of Step: every event is taken for a vblank

(* i += e->length                                                          *)
Step(e) == EvLength(e.type)

(* One turn of the loop, with the handler it calls, or its end.            *)
EvDispatch ==
  /\ evt.calls # << >>
  /\ LET t == Top
         e == t.buf[t.i + 1]
         last == Len(evt.calls)
     IN  IF t.i >= Len(t.buf) THEN evt' = [evt EXCEPT !.calls = SubSeq(@, 1, last - 1)]
         ELSE evt' = [evt EXCEPT !.garbled = @ \/ e.type = "body",
                        !.out = IF e.type \in evt.handlers THEN Append(@, e.id) ELSE @,
                        !.calls[last].i = IF e.type = "body" THEN Len(t.buf) ELSE @ + Step(e)]

EvNext == (\E type \in EvTypes : EvArrives(type)) \/ drmHandleEvent \/ EvDispatch

(* The events that are still to come: in the kernel's queue, or in the     *)
(* buffer of a call and not yet walked over.                               *)
Waiting ==
  {evt.queue[k].id : k \in DOMAIN evt.queue} \cup
  UNION {{c.buf[j].id : j \in (c.i + 1)..Len(c.buf)} : c \in {evt.calls[k] : k \in DOMAIN evt.calls}}

(* Handlers get every event that there is a handler for, once and in the   *)
(* kernel's order: each was handed out or is still to come, and never      *)
(* both; and the loop lands on a header at every turn also after events it *)
(* does not know.  Only a handler that itself calls drmHandleEvent can     *)
(* overtake the events of the buffer it is called from.                    *)
EventsInOrder ==
  /\ ~evt.garbled
  /\ {evt.out[a] : a \in DOMAIN evt.out} = evt.due \ Waiting
  /\ \A a, b \in DOMAIN evt.out : a < b =>
       /\ evt.out[a] # evt.out[b]
       /\ ~evt.inner => evt.out[a] < evt.out[b]
=============================================================================
