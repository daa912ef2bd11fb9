------------------------------- MODULE FdMsm --------------------------------
(* freedreno/freedreno_ringbuffer.c and msm/msm_ringbuffer.c: rings of one *)
(* pipe.  A ring may be the target of another one, its parent, in whose    *)
(* tables the buffers of both are entered.  A buffer object keeps its      *)
(* place in the table per pipe, not per ring.                              *)
EXTENDS Integers, Sequences, FiniteSets, SequencesExt

CONSTANTS
  MsmRings,      \* rings
  MsmParent(_),  \* fd_ringbuffer_set_parent: the ring itself if it has none
  MsmRingBo(_),  \* the buffer that holds a ring's words
  MsmBos,        \* the program's buffers
  MsmMaxWords    \* bound: words of a ring

ASSUME FdMsmAssumption == MsmMaxWords \in Nat /\ \A r \in MsmRings : MsmParent(r) \in MsmRings

VARIABLE msm

AllMsmBos == MsmBos \cup {MsmRingBo(r) : r \in MsmRings}

(* bos, cmds, relocs: the tables of struct msm_ringbuffer; a relocation    *)
(* also records the buffer it was made for.  submit: submit_list.          *)
NewRing == [cur |-> 0, bos |-> << >>, cmds |-> << >>, relocs |-> << >>, submit |-> {}]

(* indexp1 of the pipe; refs counts the reference of the program too.      *)
MsmInit ==
  msm = [ring |-> [r \in MsmRings |-> NewRing], indexp1 |-> [b \in AllMsmBos |-> 0],
         refs |-> [b \in AllMsmBos |-> 1], odd |-> "no"]

MsmRunning == msm.odd = "no"

MsmStray(s, why) == [s EXCEPT !.odd = IF @ = "no" THEN why ELSE @]

(* The index that bo2idx returns.                                          *)
Index(s, b) == s.indexp1[b]

(* bo2idx: a buffer without a place gets one and is kept.  One that has    *)
(* its place in another ring's table is taken to be in this one's.         *)
bo2idx(s, r, b) ==
  IF s.indexp1[b] # 0
  THEN IF b \in s.ring[r].submit THEN s ELSE MsmStray(s, "two rings")
  ELSE [s EXCEPT !.ring[r].bos = Append(@, b), !.ring[r].submit = @ \cup {b},
                 !.indexp1[b] = Len(s.ring[r].bos) + 1, !.refs[b] = @ + 1]

(* get_cmd: the range of the target ring's words is entered once.          *)
get_cmd(s, r, t, from, to) ==
  LET b == MsmRingBo(t)
      u == bo2idx(s, r, b)
      same(c) == c.ring = t /\ c.from = from /\ c.to = to
  IN  IF \E i \in DOMAIN s.ring[r].cmds : same(s.ring[r].cmds[i]) THEN s
      ELSE [u EXCEPT !.ring[r].cmds = Append(@, [ring |-> t, idx |-> Index(u, b), from |-> from, to |-> to])]

EmitReloc(s, r, b) ==
  LET u == bo2idx(s, MsmParent(r), b)
  IN  [u EXCEPT !.ring[r].relocs = Append(@, [idx |-> Index(u, b), bo |-> b, at |-> s.ring[r].cur]),
                !.ring[r].cur = @ + 1]

msm_ringbuffer_emit_reloc(r, b) ==
  /\ MsmRunning
  /\ msm.refs[b] > 0
  /\ msm.ring[r].cur < MsmMaxWords
  /\ msm' = EmitReloc(msm, r, b)

(* The whole of t is called from r.                                        *)
msm_ringbuffer_emit_reloc_ring(r, t) ==
  /\ MsmRunning
  /\ t # r /\ MsmParent(t) = r
  /\ msm.ring[r].cur < MsmMaxWords
  /\ msm.ring[t].cur > 0
  /\ msm' = EmitReloc(get_cmd(msm, r, t, 0, msm.ring[t].cur), r, MsmRingBo(t))

(* flush_reset: the tables of the ring and the relocations of the rings it *)
(* called.                                                                 *)
flush_reset(s, r) ==
  LET called == {s.ring[r].cmds[i].ring : i \in DOMAIN s.ring[r].cmds}
  IN  [s EXCEPT !.ring = [t \in MsmRings |->
         LET u == IF t \in called THEN [@[t] EXCEPT !.relocs = << >>] ELSE @[t]
         IN  IF t = r THEN [u EXCEPT !.relocs = << >>, !.cmds = << >>, !.bos = << >>] ELSE u]]

(* msm_ringbuffer_flush, whether or not the kernel takes it: the buffers   *)
(* lose their place and their reference.  A ring that has relocations in   *)
(* the tables but was not called keeps them.                               *)
msm_ringbuffer_flush(r) ==
  LET s == get_cmd(msm, r, r, 0, msm.ring[r].cur)
      listed == s.ring[r].submit
      called == {s.ring[r].cmds[i].ring : i \in DOMAIN s.ring[r].cmds}
      t == [s EXCEPT !.indexp1 = [b \in AllMsmBos |-> IF b \in listed THEN 0 ELSE @[b]],
                     !.refs = [b \in AllMsmBos |-> IF b \in listed THEN @[b] - 1 ELSE @[b]],
                     !.ring[r].submit = {}]
  IN  /\ MsmRunning
      /\ MsmParent(r) = r
      /\ msm' = IF \E q \in MsmRings \ called : MsmParent(q) = r /\ msm.ring[q].relocs # << >>
                THEN MsmStray(flush_reset(t, r), "ring not called") ELSE flush_reset(t, r)

(* fd_ringbuffer_reset starts the words anew and clears the tables, but    *)
(* not submit_list and the places of the buffers.                          *)
fd_ringbuffer_reset(r) ==
  /\ MsmRunning
  /\ msm.ring[r].cur > 0
  /\ LET s == [flush_reset(msm, r) EXCEPT !.ring[r].cur = 0]
     IN  msm' = IF msm.ring[r].submit # {} THEN MsmStray(s, "reset with buffers") ELSE s

(* The program drops its reference to a buffer.                            *)
MsmDrop(b) ==
  /\ MsmRunning
  /\ msm.refs[b] > Cardinality({r \in MsmRings : b \in msm.ring[r].submit})
  /\ msm' = [msm EXCEPT !.refs[b] = @ - 1]

MsmNext ==
  \/ \E r \in MsmRings, b \in MsmBos : msm_ringbuffer_emit_reloc(r, b)
  \/ \E r, t \in MsmRings : msm_ringbuffer_emit_reloc_ring(r, t)
  \/ \E r \in MsmRings : msm_ringbuffer_flush(r) \/ fd_ringbuffer_reset(r)
  \/ \E b \in MsmBos : MsmDrop(b)

(* The kernel is told the right buffer for every relocation and every      *)
(* command of a ring and of the rings it calls: their indices name, in the *)
(* parent's table, the buffer they were made for, and all buffers of the   *)
(* table are kept; until the rings of a pipe are used in one of the ways   *)
(* that the tables do not support.                                         *)
MsmIndicesAreRight ==
  MsmRunning => \A r \in MsmRings :
    LET table == msm.ring[MsmParent(r)].bos
    IN  /\ \A i \in DOMAIN msm.ring[r].relocs :
             LET x == msm.ring[r].relocs[i] IN x.idx \in DOMAIN table /\ table[x.idx] = x.bo
        /\ \A i \in DOMAIN msm.ring[r].cmds :
             LET c == msm.ring[r].cmds[i]
             IN  c.idx \in DOMAIN msm.ring[r].bos /\ msm.ring[r].bos[c.idx] = MsmRingBo(c.ring)
        /\ \A i \in DOMAIN msm.ring[r].bos :
             LET b == msm.ring[r].bos[i]
             IN  msm.indexp1[b] = i /\ b \in msm.ring[r].submit /\ msm.refs[b] > 0
=============================================================================
