------------------------------- MODULE FdKgsl -------------------------------
(* freedreno/kgsl: buffers on the submit and pending lists of the 2d and   *)
(* 3d pipes, released when the timestamp of their last submission has      *)
(* retired, and the timestamp stashed with a named buffer by which         *)
(* submissions wait for each other across processes.                       *)
EXTENDS Integers, Sequences, FiniteSets, SequencesExt

CONSTANTS
  KgslBos,       \* buffers
  KgslShared,    \* those of them the program may share by name
  KgslStamps     \* bound: submissions, to both pipes

ASSUME FdKgslAssumption == KgslStamps \in Nat /\ KgslShared \subseteq KgslBos

VARIABLE kg

KgslPipes == {"2d", "3d"}

(* last and retired: timestamps issued and passed by a pipe; stamp: the    *)
(* timestamp[] of a buffer; used: the last submission that uses it;        *)
(* active: what SET_ACTIVE stored, with the pipe it came from.             *)
KgslInit ==
  kg = [last |-> [p \in KgslPipes |-> 0], retired |-> [p \in KgslPipes |-> 0],
        submit |-> [p \in KgslPipes |-> << >>], pending |-> [p \in KgslPipes |-> << >>],
        stamp |-> [p \in KgslPipes |-> [b \in KgslBos |-> 0]],
        used |-> [p \in KgslPipes |-> [b \in KgslBos |-> 0]],
        refs |-> [b \in KgslBos |-> 1], name |-> [b \in KgslBos |-> FALSE],
        active |-> [b \in KgslBos |-> [ts |-> 0, pipe |-> "3d"]], odd |-> "no"]

KgslRunning == kg.odd = "no"

On(s, b) == \E i \in DOMAIN s : s[i] = b

Without(s, b) == SelectSeq(s, LAMBDA x : x # b)

(* kgsl_pipe_add_submit: a buffer on either list of the pipe has its       *)
(* reference already.                                                      *)
kgsl_pipe_add_submit(s, p, b) ==
  LET listed == On(s.submit[p], b) \/ On(s.pending[p], b)
  IN  [s EXCEPT !.refs[b] = IF listed THEN @ ELSE @ + 1,
                !.pending[p] = Without(@, b),
                !.submit[p] = Append(Without(@, b), b)]

kgsl_ringbuffer_emit_reloc(p, b) ==
  /\ KgslRunning
  /\ kg.refs[b] > 0
  /\ kg' = kgsl_pipe_add_submit(kg, p, b)

\* mutation of Passed: one submission too early
PassedEarly(s, p, b, ts) == s.stamp[p][b] - 1 <= ts

Passed(s, p, b, ts) == s.stamp[p][b] <= ts

(* kgsl_pipe_process_pending: from the front of the list, until one has    *)
(* not passed.                                                             *)
RECURSIVE kgsl_pipe_process_pending(_, _, _)
kgsl_pipe_process_pending(s, p, ts) ==
  IF s.pending[p] = << >> THEN s
  ELSE LET b == Head(s.pending[p])
       IN  IF ~Passed(s, p, b, ts) THEN s
           ELSE kgsl_pipe_process_pending(
                  [s EXCEPT !.pending[p] = Tail(@), !.stamp[p][b] = 0, !.refs[b] = @ - 1], p, ts)

(* kgsl_pipe_post_submit.                                                  *)
kgsl_pipe_post_submit(s, p, ts) ==
  LET done == {b \in KgslBos : On(s.submit[p], b)}
      t == [s EXCEPT !.stamp[p] = [b \in KgslBos |-> IF b \in done THEN ts ELSE @[b]],
                     !.pending[p] = @ \o s.submit[p], !.submit[p] = << >>,
                     !.active = [b \in KgslBos |->
                        IF b \in done /\ s.name[b] THEN [ts |-> ts, pipe |-> p] ELSE @[b]]]
  IN  kgsl_pipe_process_pending(t, p, s.retired[p])

(* kgsl_pipe_wait on the 3d pipe, before the flush, for every buffer that  *)
(* has a timestamp.  It gives up after five seconds.                       *)
PreSubmitReturns(s, p, late) ==
  \A b \in KgslBos : On(s.submit[p], b) /\ s.name[b] =>
    late \/ s.active[b].ts <= s.retired["3d"]

(* kgsl_ringbuffer_flush.  late: one of the waits timed out; ok: the       *)
(* kernel took the submission.  After a failed one the buffers are pending *)
(* with the timestamp zero, and released though an earlier submission may  *)
(* still use them; on the 2d pipe with the address of the ring, which      *)
(* never retires.                                                          *)
kgsl_ringbuffer_flush(p, late, ok) ==
  LET ts == IF ok THEN kg.last[p] + 1 ELSE IF p = "3d" THEN 0 ELSE KgslStamps + 1
      lost == ~ok /\ \E b \in KgslBos : On(kg.submit[p], b) /\ (p = "2d" \/ kg.used[p][b] > kg.retired[p])
      s == [kg EXCEPT !.last[p] = IF ok THEN ts ELSE @,
                      !.odd = IF lost THEN "failed in use" ELSE @,
                      !.used[p] = [b \in KgslBos |-> IF ok /\ On(kg.submit[p], b) THEN ts ELSE @[b]]]
  IN  /\ KgslRunning
      /\ kg.last["2d"] + kg.last["3d"] < KgslStamps
      /\ PreSubmitReturns(kg, p, late)
      /\ late => \E b \in KgslBos : On(kg.submit[p], b) /\ kg.name[b] /\ kg.active[b].ts > kg.retired["3d"]
      /\ kg' = kgsl_pipe_post_submit(s, p, ts)

(* fd_pipe_wait of the program, for a timestamp that has retired.          *)
kgsl_pipe_wait(p, ts) ==
  /\ KgslRunning
  /\ ts \in 1..kg.retired[p]
  /\ kg' = kgsl_pipe_process_pending(kg, p, ts)

(* The device (external).                                                  *)
GpuRetires(p) ==
  /\ KgslRunning
  /\ kg.retired[p] < kg.last[p]
  /\ kg' = [kg EXCEPT !.retired[p] = @ + 1]

KgslName(b) ==
  /\ KgslRunning
  /\ b \in KgslShared
  /\ kg.refs[b] > 0
  /\ ~kg.name[b]
  /\ kg' = [kg EXCEPT !.name[b] = TRUE]

(* The reference of the program, which is not one of the lists'.           *)
Lists(b) == Cardinality({p \in KgslPipes : On(kg.submit[p], b) \/ On(kg.pending[p], b)})

KgslDrop(b) ==
  /\ KgslRunning
  /\ kg.refs[b] > Lists(b)
  /\ kg' = [kg EXCEPT !.refs[b] = @ - 1]

KgslNext ==
  \/ \E p \in KgslPipes, b \in KgslBos : kgsl_ringbuffer_emit_reloc(p, b)
  \/ \E p \in KgslPipes, late, ok \in BOOLEAN : kgsl_ringbuffer_flush(p, late, ok)
  \/ \E p \in KgslPipes : \E ts \in 1..KgslStamps : kgsl_pipe_wait(p, ts)
  \/ \E p \in KgslPipes : GpuRetires(p)
  \/ \E b \in KgslBos : KgslName(b) \/ KgslDrop(b)

(* A buffer that the device may still use is on a list of that pipe and    *)
(* therefore kept, through failed submissions, reuse while pending and     *)
(* waits for older timestamps; it holds one reference per pipe; and the    *)
(* pending list is in the order of the submissions, so that none is kept   *)
(* for a newer one before it; until a submission fails while one of its    *)
(* buffers is in use.                                                      *)
KgslRetains ==
  KgslRunning =>
  /\ \A b \in KgslBos : kg.refs[b] \in Lists(b)..(Lists(b) + 1)
  /\ \A p \in KgslPipes, b \in KgslBos :
       kg.used[p][b] > kg.retired[p] => On(kg.submit[p], b) \/ On(kg.pending[p], b)
  /\ \A p \in KgslPipes : \A i, j \in DOMAIN kg.pending[p] :
       LET x == kg.stamp[p][kg.pending[p][i]]
           y == kg.stamp[p][kg.pending[p][j]]
       IN  i < j /\ y # 0 => x <= y

=============================================================================
