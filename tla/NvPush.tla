------------------------------- MODULE NvPush -------------------------------
(* nouveau/pushbuf.c, bufctx.c and the waiting part of nouveau.c: push     *)
(* buffers of one client that are submitted at once (push->channel is      *)
(* set), the buffers they refer to, and one buffer context.  Every call is *)
(* one step; the device finishes work at any time.                         *)
EXTENDS Integers, Sequences, FiniteSets, SequencesExt

CONSTANTS
  NvpPushes,                  \* push buffers
  NvpOwn(_),                  \* the buffer that holds a push buffer's words
  NvpBufs,                    \* the program's buffers
  NvpSize(_),                 \* the size of a buffer
  NvpLimit,                   \* dev->vram_limit and gart_limit at first, a
                              \* record [vram, gart]
  NvpPrograms,                \* what a program uses: [pushes, bufs, flags, refs,
                              \* answers], flags being records [dom, acc], refs a
                              \* bound on the references in the context, answers
                              \* what the kernel may say to a submission: [taken,
                              \* left], left being the limits it leaves
  NOUVEAU_GEM_MAX_BUFFERS, NOUVEAU_GEM_MAX_RELOCS, NOUVEAU_GEM_MAX_PUSH

ASSUME NvPushAssumption ==
  /\ NOUVEAU_GEM_MAX_RELOCS \in Nat /\ NOUVEAU_GEM_MAX_BUFFERS \in Nat
  /\ \A b \in NvpBufs : NvpSize(b) \in Nat
  /\ \A use \in NvpPrograms : \A f \in use.flags : f.dom \subseteq {"VRAM", "GART"} /\ f.acc \subseteq {"RD", "WR"}

VARIABLE nvp

AllBufs == NvpBufs \cup {NvpOwn(p) : p \in NvpPushes}

(* dirty: words were written since bgn; push: the buffers that the queued  *)
(* ranges are in.  most is a history: the largest limits there were since  *)
(* the lists were emptied last.                                            *)
NewPush == [ready |-> FALSE, dirty |-> FALSE, buffer |-> << >>, nr_reloc |-> 0,
            push |-> << >>, vram_used |-> 0, gart_used |-> 0, bufctx |-> FALSE,
            most |-> NvpLimit]

(* access: the buffers that the library believes the device may still      *)
(* write (the read bit is set but never looked at); gpu: those that it may *)
(* still write.  ctx.on: the push buffers whose bctx_list the context is   *)
(* on.                                                                     *)
NvpInit ==
  \E use \in NvpPrograms :
  nvp = [use |-> use, p |-> [p \in NvpPushes |-> NewPush],
         ctx |-> [pending |-> << >>, current |-> << >>, on |-> {}],
         access |-> {}, gpu |-> {}, limit |-> NvpLimit,
         early |-> FALSE, odd |-> "no"]

NvpRunning == nvp.odd = "no"

NvpStray(s, why) == [s EXCEPT !.odd = IF @ = "no" THEN why ELSE @]

(* cli_kref_get and cli_push_get: the client's table gives for a buffer    *)
(* the push buffer that refers to it and its place there.                  *)
Places(s, p, b) == {i \in DOMAIN s.p[p].buffer : s.p[p].buffer[i].bo = b}

cli_push_get(s, b) == {p \in NvpPushes : Places(s, p, b) # {}}

(* nouveau_pushbuf_data(push, NULL, 0, 0): queue the words written so far. *)
QueueWords(s, p) ==
  LET own == NvpOwn(p)
      t == [s EXCEPT !.p[p].push = Append(@, own), !.p[p].dirty = FALSE]
  IN  IF ~s.p[p].dirty THEN s
      ELSE IF Places(s, p, own) = {} THEN NvpStray(t, "words of an unlisted buffer")
      ELSE t

Written(s, p) == {s.p[p].buffer[i].bo : i \in {j \in DOMAIN s.p[p].buffer : "WR" \in s.p[p].buffer[j].acc}}

Widest(x, y) ==
  [vram |-> IF x.vram > y.vram THEN x.vram ELSE y.vram,
   gart |-> IF x.gart > y.gart THEN x.gart ELSE y.gart]

(* pushbuf_submit of what is queued: whatever the kernel answers, also when*)
(* it refuses, becomes the limits, and zero when it did not get to fill it *)
(* in.  When it takes the words the device works on the buffers.           *)
Submitted(s, p, answer) ==
  LET t == [s EXCEPT !.limit = answer.left,
                     !.p = [q \in NvpPushes |-> [@[q] EXCEPT !.most = Widest(@, answer.left)]]]
  IN  IF s.p[p].push = << >> THEN s
      ELSE IF ~answer.taken THEN t
      ELSE [t EXCEPT !.gpu = @ \cup Written(s, p), !.access = @ \cup Written(s, p)]

(* The answer to the second and later submissions of one call.             *)
Taken == [taken |-> TRUE, left |-> NvpLimit]

(* A context on the flushed push buffer's bctx_list has all its references *)
(* pending again.                                                          *)
Requeued(ctx, p) ==
  IF p \in ctx.on
  THEN [pending |-> ctx.current \o ctx.pending, current |-> << >>, on |-> ctx.on \ {p}]
  ELSE ctx

(* pushbuf_submit and pushbuf_flush: the lists are emptied whether or not  *)
(* the kernel took them, and the context's references are pending again.   *)
pushbuf_flush(s, p, answer) ==
  LET t == Submitted(QueueWords(s, p), p, answer)
  IN  [t EXCEPT !.p[p].buffer = << >>, !.p[p].nr_reloc = 0, !.p[p].push = << >>,
                !.p[p].vram_used = 0, !.p[p].gart_used = 0, !.p[p].most = t.limit,
                !.ctx = Requeued(@, p)]

Charged(s, p, v, g) == [s EXCEPT !.p[p].vram_used = @ + v, !.p[p].gart_used = @ + g]

(* The last resort of pushbuf_kref_fits: buffers that may be in either     *)
(* memory are moved to VRAM, in the order of the list, until n fits.       *)
RECURSIVE MoveToVram(_, _, _, _)
MoveToVram(s, p, i, n) ==
  IF i > Len(s.p[p].buffer) THEN [ok |-> FALSE, s |-> s]
  ELSE LET e == s.p[p].buffer[i]
           z == NvpSize(e.bo)
           t == Charged([s EXCEPT !.p[p].buffer[i].valid = {"VRAM"}], p, z, -z)
       IN  IF e.valid # {"VRAM", "GART"} \/ s.p[p].vram_used + z > s.limit.vram
           THEN MoveToVram(s, p, i + 1, n)
           ELSE IF t.p[p].gart_used + n <= s.limit.gart
           THEN [ok |-> TRUE, s |-> Charged(t, p, 0, n)]
           ELSE MoveToVram(t, p, i + 1, n)

(* pushbuf_kref_fits: also the domains that are left.                      *)
pushbuf_kref_fits(s, p, b, dom) ==
  LET n == NvpSize(b)
      inVram == s.p[p].vram_used + n <= s.limit.vram
      inGart == s.p[p].gart_used + n <= s.limit.gart
      moved == MoveToVram(s, p, 1, n)
  IN  IF dom = {"VRAM"} THEN [ok |-> inVram, dom |-> dom, s |-> IF inVram THEN Charged(s, p, n, 0) ELSE s]
      ELSE IF inGart THEN [ok |-> TRUE, dom |-> dom, s |-> Charged(s, p, 0, n)]
      ELSE IF "VRAM" \in dom /\ inVram THEN [ok |-> TRUE, dom |-> {"VRAM"}, s |-> Charged(s, p, n, 0)]
      ELSE [ok |-> moved.ok, dom |-> dom, s |-> moved.s]

(* A buffer that is listed already is restricted to what the new reference *)
(* allows as well.                                                         *)
Narrowed(s, p, i, f) ==
  LET e == s.p[p].buffer[i]
      n == NvpSize(e.bo)
      t == [s EXCEPT !.p[p].buffer[i].valid = @ \cap f.dom, !.p[p].buffer[i].acc = @ \cup f.acc]
  IN  IF "GART" \in e.valid /\ f.dom = {"VRAM"} THEN Charged(t, p, n, -n) ELSE t

(* pushbuf_kref: a buffer that another push buffer of the client refers to *)
(* has that one flushed first.                                             *)
FlushOthers(s, p, b) ==
  LET others == cli_push_get(s, b) \ {p}
  IN  IF others = {} THEN s ELSE pushbuf_flush(s, CHOOSE o \in others : TRUE, Taken)

ListedAlready(s, p, i, f) ==
  LET e == s.p[p].buffer[i]
      ok == /\ e.valid \cap f.dom # {}
            /\ "GART" \in e.valid /\ f.dom = {"VRAM"} => s.p[p].vram_used + NvpSize(e.bo) <= s.limit.vram
  IN  [ok |-> ok, s |-> IF ok THEN Narrowed(s, p, i, f) ELSE s]

Enlisted(fits, p, b, f) ==
  [ok |-> fits.ok,
   s |-> IF ~fits.ok THEN fits.s
         ELSE [fits.s EXCEPT !.p[p].buffer = Append(@, [bo |-> b, valid |-> fits.dom, acc |-> f.acc])]]

ListedOnce(s, p, b, f) ==
  IF Places(s, p, b) # {} THEN ListedAlready(s, p, CHOOSE j \in Places(s, p, b) : TRUE, f)
  ELSE IF Len(s.p[p].buffer) = NOUVEAU_GEM_MAX_BUFFERS THEN [ok |-> FALSE, s |-> s]
  ELSE Enlisted(pushbuf_kref_fits(s, p, b, f.dom), p, b, f)

pushbuf_kref(s, p, b, f) == ListedOnce(FlushOthers(s, p, b), p, b, f)

(* The references fs, one after the other, until one fails.                *)
WithReloc(r, p, f) ==
  IF ~r.ok \/ ~f.rel THEN r
  ELSE [r EXCEPT !.s.p[p].nr_reloc = @ + 2, !.s.p[p].dirty = TRUE]

pushbuf_krefs(s, p, fs) ==
  FoldLeft(LAMBDA r, f : IF r.ok THEN WithReloc(pushbuf_kref(r.s, p, f.bo, f), p, f) ELSE r,
           [ok |-> TRUE, s |-> s], fs)

(* pushbuf_refn_fail takes the new buffers and relocations off the lists;  *)
(* the totals and the domains of the others stay as they are.              *)
pushbuf_refn_fail(s, p, sref, srel) ==
  [s EXCEPT !.p[p].buffer = SubSeq(@, 1, sref), !.p[p].nr_reloc = srel]

Relocs(s, p) ==
  IF s.p[p].bufctx
  THEN 2 * Len(SelectSeq(s.ctx.pending \o s.ctx.current, LAMBDA r : r.rel)) ELSE 0

OwnFlags == [dom |-> {"GART"}, acc |-> {"RD"}]

(* nouveau_pushbuf_space but for its last line.  switch: the words do not  *)
(* fit into the buffer in use.                                             *)
SpaceOnly(s, p, switch, relocs, answer) ==
  LET full == \/ switch \/ ~s.p[p].ready
              \/ s.p[p].nr_reloc + relocs >= NOUVEAU_GEM_MAX_RELOCS
              \/ Len(s.p[p].push) + 1 >= NOUVEAU_GEM_MAX_PUSH
      t == IF full /\ s.p[p].ready /\ s.p[p].buffer # << >> THEN pushbuf_flush(s, p, answer) ELSE s
      u == IF switch THEN QueueWords(t, p) ELSE t
  IN  [flushed |-> full, s |-> pushbuf_kref([u EXCEPT !.p[p].ready = TRUE], p, NvpOwn(p), OwnFlags).s]

(* The part of pushbuf_validate after the space is made; r is what became  *)
(* of the references, t the state before them.                             *)
CtxCurrent(s, ctx) == [s EXCEPT !.ctx.current = ctx.pending \o @, !.ctx.pending = << >>]

CtxValidated(r, t, p) ==
  IF r.ok THEN [r EXCEPT !.s = CtxCurrent(@, t.ctx)]
  ELSE [r EXCEPT !.s = pushbuf_refn_fail(CtxCurrent(@, t.ctx), p, Len(t.p[p].buffer), t.p[p].nr_reloc)]

ValidateOnly(s, p) ==
  IF ~s.p[p].bufctx THEN [ok |-> TRUE, s |-> s]
  ELSE CtxValidated(pushbuf_krefs([s EXCEPT !.ctx.on = {p}], p, s.ctx.pending), s, p)

GivenUp(v) == IF v.ok THEN v.s ELSE NvpStray(v.s, "given up")

(* nouveau_pushbuf_space: after a flush the context is validated again,    *)
(* which makes space again; relocations that never fit would do so for     *)
(* ever.                                                                   *)
AfterFlush(a, p) ==
  IF a.flushed THEN NvpStray(a.s, "no end") ELSE GivenUp(ValidateOnly(a.s, p))

AfterSpace(a, p) ==
  IF ~a.flushed THEN a.s ELSE AfterFlush(SpaceOnly(a.s, p, FALSE, Relocs(a.s, p), Taken), p)

nouveau_pushbuf_space(s, p, switch, relocs, answer) ==
  AfterSpace(SpaceOnly(s, p, switch, relocs, answer), p)

(* pushbuf_validate without and with a second try.                         *)
ValidateOnce(s, p) ==
  GivenUp(ValidateOnly(nouveau_pushbuf_space(s, p, FALSE, Relocs(s, p), Taken), p))

SecondTry(v, p, answer) ==
  IF v.ok THEN v.s ELSE ValidateOnce(pushbuf_flush(v.s, p, answer), p)

pushbuf_validate(s, p, switch, answer) ==
  SecondTry(ValidateOnly(nouveau_pushbuf_space(s, p, switch, Relocs(s, p), answer), p), p, answer)

nouveau_pushbuf_validate(p, switch, answer) ==
  /\ NvpRunning
  /\ nvp' = pushbuf_validate(nvp, p, switch, answer)

(* nouveau_pushbuf_kick of a push buffer with a channel.                   *)
Kick(s, p, answer) == ValidateOnce(pushbuf_flush(s, p, answer), p)

nouveau_pushbuf_kick(p, answer) ==
  /\ NvpRunning
  /\ nvp.p[p].ready
  /\ nvp' = Kick(nvp, p, answer)

(* nouveau_pushbuf_refn of one buffer: one flush, and a second try.        *)
Undone(r, p, nr_buffer) ==
  IF r.ok THEN r.s ELSE pushbuf_refn_fail(r.s, p, nr_buffer, r.s.p[p].nr_reloc)

RefnAgain(s, p, b, f) == Undone(pushbuf_kref(s, p, b, f), p, Len(s.p[p].buffer))

RefnOnce(r, p, b, f) ==
  IF r.ok THEN r.s
  ELSE RefnAgain(nouveau_pushbuf_space(
         pushbuf_flush(Undone(r, p, Len(nvp.p[p].buffer)), p, Taken), p, FALSE, 0, Taken), p, b, f)

nouveau_pushbuf_refn(p, b, f) ==
  /\ NvpRunning
  /\ nvp.p[p].ready
  /\ nvp' = RefnOnce(pushbuf_kref(nvp, p, b, f), p, b, f)

(* The program writes a word where it made space before.                   *)
PushWord(p) ==
  /\ NvpRunning
  /\ nvp.p[p].ready
  /\ ~nvp.p[p].dirty
  /\ nvp' = [nvp EXCEPT !.p[p].dirty = TRUE]

(* nouveau_pushbuf_reloc to a buffer referred to before.                   *)
nouveau_pushbuf_reloc(p, b) ==
  /\ NvpRunning
  /\ nvp.p[p].ready
  /\ nvp.p[p].nr_reloc < NOUVEAU_GEM_MAX_RELOCS
  /\ Places(nvp, p, b) # {}
  /\ LET t == [nvp EXCEPT !.p[p].nr_reloc = @ + 1, !.p[p].dirty = TRUE]
     IN  nvp' = IF Places(nvp, p, NvpOwn(p)) = {} THEN NvpStray(t, "words of an unlisted buffer") ELSE t

(* A program uses a context with one push buffer.                          *)
nouveau_pushbuf_bufctx(p) ==
  /\ NvpRunning
  /\ nvp.ctx.on \subseteq {p}
  /\ \A q \in NvpPushes : q # p => ~nvp.p[q].bufctx
  /\ nvp' = [nvp EXCEPT !.p[p].bufctx = ~@]

(* nouveau_bufctx_refn, or _mthd when the reference comes with a           *)
(* relocation.                                                             *)
nouveau_bufctx_refn(b, f, rel) ==
  /\ NvpRunning
  /\ Len(nvp.ctx.pending) + Len(nvp.ctx.current) < nvp.use.refs
  /\ nvp' = [nvp EXCEPT !.ctx.pending = Append(@, [bo |-> b, dom |-> f.dom, acc |-> f.acc, rel |-> rel])]

nouveau_bufctx_reset ==
  /\ NvpRunning
  /\ nvp.ctx.pending # << >> \/ nvp.ctx.current # << >>
  /\ nvp' = [nvp EXCEPT !.ctx.pending = << >>, !.ctx.current = << >>]

(* nouveau_bo_wait of a buffer without a name: the push buffer that refers *)
(* to it is submitted; reading needs no call when no write is remembered.  *)
(* The call waits until the device no longer writes the buffer.            *)
Waited(s, b, access) ==
  LET quick == b \notin s.access /\ access = "RD"
  IN  /\ quick \/ b \notin s.gpu
      /\ nvp' = [s EXCEPT !.access = IF quick THEN @ ELSE @ \ {b}, !.early = b \in s.gpu]

nouveau_bo_wait(b, access) ==
  LET pushes == cli_push_get(nvp, b)
  IN  /\ NvpRunning
      /\ Waited(IF pushes = {} THEN nvp ELSE Kick(nvp, CHOOSE p \in pushes : TRUE, Taken), b, access)

(* The device finishes its work on a buffer (external).                    *)
GpuDone(b) ==
  /\ NvpRunning
  /\ b \in nvp.gpu
  /\ nvp' = [nvp EXCEPT !.gpu = @ \ {b}]

NvpNext ==
  \/ \E p \in nvp.use.pushes, switch \in BOOLEAN, answer \in nvp.use.answers : nouveau_pushbuf_validate(p, switch, answer)
  \/ \E p \in nvp.use.pushes : \/ \E answer \in nvp.use.answers : nouveau_pushbuf_kick(p, answer)
                          \/ PushWord(p)
                          \/ nouveau_pushbuf_bufctx(p)
  \/ \E p \in nvp.use.pushes, b \in nvp.use.bufs :
       \/ \E f \in nvp.use.flags : nouveau_pushbuf_refn(p, b, f)
       \/ nouveau_pushbuf_reloc(p, b)
  \/ \E b \in nvp.use.bufs, f \in nvp.use.flags, rel \in BOOLEAN : nouveau_bufctx_refn(b, f, rel)
  \/ nouveau_bufctx_reset
  \/ \E b \in nvp.use.bufs, access \in {"RD", "WR"} : nouveau_bo_wait(b, access)
  \/ \E b \in nvp.use.bufs : GpuDone(b)

SizesIn(p, f(_)) ==
  FoldSet(LAMBDA i, n : n + NvpSize(nvp.p[p].buffer[i].bo), 0,
          {i \in DOMAIN nvp.p[p].buffer : f(nvp.p[p].buffer[i].valid)})

(* The totals of a push buffer never fall below the sizes of its buffers,  *)
(* VRAM and GART apart, nor exceed the largest limits there were since its *)
(* lists were emptied (a submission, of this or another push buffer, may   *)
(* have lowered dev->vram_limit and gart_limit since the buffers were      *)
(* counted, pushbuf.c:350-353), through narrowing, moving to make room,    *)
(* failed references and flushes; no buffer is listed twice, or by two     *)
(* push buffers of the client, and none without a place.                   *)
PushFits ==
  /\ \A p \in NvpPushes :
       /\ nvp.p[p].vram_used >= SizesIn(p, LAMBDA v : v = {"VRAM"})
       /\ nvp.p[p].gart_used >= SizesIn(p, LAMBDA v : "GART" \in v)
       /\ nvp.p[p].vram_used <= nvp.p[p].most.vram /\ nvp.p[p].gart_used <= nvp.p[p].most.gart
       /\ \A i \in DOMAIN nvp.p[p].buffer : nvp.p[p].buffer[i].valid # {}
       /\ Len(nvp.p[p].buffer) <= NOUVEAU_GEM_MAX_BUFFERS
  /\ \A b \in AllBufs : Cardinality(cli_push_get(nvp, b)) <= 1
                        /\ \A p \in NvpPushes : Cardinality(Places(nvp, p, b)) <= 1

(* What a context holds as current is on the list of the push buffer it is *)
(* on, with at least its accesses and no domain it does not allow, so that *)
(* nothing it uses is missing from a submission, as long as the program    *)
(* was not told otherwise.  The model ends (odd), and this says nothing,   *)
(* when pushbuf_validate fails for good and leaves as current what it has  *)
(* taken off the list (given up), when it calls itself for ever (no end),  *)
(* and when the list lost the push buffer's own words, which is found out  *)
(* as they are queued or relocated: their buffer's index is then computed  *)
(* from a null pointer (pushbuf.c:723-725).                                *)
ContextIsListed ==
  NvpRunning => \A p \in nvp.ctx.on : \A k \in DOMAIN nvp.ctx.current :
    LET r == nvp.ctx.current[k]
    IN  \E i \in Places(nvp, p, r.bo) :
          /\ nvp.p[p].buffer[i].valid \subseteq r.dom
          /\ r.acc \subseteq nvp.p[p].buffer[i].acc

(* Waiting returns when the device no longer writes the buffer, also when  *)
(* it returns at once because no write is remembered.                      *)
WaitIsOver == ~nvp.early
=============================================================================
