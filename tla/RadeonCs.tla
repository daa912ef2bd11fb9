------------------------------ MODULE RadeonCs ------------------------------
(* radeon/radeon_cs.c, radeon_cs_gem.c and radeon_cs_space.c: command      *)
(* streams, their relocations, and the accounting of the memory that the   *)
(* buffers of one submission need.  A buffer object and the stream manager *)
(* are shared by all streams; every call is one step.                      *)
EXTENDS Integers, Sequences, FiniteSets, SequencesExt

CONSTANTS
  RadBos, RadCss,        \* buffer objects and streams
  RadSize(_),            \* the size of a buffer
  RadReads, RadWrites,   \* sets of domains asked for in requests
  VramLimit, GartLimit,  \* radeon_cs_set_limit
  IdBits,                \* width of cs_id_source (32)
  MAX_SPACE_BOS,         \* 32
  MaxRelocs              \* bound: relocations of one stream

ASSUME RadeonCsAssumption ==
  /\ IdBits \in Nat /\ MAX_SPACE_BOS \in Nat /\ MaxRelocs \in Nat
  /\ \A b \in RadBos : RadSize(b) \in Nat
  /\ RadReads \subseteq (SUBSET {"vram", "gtt"}) \ {{}}
  /\ RadWrites \subseteq {{"vram"}, {"gtt"}}

VARIABLE rcs

(* A set of memory domains, as the code's bit masks; a request is either   *)
(* for reading, from any of several domains, or for writing, to one.       *)
RadRequests ==
  [read : RadReads, write : {{}}] \cup [read : {{}}, write : RadWrites]

Unaccounted == [read |-> {}, write |-> {}]

(* cref counts user, the references of the program, as well.               *)
RadBo == [cref |-> 1, user |-> 1, space_accounted |-> Unaccounted, reloc_in_cs |-> 0]

(* bos: the persistent list; relocs_bo is emptied when the stream is       *)
(* emitted, relocs when it is erased.                                      *)
NoCs == [live |-> FALSE, id |-> 0, relocs |-> << >>, held |-> FALSE, bos |-> << >>]

NothingUsed == [read |-> 0, gart |-> 0, vram |-> 0]

(* others: the ids of the process's other streams.                         *)
RadInit ==
  \E others \in {{}, {2 ^ k : k \in 0..(IdBits - 1)}} :
  rcs = [others |-> others, bo |-> [b \in RadBos |-> RadBo], cs |-> [c \in RadCss |-> NoCs],
         used |-> NothingUsed, stale |-> {}, odd |-> "no"]

RadRunning == rcs.odd = "no"

RadLive(c) == RadRunning /\ rcs.cs[c].live

(* cs_id_source, as the set of the ids given out.                          *)
IdsTaken == rcs.others \cup {rcs.cs[c].id : c \in {d \in RadCss : rcs.cs[d].live}}

(* generate_id: the lowest free bit, or zero when there is none.           *)
generate_id ==
  LET free == {i \in {2 ^ k : k \in 0..(IdBits - 1)} : i \notin IdsTaken}
  IN  IF free = {} THEN 0 ELSE CHOOSE i \in free : \A j \in free : i <= j

radeon_cs_create(c) ==
  /\ RadRunning
  /\ ~rcs.cs[c].live
  /\ rcs' = [rcs EXCEPT !.cs[c] = [NoCs EXCEPT !.live = TRUE, !.id = generate_id]]

(* reloc_in_cs & id                                                        *)
InCs(s, b, id) == id # 0 /\ (s.bo[b].reloc_in_cs \div id) % 2 = 1

(* cs_gem_destroy gives the id back and releases nothing.                  *)
radeon_cs_destroy(c) ==
  /\ RadLive(c)
  /\ rcs' = [rcs EXCEPT !.cs[c] = NoCs,
                        !.odd = IF rcs.cs[c].held \/ rcs.cs[c].bos # << >>
                                THEN "references lost" ELSE @]

RadRef(s, b) == [s EXCEPT !.bo[b].cref = @ + 1]

RadUnref(s, b) == [s EXCEPT !.bo[b].cref = @ - 1]

(* The program drops its own reference.                                    *)
RadDrop(b) ==
  /\ RadRunning
  /\ rcs.bo[b].user > 0
  /\ rcs' = RadUnref([rcs EXCEPT !.bo[b].user = @ - 1], b)

(* What cs_gem_write_reloc makes of the relocation that the stream already *)
(* has for the buffer; {} when the domains do not go together.             *)
Merge(r, q) ==
  IF q.write \cap r.read # {}
  THEN {[r EXCEPT !.read = q.read, !.write = q.write]}
  ELSE IF q.read \cap r.write # {}
  THEN {[r EXCEPT !.read = q.read]}
  ELSE {x \in {r} : q.write = r.write /\ q.read = r.read}

NewReloc(s, c, b, q) ==
  RadRef([s EXCEPT !.cs[c].relocs = Append(@, [bo |-> b, read |-> q.read, write |-> q.write]),
                   !.cs[c].held = TRUE,
                   !.bo[b].reloc_in_cs = @ + s.cs[c].id], b)

(* The relocations are only searched when the buffer's mask says that it   *)
(* may be in the stream; from the last one backwards.                      *)
WriteReloc(s, c, b, q) ==
  LET seen == {i \in DOMAIN s.cs[c].relocs : InCs(s, b, s.cs[c].id) /\ s.cs[c].relocs[i].bo = b}
      last == CHOOSE i \in seen : \A j \in seen : j <= i
  IN  IF seen = {} THEN NewReloc(s, c, b, q)
      ELSE LET merged == Merge(s.cs[c].relocs[last], q)
           IN  IF merged = {} THEN s
               ELSE [s EXCEPT !.cs[c].relocs[last] = CHOOSE x \in merged : TRUE]

(* cs_gem_write_reloc; the assertion on space_accounted is its             *)
(* precondition, and callers erase a stream that was emitted.              *)
radeon_cs_write_reloc(c, b, q) ==
  /\ RadLive(c)
  /\ rcs.bo[b].user > 0
  /\ rcs.bo[b].space_accounted # Unaccounted
  /\ rcs.cs[c].relocs = << >> \/ rcs.cs[c].held
  /\ Len(rcs.cs[c].relocs) < MaxRelocs
  /\ rcs' = WriteReloc(rcs, c, b, q)

(* One relocation of an emitted or erased stream lets go of its buffer.    *)
Release(s, c, b) == RadUnref([s EXCEPT !.bo[b].reloc_in_cs = @ - s.cs[c].id], b)

Released(s, c) ==
  IF s.cs[c].held
  THEN [FoldSeq(LAMBDA r, t : Release(t, c, r.bo), s, s.cs[c].relocs) EXCEPT !.cs[c].held = FALSE]
  ELSE s

InRelocs(s, c, b) == s.cs[c].held /\ \E i \in DOMAIN s.cs[c].relocs : s.cs[c].relocs[i].bo = b

\* mutation of Emit: the buffers stay accounted
EmitAccounted(s, c) == [Released(s, c) EXCEPT !.used = NothingUsed]

(* cs_gem_emit: the buffers of the relocations are no longer accounted,    *)
(* and the manager starts at zero for every stream.  stale records the     *)
(* buffers whose accounting outlives the totals it was part of.            *)
Emit(s, c) ==
  LET kept == {b \in RadBos : ~InRelocs(s, c, b) /\ s.bo[b].space_accounted # Unaccounted}
  IN  [Released([s EXCEPT !.bo = [b \in RadBos |->
                   IF InRelocs(s, c, b) THEN [@[b] EXCEPT !.space_accounted = Unaccounted] ELSE @[b]]], c)
       EXCEPT !.used = NothingUsed, !.stale = kept]

Erase(s, c) == [Released(s, c) EXCEPT !.cs[c].relocs = << >>]

radeon_cs_emit(c) ==
  /\ RadLive(c)
  /\ rcs.cs[c].relocs = << >> \/ rcs.cs[c].held
  /\ rcs' = Emit(rcs, c)

radeon_cs_erase(c) == RadLive(c) /\ rcs' = Erase(rcs, c)

(* The drivers' space_flush_fn submits the stream and starts it anew       *)
(* (external).                                                             *)
Flush(s, c) == Erase(Emit(s, c), c)

radeon_cs_space_add_persistent_bo(c, b, q) ==
  LET e == [bo |-> b, read |-> q.read, write |-> q.write]
  IN  /\ RadLive(c)
      /\ rcs.bo[b].user > 0
      /\ Len(rcs.cs[c].bos) + 1 < MAX_SPACE_BOS
      /\ \A i \in DOMAIN rcs.cs[c].bos : rcs.cs[c].bos[i] # e
      /\ rcs' = RadRef([rcs EXCEPT !.cs[c].bos = Append(@, e)], b)

radeon_cs_space_reset_bos(c) ==
  /\ RadLive(c)
  /\ rcs.cs[c].bos # << >>
  /\ rcs' = [FoldSeq(LAMBDA e, t : RadUnref(t, e.bo), rcs, rcs.cs[c].bos)
             EXCEPT !.cs[c].bos = << >>]

(* What one buffer adds to the totals of an operation, and what it will be *)
(* accounted as.                                                           *)
Cost(r, g, v, new) == [ok |-> TRUE, read |-> r, gart |-> g, vram |-> v, new |-> new]

InDomain(domain, d, n) == IF domain = {d} THEN n ELSE 0

(* radeon_cs_setup_bo.                                                     *)
radeon_cs_setup_bo(s, e) ==
  LET old == s.bo[e.bo].space_accounted
      n == RadSize(e.bo)
      asked == IF e.write # {} THEN [read |-> {}, write |-> e.write] ELSE [read |-> e.read, write |-> {}]
      asWriter(r) == Cost(r, InDomain(e.write, "gtt", n), InDomain(e.write, "vram", n), asked)
  IN  CASE old = asked -> Cost(0, 0, 0, old)
        [] old = Unaccounted /\ e.write # {} -> asWriter(0)
        [] old = Unaccounted /\ e.write = {} -> Cost(n, 0, 0, asked)
        [] old \notin {Unaccounted, asked} /\ old.read \cap e.write # {} -> asWriter(-n)
        [] old \notin {Unaccounted, asked} /\ e.read \cap old.write # {} ->
             Cost(0, 0, 0, [read |-> {}, write |-> old.write])
        [] OTHER -> [Cost(0, 0, 0, old) EXCEPT !.ok = FALSE]

Plus(x, y) == x + y

Clamped(n) == IF n < 0 THEN 0 ELSE n

(* radeon_cs_do_space_check of the entries es: ok, flush or too big.  A    *)
(* buffer listed twice gets what its last entry says, and when it moves    *)
(* from reading to writing it is taken off the read total twice; a stale   *)
(* one is taken off a total that it is not part of.                        *)
radeon_cs_do_space_check(s, es) ==
  LET cost == [i \in DOMAIN es |-> radeon_cs_setup_bo(s, es[i])]
      total(f(_)) == FoldSeq(Plus, 0, [i \in DOMAIN es |-> f(cost[i])])
      read == Clamped(total(LAMBDA k : k.read))
      gart == total(LAMBDA k : k.gart)
      vram == total(LAMBDA k : k.vram)
      last(b) == CHOOSE i \in DOMAIN es : es[i].bo = b /\ \A j \in DOMAIN es : es[j].bo = b => j <= i
      listed == {es[i].bo : i \in DOMAIN es}
  IN  IF \E i \in DOMAIN es : ~cost[i].ok THEN [ret |-> "flush", s |-> s]
      ELSE IF read + gart > GartLimit \/ vram > VramLimit THEN [ret |-> "too big", s |-> s]
      ELSE IF \/ s.used.vram + vram > VramLimit
              \/ s.used.read + s.used.gart + gart + read > GartLimit
      THEN [ret |-> "flush", s |-> s]
      ELSE [ret |-> "ok",
            s |-> [s EXCEPT !.used = [read |-> @.read + read, gart |-> @.gart + gart, vram |-> @.vram + vram],
                            !.bo = [b \in RadBos |->
                               IF b \in listed THEN [@[b] EXCEPT !.space_accounted = cost[last(b)].new]
                               ELSE @[b]],
                            !.odd = IF \E i \in DOMAIN es :
                                         /\ cost[i].read < 0
                                         /\ \/ es[i].bo \in s.stale
                                            \/ \E j \in DOMAIN es : j # i /\ es[j].bo = es[i].bo
                                    THEN "taken off wrongly" ELSE @]]

(* radeon_cs_check_space_internal: one flush, then one more try, and a     *)
(* flush again if that fails too.                                          *)
radeon_cs_check_space_internal(s, c, tmp) ==
  LET first == radeon_cs_do_space_check(s, s.cs[c].bos \o tmp)
      again == radeon_cs_do_space_check(Flush(s, c), s.cs[c].bos \o tmp)
  IN  IF s.cs[c].bos \o tmp = << >> THEN s
      ELSE IF first.ret # "flush" THEN first.s
      ELSE IF again.ret # "flush" THEN again.s
      ELSE Flush(again.s, c)

radeon_cs_space_check(c) ==
  /\ RadLive(c)
  /\ rcs.cs[c].bos # << >>
  /\ rcs' = radeon_cs_check_space_internal(rcs, c, << >>)

radeon_cs_space_check_with_bo(c, b, q) ==
  /\ RadLive(c)
  /\ rcs.bo[b].user > 0
  /\ rcs' = radeon_cs_check_space_internal(rcs, c, <<[bo |-> b, read |-> q.read, write |-> q.write]>>)

RadNext ==
  \/ \E c \in RadCss : \/ radeon_cs_create(c)
                       \/ radeon_cs_destroy(c)
                       \/ radeon_cs_emit(c)
                       \/ radeon_cs_erase(c)
                       \/ radeon_cs_space_check(c)
                       \/ radeon_cs_space_reset_bos(c)
  \/ \E c \in RadCss, b \in RadBos, q \in RadRequests :
       \/ radeon_cs_write_reloc(c, b, q)
       \/ radeon_cs_space_add_persistent_bo(c, b, q)
       \/ radeon_cs_space_check_with_bo(c, b, q)
  \/ \E b \in RadBos : RadDrop(b)

Sizes(f(_)) ==
  LET in == {b \in RadBos : b \notin rcs.stale /\ f(rcs.bo[b].space_accounted)}
  IN  FoldSet(LAMBDA b, n : n + RadSize(b), 0, in)

(* The manager's totals never fall below the sizes of the buffers that are *)
(* accounted, kind by kind, and never exceed the limits: a stream that     *)
(* passes the check fits, whatever was merged, moved from reading to       *)
(* writing or flushed.  A buffer that was accounted but not relocated when *)
(* some stream was emitted is no longer in the totals (stale).             *)
SpaceIsConservative ==
  rcs.odd # "taken off wrongly" =>
    /\ rcs.used.read >= Sizes(LAMBDA a : a.read # {})
    /\ rcs.used.gart >= Sizes(LAMBDA a : a.write = {"gtt"})
    /\ rcs.used.vram >= Sizes(LAMBDA a : a.write = {"vram"})
    /\ rcs.used.read + rcs.used.gart <= GartLimit
    /\ rcs.used.vram <= VramLimit

(* A stream with an id has one relocation for a buffer, the buffer's mask  *)
(* says exactly which streams it is in, and what a stream or its list of   *)
(* persistent buffers holds is counted, until it is emitted or erased.     *)
StreamsHoldTheirBuffers ==
  RadRunning => \A b \in RadBos :
    /\ \A c \in RadCss : rcs.cs[c].id # 0 =>
         /\ InCs(rcs, b, rcs.cs[c].id) <=> InRelocs(rcs, c, b)
         /\ \A i, j \in DOMAIN rcs.cs[c].relocs :
              rcs.cs[c].relocs[i].bo = b /\ rcs.cs[c].relocs[j].bo = b => i = j
    /\ rcs.bo[b].cref = rcs.bo[b].user
         + FoldSet(LAMBDA c, n : n + Len(SelectSeq(rcs.cs[c].bos, LAMBDA e : e.bo = b))
                                   + (IF rcs.cs[c].held
                                      THEN Len(SelectSeq(rcs.cs[c].relocs, LAMBDA r : r.bo = b)) ELSE 0),
                   0, RadCss)

-----------------------------------------------------------------------------
(* radeon_cs_gem.c and radeon_cs.h, apart: the words of a command stream   *)
(* and the sections that the program announces and writes.                 *)
CONSTANTS
  SecDwords,    \* words of a new stream (16384)
  SecGranule,   \* words by which it grows (1024)
  SecPad,       \* words that an emitted stream is padded to (8)
  SecMaxDwords  \* bound: words of a stream

ASSUME RadeonSectionAssumption ==
  /\ SecMaxDwords \in Nat
  /\ SecPad \in Nat \ {0} /\ SecGranule % SecPad = 0 /\ SecDwords % SecGranule = 0

VARIABLE sec

SecInit == sec = [cdw |-> 0, ndw |-> SecDwords, section_ndw |-> 0, section_cdw |-> 0, granted |-> FALSE]

(* The required size, rounded up.                                          *)
Grown(n) == ((n + SecGranule - 1) \div SecGranule) * SecGranule

(* cs_gem_begin; when the stream cannot grow, the program is told so but   *)
(* the section stays open.                                                 *)
cs_gem_begin(n, fails) ==
  /\ sec.section_ndw = 0
  /\ sec.cdw + n <= SecMaxDwords
  /\ fails => sec.cdw + n > sec.ndw
  /\ sec' = [sec EXCEPT !.section_ndw = n, !.section_cdw = 0, !.granted = ~fails,
       !.ndw = IF sec.cdw + n <= sec.ndw \/ fails THEN @ ELSE Grown(sec.cdw + n)]

(* The program writes the words it announced and was granted, no more.     *)
radeon_cs_write_dword ==
  /\ sec.section_cdw < sec.section_ndw
  /\ sec.granted
  /\ sec' = [sec EXCEPT !.cdw = @ + 1, !.section_cdw = @ + 1]

(* cs_gem_end closes the section also when words are missing.              *)
cs_gem_end ==
  /\ sec.section_ndw > 0
  /\ sec' = [sec EXCEPT !.section_ndw = 0]

Padding(n) == (SecPad - (n % SecPad)) % SecPad

(* cs_gem_emit pads the stream, outside of a section or within one that    *)
(* was left open, and cs_gem_erase empties it.                             *)
cs_gem_emit ==
  /\ sec.cdw % SecPad # 0
  /\ sec' = [sec EXCEPT !.cdw = @ + Padding(sec.cdw),
                        !.granted = FALSE,
                        !.section_cdw = IF sec.section_ndw > 0 THEN @ + Padding(sec.cdw) ELSE @]

cs_gem_erase ==
  /\ sec.cdw > 0
  /\ sec' = [sec EXCEPT !.cdw = 0, !.section_ndw = 0]

SecNext ==
  \/ \E n \in 1..SecMaxDwords, fails \in BOOLEAN : cs_gem_begin(n, fails)
  \/ radeon_cs_write_dword \/ cs_gem_end \/ cs_gem_emit \/ cs_gem_erase

(* The words of a stream fit into its memory, the padding included, as     *)
(* long as the program writes what it announced.                           *)
StreamFits == sec.cdw <= sec.ndw
=============================================================================
