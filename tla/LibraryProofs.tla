--------------------------- MODULE LibraryProofs ----------------------------
(***************************************************************************)
(* The repeated ioctls, the queries that ask twice, the table of shared    *)
(* connections, the random numbers, the reference counts and the hash      *)
(* table of the core library, for any clock, any lengths, any machines,    *)
(* any threads and any keys.                                               *)
(***************************************************************************)
EXTENDS DrmAtomic, DrmHash, DrmRandom, DrmMode, DrmDevice, DrmListsProofs, SequenceTheorems

-----------------------------------------------------------------------------
(* A time is its full seconds and the rest.                                *)
LEMMA SecondsAndRest ==
  ASSUME NEW t \in Nat
  PROVE  /\ Sec(t) \in Nat
         /\ Nsec(t) \in Nat
         /\ Nsec(t) < WTicks
         /\ t = WTicks * Sec(t) + Nsec(t)
  BY WaitAssumption DEF Sec, Nsec

(* More full seconds are at least a second more of ticks.                  *)
LEMMA SecondApart ==
  ASSUME NEW a \in Nat, NEW b \in Nat, a < b
  PROVE  WTicks * a + WTicks <= WTicks * b
<1>1. PICK k \in Nat : b = a + 1 + k
  <2>1. b - a - 1 \in Nat /\ b = a + 1 + (b - a - 1)
    OBVIOUS
  <2> QED BY <2>1
<1>2. WTicks * b = WTicks * a + WTicks + WTicks * k
  BY <1>1, WaitAssumption
<1>3. WTicks * k >= 0 /\ WTicks * k \in Int /\ WTicks * a \in Int
  BY <1>1, WaitAssumption
<1> QED BY <1>2, <1>3, WaitAssumption

(* The clock's second after the one of the deadline.                       *)
Late(begun, now) == Sec(now) = Sec(begun + WTicks) + 1

(* The test after a signal gives up only after a second, and goes on only  *)
(* within it and in the clock's second after the one of the deadline.      *)
LEMMA TimeoutWindow ==
  ASSUME NEW begun \in Nat, NEW now \in Nat
  PROVE  /\ TimedOut(begun, now) => now - begun >= WTicks /\ ~Late(begun, now)
         /\ ~TimedOut(begun, now) =>
              now - begun < WTicks \/ (Late(begun, now) /\ now - begun < 3 * WTicks)
<1> DEFINE timeout == begun + WTicks
<1> DEFINE s == Sec(now)  n == Nsec(now)  st == Sec(timeout)  nt == Nsec(timeout)
<1>1. /\ s \in Nat /\ n \in Nat /\ n < WTicks /\ now = WTicks * s + n
      /\ st \in Nat /\ nt \in Nat /\ nt < WTicks /\ timeout = WTicks * st + nt
      /\ timeout \in Nat
  BY SecondsAndRest, WaitAssumption
<1>2. TimedOut(begun, now) <=> (s > st + 1 \/ (s = st /\ n >= nt))
  BY DEF TimedOut
<1>9. Late(begun, now) <=> s = st + 1
  BY DEF Late
<1> HIDE DEF s, n, st, nt
<1> DEFINE ps == WTicks * s  pst == WTicks * st
<1>3. ps \in Int /\ pst \in Int
  BY <1>1, WaitAssumption
<1>4. s > st => ps >= pst + WTicks
  BY <1>1, SecondApart
<1>5. s < st => pst >= ps + WTicks
  BY <1>1, SecondApart
<1>6. s = st + 1 => ps = pst + WTicks
  BY <1>1, WaitAssumption
<1>7. now = ps + n /\ timeout = pst + nt
  BY <1>1
<1>8. s = st => ps = pst
  OBVIOUS
<1> HIDE DEF ps, pst
<1> QED BY <1>1, <1>2, <1>3, <1>4, <1>5, <1>6, <1>7, <1>8, <1>9, WaitAssumption

Calls ==
  [pc : {"idle", "vblank", "blocked", "dma"}, start : Nat, relative : BOOLEAN, sequence : Nat,
   goal : Nat \cup {-1}, i : Int]

Results ==
  [what : {"none", "frame", "EBUSY", "repeated", "dma", "EAGAIN"}, since : Int, late : BOOLEAN]

WaitTypeOK == wait \in [now : Nat, frame : Nat, call : Calls, res : Results]

(* The inductive invariant: the call began no later than now, and once the *)
(* first ioctl has fixed the frame the request is absolute and names it.   *)
GoalKept ==
  /\ wait.call.start <= wait.now
  /\ wait.call.pc = "vblank" /\ wait.call.goal # -1 =>
       ~wait.call.relative /\ wait.call.sequence = wait.call.goal

WaitInv == WaitTypeOK /\ GoalKept /\ WaitsAreBounded

(* No call is in progress at first.                                        *)
LEMMA WaitInitInv == WaitInit => WaitInv
  BY WaitAssumption
     DEF WaitInit, WaitInv, WaitTypeOK, GoalKept, Calls, Results, NoCall, WaitsAreBounded

(* The call and the result a step leaves are all that matters.             *)
LEMMA CallAndResult ==
  ASSUME WaitTypeOK, NEW w \in Calls, NEW r \in Results,
         wait' = [wait EXCEPT !.call = w, !.res = r]
  PROVE  /\ WaitTypeOK'
         /\ wait'.now = wait.now /\ wait'.call = w /\ wait'.res = r
  BY DEF WaitTypeOK

(* Every step of a call preserves the invariant.                           *)
LEMMA WaitNextInv ==
  ASSUME WaitInv, [WaitNext]_wait
  PROVE  WaitInv'
<1> USE WaitAssumption
<1>i. WaitTypeOK /\ GoalKept /\ WaitsAreBounded
  BY DEF WaitInv
<1>t. wait.now \in Nat /\ wait.frame \in Nat /\ wait.call \in Calls /\ wait.res \in Results
  BY <1>i DEF WaitTypeOK
<1>w. /\ wait.call.start \in Nat /\ wait.call.sequence \in Nat /\ wait.call.i \in Int
      /\ wait.call.goal \in Nat \cup {-1}
  BY <1>t DEF Calls
<1>n. NoCall \in Calls /\ NoCall.start = 0 /\ NoCall.pc = "idle" /\ NoCall.goal = -1
  BY DEF NoCall, Calls
<1>e. wait.now - wait.call.start \in Int
  BY <1>t, <1>w
<1>1. CASE UNCHANGED wait
  BY <1>1, <1>i DEF WaitInv, WaitTypeOK, GoalKept, WaitsAreBounded
<1>2. CASE Tick
  <2>1. PICK df \in 0..1 : wait' = [wait EXCEPT !.now = @ + 1, !.frame = @ + df]
    BY <1>2 DEF Tick
  <2>2. wait.now + 1 \in Nat /\ wait.frame + df \in Nat
    BY <1>t
  <2>3. /\ WaitTypeOK'
        /\ wait'.now = wait.now + 1 /\ wait'.call = wait.call /\ wait'.res = wait.res
    BY <1>i, <2>1, <2>2 DEF WaitTypeOK
  <2> QED BY <1>i, <1>t, <1>w, <2>3 DEF WaitInv, GoalKept, WaitsAreBounded
<1>3. ASSUME NEW rel \in BOOLEAN, NEW n \in 0..WMaxFrames, drmWaitVBlank(rel, n)
      PROVE  WaitInv'
  <2> DEFINE w == [NoCall EXCEPT !.pc = "vblank", !.start = wait.now, !.relative = rel, !.sequence = n]
  <2>0. n \in Nat
    OBVIOUS
  <2>1. w \in Calls /\ w.start = wait.now /\ w.pc = "vblank" /\ w.goal = -1
    BY <1>n, <1>t, <2>0 DEF Calls
  <2>2. wait' = [wait EXCEPT !.call = w]
    BY <1>3 DEF drmWaitVBlank
  <2> HIDE DEF w
  <2>3. /\ WaitTypeOK'
        /\ wait'.now = wait.now /\ wait'.call = w /\ wait'.res = wait.res
    BY <1>i, <2>1, <2>2 DEF WaitTypeOK
  <2> QED BY <1>i, <1>t, <2>1, <2>3 DEF WaitInv, GoalKept, WaitsAreBounded
<1>4. CASE VBlankBegin
  <2> DEFINE target == wait.call.sequence + (IF wait.call.relative THEN wait.frame ELSE 0)
             goal == IF wait.call.goal = -1 THEN target ELSE wait.call.goal
             w == [wait.call EXCEPT !.pc = "blocked", !.sequence = target, !.goal = goal]
  <2>1. target \in Nat /\ goal \in Nat \cup {-1}
    BY <1>t, <1>w
  <2>2. wait.call.goal # -1 => target = wait.call.goal
    BY <1>i, <1>4, <1>w DEF GoalKept, VBlankBegin
  <2>3. goal = target
    BY <2>2
  <2>4. wait' = [wait EXCEPT !.call.pc = "blocked", !.call.sequence = target, !.call.goal = goal]
    BY <1>4 DEF VBlankBegin
  <2> HIDE DEF target, goal
  <2>5. /\ WaitTypeOK'
        /\ wait'.now = wait.now /\ wait'.call = w /\ wait'.res = wait.res
    BY <1>i, <2>1, <2>4 DEF WaitTypeOK, Calls
  <2>6. w.pc = "blocked" /\ w.start = wait.call.start /\ w.sequence = target /\ w.goal = goal
    BY <1>t DEF Calls
  <2> QED BY <1>i, <2>3, <2>5, <2>6 DEF WaitInv, GoalKept, WaitsAreBounded
<1>5. CASE VBlankDone
  <2> DEFINE r == Ended(wait, "frame")
  <2>1. r \in Results /\ r.what = "frame"
    BY <1>e DEF Ended, Results
  <2>2. wait' = [wait EXCEPT !.call = NoCall, !.res = r]
    BY <1>5 DEF VBlankDone
  <2> HIDE DEF r
  <2>3. WaitTypeOK' /\ wait'.now = wait.now /\ wait'.call = NoCall /\ wait'.res = r
    BY <1>i, <1>n, <2>1, <2>2, CallAndResult
  <2> QED BY <1>n, <1>t, <2>1, <2>3 DEF WaitInv, GoalKept, WaitsAreBounded
<1>6. CASE VBlankSignal
  <2>1. CASE TimedOut(wait.call.start, wait.now)
    <3> DEFINE r == Ended(wait, "EBUSY")
    <3>1. /\ r \in Results /\ r.what = "EBUSY" /\ r.since = wait.now - wait.call.start
          /\ r.late <=> Late(wait.call.start, wait.now)
      BY <1>e DEF Ended, Results, Late
    <3>2. wait' = [wait EXCEPT !.call = NoCall, !.res = r]
      BY <1>6, <2>1 DEF VBlankSignal
    <3>3. wait.now - wait.call.start >= WTicks /\ ~Late(wait.call.start, wait.now)
      BY <2>1, <1>t, <1>w, TimeoutWindow
    <3> HIDE DEF r
    <3>4. WaitTypeOK' /\ wait'.now = wait.now /\ wait'.call = NoCall /\ wait'.res = r
      BY <1>i, <1>n, <3>1, <3>2, CallAndResult
    <3> QED BY <1>n, <1>t, <3>1, <3>3, <3>4
            DEF WaitInv, GoalKept, WaitsAreBounded
  <2>2. CASE ~TimedOut(wait.call.start, wait.now)
    <3> DEFINE r == Ended(wait, "repeated")  w == Repeated(wait.call)
    <3>1. /\ r \in Results /\ r.what = "repeated" /\ r.since = wait.now - wait.call.start
          /\ r.late <=> Late(wait.call.start, wait.now)
      BY <1>e DEF Ended, Results, Late
    <3>2. wait' = [wait EXCEPT !.call = w, !.res = r]
      BY <1>6, <2>2 DEF VBlankSignal
    <3>3. \/ wait.now - wait.call.start < WTicks
          \/ Late(wait.call.start, wait.now) /\ wait.now - wait.call.start < 3 * WTicks
      BY <2>2, <1>t, <1>w, TimeoutWindow
    <3>4. /\ w \in Calls /\ w.pc = "vblank" /\ ~w.relative
          /\ w.start = wait.call.start /\ w.sequence = wait.call.sequence
          /\ w.goal = wait.call.goal
      BY <1>t DEF Repeated, Calls
    <3>5. wait.call.sequence = wait.call.goal
      BY <1>i, <1>6 DEF VBlankSignal, WaitsAreBounded
    <3> HIDE DEF r, w
    <3>6. WaitTypeOK' /\ wait'.now = wait.now /\ wait'.call = w /\ wait'.res = r
      BY <1>i, <3>1, <3>2, <3>4, CallAndResult
    <3> QED BY <1>i, <1>t, <3>1, <3>3, <3>4, <3>5, <3>6
            DEF WaitInv, GoalKept, WaitsAreBounded
  <2> QED BY <2>1, <2>2
<1>7. CASE drmDMA
  <2> DEFINE w == [NoCall EXCEPT !.pc = "dma"]
  <2>1. w \in Calls /\ w.start = 0 /\ w.pc = "dma"
    BY <1>n DEF Calls
  <2>2. wait' = [wait EXCEPT !.call = w]
    BY <1>7 DEF drmDMA
  <2> HIDE DEF w
  <2>3. /\ WaitTypeOK'
        /\ wait'.now = wait.now /\ wait'.call = w /\ wait'.res = wait.res
    BY <1>i, <2>1, <2>2 DEF WaitTypeOK
  <2> QED BY <1>i, <1>t, <2>1, <2>3 DEF WaitInv, GoalKept, WaitsAreBounded
<1>8. CASE DmaAttempt
  <2>1. ASSUME NEW what \in {"dma", "EAGAIN"},
               wait' = [wait EXCEPT !.call = NoCall, !.res = Ended(wait, what)]
        PROVE  WaitInv'
    <3> DEFINE r == Ended(wait, what)
    <3>1. r \in Results /\ r.what = what
      BY <1>e DEF Ended, Results
    <3>2. wait' = [wait EXCEPT !.call = NoCall, !.res = r]
      BY <2>1
    <3> HIDE DEF r
    <3>3. WaitTypeOK' /\ wait'.now = wait.now /\ wait'.call = NoCall /\ wait'.res = r
      BY <1>i, <1>n, <3>1, <3>2, CallAndResult
    <3> QED BY <1>n, <1>t, <3>1, <3>3 DEF WaitInv, GoalKept, WaitsAreBounded
  <2>2. CASE wait' = [wait EXCEPT !.call.i = @ + 1]
    <3> DEFINE w == [wait.call EXCEPT !.i = @ + 1]
    <3>1. wait.call.i + 1 \in Int
      BY <1>w
    <3>2. /\ w \in Calls /\ w.start = wait.call.start /\ w.pc = wait.call.pc /\ w.pc = "dma"
      BY <1>t, <1>8, <3>1 DEF Calls, DmaAttempt
    <3>3. /\ WaitTypeOK'
          /\ wait'.now = wait.now /\ wait'.call = w /\ wait'.res = wait.res
      BY <1>i, <2>2, <3>1, <3>2 DEF WaitTypeOK, Calls
    <3> HIDE DEF w
    <3> QED BY <1>i, <1>t, <3>2, <3>3 DEF WaitInv, GoalKept, WaitsAreBounded
  <2> QED BY <1>8, <2>1, <2>2 DEF DmaAttempt
<1> QED BY <1>1, <1>2, <1>3, <1>4, <1>5, <1>6, <1>7, <1>8 DEF WaitNext

(* However many signals interrupt drmWaitVBlank, it gives up only after a  *)
(* second, repeats the ioctl only within it and in the clock's second      *)
(* after the one of the deadline, and a relative wait keeps the frame its  *)
(* first ioctl meant (WaitsAreBounded).                                    *)
THEOREM VBlankWaitsBounded == WaitSpec => []WaitsAreBounded
<1>1. WaitInit => WaitInv
  BY WaitInitInv
<1>2. WaitInv /\ [WaitNext]_wait => WaitInv'
  BY WaitNextInv
<1>3. WaitInv => WaitsAreBounded
  BY DEF WaitInv
<1> QED BY <1>1, <1>2, <1>3, PTL DEF WaitSpec

-----------------------------------------------------------------------------
(* A query that compares lists compares all it asks for.                   *)
LEMMA AllOrNothingTested ==
  ASSUME NEW q \in Queries
  PROVE  q.tested = {} \/ q.tested = q.lists
<1>1. \A r \in {drmModeGetResources, drmModeGetConnector, drmModeGetPlane,
               drmModeGetPlaneResources, drmModeObjectGetProperties} : r.tested = r.lists
  BY DEF Retrying, Query, drmModeGetResources, drmModeGetConnector, drmModeGetPlane,
         drmModeGetPlaneResources, drmModeObjectGetProperties
<1>2. \A r \in {drmModeGetProperty, drmModeGetPropertyBlob, drmGetBufInfo,
               drmMapBufs, drmGetReservedContextList, drmGetBusid} : r.tested = {}
  BY DEF Query, drmModeGetProperty, drmModeGetPropertyBlob, drmGetBufInfo,
         drmMapBufs, drmGetReservedContextList, drmGetBusid
<1> QED BY <1>1, <1>2 DEF Queries

Listed(ans) ==
  \A l \in DOMAIN ans.list : \A i \in DOMAIN ans.list[l] : ans.list[l][i] = "listed"

(* The inductive invariant: the lengths are numbers, for the lists of the  *)
(* query.                                                                  *)
QTypeOK ==
  /\ qry \in [q : Queries, len : {qry.len}, changes : {qry.changes},
              pc : {"idle", "again", "counted"}, counts : {qry.counts},
              arrays : {qry.arrays}, lost : {qry.lost}, ans : {qry.ans}]
  /\ qry.len \in [qry.q.lists -> Nat]
  /\ qry.counts \in [qry.q.lists -> Nat]

QInv == QTypeOK /\ AnswersAreSnapshots

(* Nothing has been answered at first.                                     *)
LEMMA QInitInv == QInit => QInv
<1> SUFFICES ASSUME QInit PROVE QInv
  OBVIOUS
<1>1. PICK q \in Queries :
        qry = [q |-> q, len |-> [l \in q.lists |-> 1], changes |-> 0, pc |-> "idle",
               counts |-> [l \in q.lists |-> 0], arrays |-> {}, lost |-> {}, ans |-> NoAnswer]
  BY DEF QInit
<1>2. QTypeOK
  BY <1>1 DEF QTypeOK
<1>3. Listed(NoAnswer)
  BY DEF Listed, NoAnswer
<1>4. qry.arrays = {} /\ qry.lost = {} /\ qry.ans = NoAnswer
  BY <1>1
<1> QED BY <1>2, <1>3, <1>4 DEF QInv, AnswersAreSnapshots, Listed

(* Every step of a query, and every change of the lists, preserves it.     *)
LEMMA QNextInv ==
  ASSUME QInv, [QNext]_qry
  PROVE  QInv'
<1> USE ModeAssumption
<1>i. QTypeOK /\ AnswersAreSnapshots
  BY DEF QInv
<1>t. /\ qry.q \in Queries
      /\ qry.len \in [qry.q.lists -> Nat] /\ qry.counts \in [qry.q.lists -> Nat]
      /\ Unasked \in [qry.q.lists -> Nat]
  BY <1>i DEF QTypeOK, Unasked
<1>n. Listed(NoAnswer)
  BY DEF Listed, NoAnswer
<1>1. CASE UNCHANGED qry
  BY <1>1, <1>i DEF QInv, QTypeOK, AnswersAreSnapshots
<1>2. CASE Hotplug
  <2>1. PICK l \in qry.q.lists, n \in 0..QMaxLen :
          qry' = [qry EXCEPT !.len[l] = n, !.changes = @ + 1]
    BY <1>2 DEF Hotplug
  <2>2. [qry.len EXCEPT ![l] = n] \in [qry.q.lists -> Nat]
    BY <1>t
  <2>3. /\ qry'.q = qry.q /\ qry'.pc = qry.pc /\ qry'.arrays = qry.arrays
        /\ qry'.lost = qry.lost /\ qry'.ans = qry.ans /\ qry'.counts = qry.counts
        /\ qry'.len = [qry.len EXCEPT ![l] = n]
    BY <1>i, <2>1 DEF QTypeOK
  <2>4. QTypeOK'
    BY <1>i, <2>1, <2>2, <2>3 DEF QTypeOK
  <2> QED BY <1>i, <2>3, <2>4 DEF QInv, AnswersAreSnapshots
<1>3. CASE QBegin
  <2>1. CASE qry' = [qry EXCEPT !.ans = NoAnswer]
    <3>1. /\ qry'.q = qry.q /\ qry'.pc = qry.pc /\ qry'.arrays = qry.arrays
          /\ qry'.lost = qry.lost /\ qry'.ans = NoAnswer
          /\ qry'.counts = qry.counts /\ qry'.len = qry.len
      BY <1>i, <2>1 DEF QTypeOK
    <3>2. QTypeOK'
      BY <1>i, <2>1, <3>1 DEF QTypeOK
    <3> QED BY <1>i, <1>n, <3>1, <3>2 DEF QInv, AnswersAreSnapshots, Listed
  <2>2. CASE qry' = [qry EXCEPT !.pc = "counted", !.counts = qry.len,
                                !.arrays = {l \in qry.q.lists : qry.len[l] > 0}]
    <3>1. /\ qry'.q = qry.q /\ qry'.pc = "counted" /\ qry'.lost = qry.lost /\ qry'.ans = qry.ans
          /\ qry'.counts = qry.len /\ qry'.len = qry.len
      BY <1>i, <2>2 DEF QTypeOK
    <3>2. QTypeOK'
      BY <1>i, <2>2, <3>1 DEF QTypeOK
    <3> QED BY <1>i, <3>1, <3>2 DEF QInv, AnswersAreSnapshots
  <2> QED BY <1>3, <2>1, <2>2 DEF QBegin
<1>4. CASE QEnd
  <2>1. CASE Grown
    <3>0. qry' = [qry EXCEPT !.pc = "again", !.counts = Unasked, !.arrays = {}]
      BY <1>4, <2>1 DEF QEnd
    <3>1. /\ qry'.q = qry.q /\ qry'.pc = "again" /\ qry'.lost = qry.lost /\ qry'.ans = qry.ans
          /\ qry'.counts = Unasked /\ qry'.len = qry.len /\ qry'.arrays = {}
      BY <1>i, <3>0 DEF QTypeOK
    <3>2. QTypeOK'
      BY <1>i, <1>t, <3>0, <3>1 DEF QTypeOK
    <3> QED BY <1>i, <3>1, <3>2 DEF QInv, AnswersAreSnapshots
  <2>2. CASE ~Grown
    <3> DEFINE a == Answer
    <3>0. qry' = [qry EXCEPT !.pc = "idle", !.counts = Unasked, !.arrays = {}, !.ans = a]
      BY <1>4, <2>2 DEF QEnd
    <3>1. ASSUME qry.q.tested # {} \/ ~a.grew
          PROVE  Listed(a)
      <4>1. \A l \in qry.q.lists : ~Longer(l)
        BY <2>2, <3>1, <1>t, AllOrNothingTested DEF Grown, Answer
      <4>2. \A l \in qry.q.lists : \A i \in 1..qry.len[l] : Entry(l, i) = "listed"
        BY <1>t, <4>1 DEF Entry, Longer
      <4> QED BY <4>2 DEF Listed, Answer
    <3> HIDE DEF a
    <3>2. /\ qry'.q = qry.q /\ qry'.pc = "idle" /\ qry'.lost = qry.lost /\ qry'.ans = a
          /\ qry'.counts = Unasked /\ qry'.len = qry.len /\ qry'.arrays = {}
      BY <1>i, <3>0 DEF QTypeOK
    <3>3. QTypeOK'
      BY <1>i, <1>t, <3>0, <3>2 DEF QTypeOK
    <3> QED BY <1>i, <3>1, <3>2, <3>3 DEF QInv, AnswersAreSnapshots, Listed
  <2> QED BY <2>1, <2>2
<1>5. ASSUME NEW why \in {"ioctl", "memory"}, QFail(why)
      PROVE  QInv'
  <2> DEFINE gone == IF why \in qry.q.forgets THEN qry.lost \cup qry.arrays ELSE qry.lost
  <2>0. qry' = [qry EXCEPT !.pc = "idle", !.counts = Unasked, !.arrays = {}, !.ans = NoAnswer,
                           !.lost = gone]
    BY <1>5 DEF QFail
  <2>1. gone # {} => qry.q.forgets # {}
    BY <1>i DEF AnswersAreSnapshots
  <2> HIDE DEF gone
  <2>2. /\ qry'.q = qry.q /\ qry'.pc = "idle" /\ qry'.lost = gone /\ qry'.ans = NoAnswer
        /\ qry'.counts = Unasked /\ qry'.len = qry.len /\ qry'.arrays = {}
    BY <1>i, <2>0 DEF QTypeOK
  <2>3. QTypeOK'
    BY <1>i, <1>t, <2>0, <2>2 DEF QTypeOK
  <2> QED BY <1>i, <1>n, <2>1, <2>2, <2>3 DEF QInv, AnswersAreSnapshots, Listed
<1> QED BY <1>1, <1>2, <1>3, <1>4, <1>5 DEF QNext

(* However the kernel's lists change between the two ioctls of a query,    *)
(* for lists of any length, its answer is complete and within its arrays   *)
(* (AnswersAreSnapshots).                                                  *)
THEOREM QueriesAnswerSnapshots == QSpec => []AnswersAreSnapshots
<1>1. QInit => QInv
  BY QInitInv
<1>2. QInv /\ [QNext]_qry => QInv'
  BY QNextInv
<1>3. QInv => AnswersAreSnapshots
  BY DEF QInv
<1> QED BY <1>1, <1>2, <1>3, PTL DEF QSpec

-----------------------------------------------------------------------------
(* The quotient and the rest that the code computes from m and a.          *)
LEMMA RandomConstants == RandomM = 2147483647 /\ RandomQ = 44488 /\ RandomR = 3399
  BY DEF RandomQ, RandomR, RandomM, RandomA

(* Schrage's method draws the number it should, (a * s) mod m, without     *)
(* computing the product: both terms of the difference stay below m, so    *)
(* that one correction suffices and 32 bits hold every intermediate.  The  *)
(* difference is never zero, for a and r have no common factor.            *)
THEOREM DrawIsExact ==
  ASSUME NEW s \in Int, 0 < s, s < RandomM
  PROVE  /\ Draw(s) = (RandomA * s) % RandomM
         /\ Draw(s) \in Int /\ 0 < Draw(s) /\ Draw(s) < RandomM
         /\ 0 <= RandomA * (s % RandomQ) /\ RandomA * (s % RandomQ) < RandomM
         /\ 0 <= RandomR * (s \div RandomQ) /\ RandomR * (s \div RandomQ) < RandomM
<1> DEFINE h == s \div 44488  l == s % 44488
<1>1. h \in Int /\ l \in Int /\ s = 44488 * h + l /\ 0 <= l /\ l < 44488
  OBVIOUS
<1>4. s \in Int /\ 1 <= s /\ s < 2147483647
  BY RandomConstants
<1>2. 0 <= h /\ h <= 48271
  BY <1>1, <1>4
<1>3. Draw(s) = IF 48271 * l - 3399 * h <= 0 THEN 48271 * l - 3399 * h + 2147483647
                ELSE 48271 * l - 3399 * h
  BY RandomConstants DEF Draw, RandomA
<1> HIDE DEF h, l
<1>5. 48271 * s = 2147483647 * h + (48271 * l - 3399 * h)
  BY <1>1
<1>6. 48271 * l - 3399 * h # 0
  <2>1. SUFFICES ASSUME 48271 * l = 3399 * h PROVE FALSE
    BY <1>1
  <2>2. h = 0 \/ h = 48271
    BY <1>1, <1>2, <2>1
  <2> QED BY <1>1, <1>4, <2>1, <2>2
<1>7. /\ 0 <= 48271 * l /\ 48271 * l < 2147483647
      /\ 0 <= 3399 * h /\ 3399 * h < 2147483647
  BY <1>1, <1>2
<1>8. Draw(s) \in Int /\ 1 <= Draw(s) /\ Draw(s) < 2147483647
  BY <1>1, <1>2, <1>3, <1>6, <1>7
<1>9. \E k \in Int : 48271 * s = 2147483647 * k + Draw(s)
  <2>1. CASE 48271 * l - 3399 * h <= 0
    <3>1. Draw(s) = 48271 * l - 3399 * h + 2147483647
      BY <1>3, <2>1
    <3>2. 2147483647 * (h - 1) = 2147483647 * h - 2147483647
      BY <1>1
    <3>3. h - 1 \in Int /\ 48271 * s = 2147483647 * (h - 1) + Draw(s)
      BY <1>1, <1>4, <1>5, <3>1, <3>2
    <3> QED BY <3>3
  <2>2. CASE ~(48271 * l - 3399 * h <= 0)
    <3>1. Draw(s) = 48271 * l - 3399 * h
      BY <1>3, <2>2
    <3> QED BY <1>1, <1>5, <3>1
  <2> QED BY <2>1, <2>2
<1>10. Draw(s) = (48271 * s) % 2147483647
  BY <1>4, <1>8, <1>9
<1>11. 48271 * l = RandomA * (s % RandomQ) /\ 3399 * h = RandomR * (s \div RandomQ)
  BY RandomConstants DEF h, l, RandomA
<1>12. 48271 * l \in Int /\ 3399 * h \in Int
  BY <1>1
<1> QED BY <1>7, <1>8, <1>10, <1>11, <1>12, RandomConstants DEF RandomA

InRange == seed \in 1..(RandomM - 1)

(* Whatever seed a program passes and however many numbers it draws, the   *)
(* generator stays within 1..m-1 and so never sticks at zero (the first    *)
(* part of RandomIsMinimalStandard).                                       *)
THEOREM RandomStaysInRange == RandomSpec => []InRange
<1>0. RandomM \in Int /\ RandomM > 1
  BY RandomConstants
<1>1. ASSUME NEW s \in Int PROVE LegalSeed(s) \in 1..(RandomM - 1)
  BY <1>0 DEF LegalSeed
<1>2. RandomInit => InRange
  BY <1>1, SeedsAssumption DEF RandomInit, InRange
<1>3. InRange /\ [RandomNext]_rndVars => InRange'
  <2> SUFFICES ASSUME InRange, [RandomNext]_rndVars PROVE InRange'
    OBVIOUS
  <2>1. CASE drmRandom
    <3>1. seed \in Int /\ 0 < seed /\ seed < RandomM
      BY <1>0 DEF InRange
    <3>2. Draw(seed) \in Int /\ 0 < Draw(seed) /\ Draw(seed) < RandomM
      BY <3>1, DrawIsExact
    <3> QED BY <1>0, <2>1, <3>2 DEF drmRandom, InRange
  <2>2. ASSUME NEW s \in Seeds, drmRandomCreate(s) PROVE InRange'
    BY <1>1, <2>2, SeedsAssumption DEF drmRandomCreate, InRange
  <2>3. CASE UNCHANGED rndVars
    BY <2>3 DEF rndVars, InRange
  <2> QED BY <2>1, <2>2, <2>3 DEF RandomNext
<1> QED BY <1>2, <1>3, PTL DEF RandomSpec

-----------------------------------------------------------------------------
(* A state of the process: its fields, whatever they hold.                 *)
DvRecord(d) ==
  d \in [hw : {d.hw}, fds : {d.fds}, claimed : {d.claimed}, conn : {d.conn}, held : {d.held},
         ent : {d.ent}]

Buses == UNION {{hw.bus[m] : m \in DOMAIN hw.bus} : hw \in DvMachines}

Conns == [bus : Buses, fd : Nat, refcount : Int, named : BOOLEAN]

(* The inductive invariant: besides DevicesSound, the counts are numbers   *)
(* and descriptors come from the table of open files.                      *)
DvTypeOK ==
  /\ DvRecord(dv)
  /\ dv.hw \in DvMachines
  /\ dv.conn \in Seq(Conns)
  /\ \A f \in DOMAIN dv.held : dv.held[f] \in Int

DvInv == DvTypeOK /\ DevicesSound

(* ConnectionsExact said of a state of the process.                        *)
HoldersIn(d, f) == IF f \in DOMAIN d.held THEN d.held[f] ELSE 0

ConnExact(d, i) ==
  /\ d.conn[i].fd \in DOMAIN d.fds
  /\ d.conn[i].refcount = HoldersIn(d, d.conn[i].fd)
  /\ \A j \in DOMAIN d.conn \ {i} : d.conn[j].fd # d.conn[i].fd /\ d.conn[j].bus # d.conn[i].bus
  /\ (~d.conn[i].named /\ \A m \in Present(d) : d.hw.ver[m] = "1.4")
       => d.hw.bus[d.fds[d.conn[i].fd]] = d.conn[i].bus

(* The table of connections is exact when each entry is.                   *)
LEMMA ExactEntries ==
  /\ ConnectionsExact <=> \A i \in DOMAIN dv.conn : ConnExact(dv, i)
  /\ ConnectionsExact' <=> \A i \in DOMAIN dv'.conn : ConnExact(dv', i)
<1>1. ConnectionsExact <=> \A i \in DOMAIN dv.conn : ConnExact(dv, i)
  BY DEF ConnectionsExact, ConnExact, Holders, HoldersIn
<1>2. ConnectionsExact' <=> \A i \in DOMAIN dv'.conn : ConnExact(dv', i)
  BY DEF ConnectionsExact, ConnExact, Holders, HoldersIn, Present
<1> QED BY <1>1, <1>2

(* The kernel gives out the lowest free descriptor.                        *)
LEMMA NextFdFree ==
  ASSUME FreeFds(dv) # {}
  PROVE  NextFd(dv) \in FreeFds(dv) /\ NextFd(dv) \in Nat
<1>1. FreeFds(dv) \in SUBSET Nat
  BY DeviceAssumption DEF FreeFds
<1>2. \E f \in FreeFds(dv) : \A g \in FreeFds(dv) : f <= g
  BY <1>1, LeastNatural
<1> QED BY <1>1, <1>2 DEF NextFd

(* A search ends at a minor that is among those found.                     *)
LEMMA LowestFound ==
  ASSUME dv.hw \in DvMachines, NEW found \in SUBSET Present(dv), found # {}
  PROVE  LowestOf(found) \in found
<1>1. found \in SUBSET Nat
  BY DeviceAssumption DEF Present
<1>2. \E m \in found : \A n \in found : m <= n
  BY <1>1, LeastNatural
<1> QED BY <1>2 DEF LowestOf

(* drmOpen either fails and changes no descriptor, or adds one that was    *)
(* free; found by bus id on devices that all know version 1.4 it is the    *)
(* device asked for.                                                       *)
LEMMA OpenAddsOne ==
  ASSUME DvTypeOK, FreeFds(dv) # {}, NEW name, NEW bus
  PROVE  LET r == Open(dv, name, bus)
         IN  /\ DvRecord(r.d)
             /\ r.d.hw = dv.hw /\ r.d.conn = dv.conn /\ r.d.held = dv.held /\ r.d.ent = dv.ent
             /\ \/ r.fd = -1 /\ r.d.fds = dv.fds
                \/ /\ r.fd \in Nat /\ r.fd \notin DOMAIN dv.fds
                   /\ \E m : r.d.fds = DvWith(dv.fds, r.fd, m)
             /\ (/\ r.fd \in Nat /\ r.fd = OpenByBusid(dv, bus).fd
                 /\ \A m \in Present(dv) : dv.hw.ver[m] = "1.4")
                  => dv.hw.bus[r.d.fds[r.fd]] = bus
<1> DEFINE f == NextFd(dv)
           found == Candidates(dv, bus)
           probed == {m \in Present(dv) : (found # {} => m <= LowestOf(found)) /\ dv.hw.ver[m] # "none"}
           told == [dv EXCEPT !.claimed = @ \cup (probed \cap Opened(dv))]
           b == OpenByBusid(dv, bus)
           r == Open(dv, name, bus)
<1>1. f \in Nat /\ f \notin DOMAIN dv.fds
  BY NextFdFree DEF FreeFds
<1>2. /\ DvRecord(told)
      /\ told.hw = dv.hw /\ told.conn = dv.conn /\ told.held = dv.held /\ told.ent = dv.ent
      /\ told.fds = dv.fds
  BY DEF DvTypeOK, DvRecord
<1>3. /\ DvRecord(b.d)
      /\ b.d.hw = dv.hw /\ b.d.conn = dv.conn /\ b.d.held = dv.held /\ b.d.ent = dv.ent
      /\ \/ found = {} /\ b.fd = -1 /\ b.d.fds = dv.fds
         \/ found # {} /\ b.fd = f /\ b.d.fds = DvWith(dv.fds, f, LowestOf(found))
  <2>1. CASE found = {}
    <3>1. b = [fd |-> -1, d |-> told]
      BY <2>1 DEF OpenByBusid
    <3> HIDE DEF told, found
    <3> QED BY <1>2, <2>1, <3>1
  <2>2. CASE found # {}
    <3> DEFINE e == [told EXCEPT !.fds = DvWith(@, f, LowestOf(found)),
                                 !.claimed = @ \cup (probed \cap {LowestOf(found)})]
    <3>1. b = [fd |-> f, d |-> e]
      BY <2>2 DEF OpenByBusid
    <3> HIDE DEF told, found, probed, f
    <3>2. /\ DvRecord(e) /\ e.fds = DvWith(dv.fds, f, LowestOf(found))
          /\ e.hw = dv.hw /\ e.conn = dv.conn /\ e.held = dv.held /\ e.ent = dv.ent
      BY <1>2 DEF DvRecord
    <3> HIDE DEF e
    <3> QED BY <2>2, <3>1, <3>2
  <2> QED BY <2>1, <2>2
<1>4. found # {} => LowestOf(found) \in found
  BY LowestFound DEF DvTypeOK, Candidates
<1>5. ASSUME b.fd \in Nat, \A m \in Present(dv) : dv.hw.ver[m] = "1.4"
      PROVE  dv.hw.bus[b.d.fds[b.fd]] = bus
  <2>1. found # {} /\ b.fd = f /\ b.d.fds = DvWith(dv.fds, f, LowestOf(found))
    BY <1>3, <1>5
  <2>2. LowestOf(found) \in Present(dv) /\ MatchBusid(dv.hw.bus[LowestOf(found)], bus, TRUE)
    BY <1>4, <1>5, <2>1 DEF Candidates, DomainIgnored
  <2>3. b.d.fds[b.fd] = LowestOf(found)
    BY <2>1 DEF DvWith
  <2> QED BY <2>2, <2>3 DEF MatchBusid
<1> HIDE DEF found, told, b, f
<1>6. b.fd = -1 \/ b.fd \in Nat
  BY <1>1, <1>3
<1>7. CASE r = b
  BY <1>1, <1>3, <1>5, <1>7 DEF b
<1>8. CASE r # b
  <2> DEFINE named == {m \in Present(b.d) : b.d.hw.driver[m] = name /\ m \notin b.d.claimed}
             e == [b.d EXCEPT !.fds = DvWith(@, f, LowestOf(named))]
  <2>1. b.fd = -1 /\ b.d.fds = dv.fds /\ r = OpenByName(b.d, name)
    <3>1. r = IF b.fd >= 0 \/ name = "" THEN b ELSE OpenByName(b.d, name)
      BY DEF Open, b
    <3> HIDE DEF r
    <3>2. ~(b.fd >= 0) /\ r = OpenByName(b.d, name)
      BY <1>8, <3>1
    <3> QED BY <1>1, <1>3, <1>6, <3>2
  <2>2. NextFd(b.d) = f
    BY <2>1 DEF NextFd, FreeFds, f
  <2>3. r = IF named = {} THEN [fd |-> -1, d |-> b.d] ELSE [fd |-> f, d |-> e]
    BY <2>1, <2>2 DEF OpenByName
  <2>5. CASE named = {}
    <3>1. r.fd = -1 /\ r.d = b.d
      BY <2>3, <2>5
    <3> QED BY <1>3, <2>1, <3>1
  <2>6. CASE named # {}
    <3>1. /\ DvRecord(e) /\ e.fds = DvWith(dv.fds, f, LowestOf(named))
          /\ e.hw = dv.hw /\ e.conn = dv.conn /\ e.held = dv.held /\ e.ent = dv.ent
      BY <1>3, <2>1 DEF DvRecord
    <3>2. r.fd = f /\ r.d = e
      BY <2>3, <2>6
    <3>3. f # b.fd
      BY <1>1, <2>1
    <3> HIDE DEF e, named, r
    <3> QED BY <1>1, <3>1, <3>2, <3>3 DEF b, r
  <2> QED BY <2>5, <2>6
<1> QED BY <1>7, <1>8

(* What the parts of DevicesSound need of a step that leaves the table of  *)
(* connections alone: descriptors in use stay where they are.              *)
LEMMA TableUntouched ==
  ASSUME DvInv, DvRecord(dv'), dv'.hw = dv.hw, dv'.conn = dv.conn,
         DOMAIN dv'.held = DOMAIN dv.held, \A f \in DOMAIN dv.held : dv'.held[f] = dv.held[f],
         \A i \in DOMAIN dv.conn : /\ dv.conn[i].fd \in DOMAIN dv'.fds
                                   /\ dv'.fds[dv.conn[i].fd] = dv.fds[dv.conn[i].fd],
         NoStaleTags'
  PROVE  DvInv'
<1>1. DvTypeOK'
  BY DEF DvInv, DvTypeOK
<1>2. \A f : Holders(f)' = Holders(f)
  BY DEF Holders
<1>3. ConnectionsExact'
  BY <1>2 DEF DvInv, DevicesSound, ConnectionsExact, Present
<1> QED BY <1>1, <1>3 DEF DvInv, DevicesSound

(* The tags after a descriptor is added.                                   *)
LEMMA TagsAfterOpen ==
  ASSUME NoStaleTags, dv'.ent = dv.ent,
         dv'.fds = dv.fds \/ \E f, m : f \notin DOMAIN dv.fds /\ dv'.fds = DvWith(dv.fds, f, m)
  PROVE  NoStaleTags'
<1>1. \A g \in DOMAIN dv.fds : g \in DOMAIN dv'.fds /\ dv'.fds[g] = dv.fds[g]
  BY DEF DvWith
<1> QED BY <1>1 DEF NoStaleTags, Opened

(* drmClose takes the tag table of the device along, so that no table is   *)
(* left without a descriptor.                                              *)
LEMMA ClosedLeaves ==
  ASSUME DvTypeOK, NoStaleTags, NEW f \in DOMAIN dv.fds
  PROVE  LET e == Closed(dv, f)
         IN  /\ DvRecord(e)
             /\ e.hw = dv.hw /\ e.conn = dv.conn /\ e.held = dv.held
             /\ e.fds = DvDrop(dv.fds, f)
             /\ DOMAIN e.ent \subseteq {e.fds[g] : g \in DOMAIN e.fds}
<1> DEFINE w == [dv EXCEPT !.ent = DvDrop(@, dv.fds[f])]
           x == [w EXCEPT !.fds = DvDrop(@, f)]
           e == [x EXCEPT !.claimed = @ \cap Opened(x)]
<1>1. /\ DvRecord(w) /\ w.hw = dv.hw /\ w.conn = dv.conn /\ w.held = dv.held /\ w.fds = dv.fds
      /\ w.ent = DvDrop(dv.ent, dv.fds[f])
  BY DEF DvTypeOK, DvRecord
<1> HIDE DEF w
<1>2. /\ DvRecord(x) /\ x.hw = dv.hw /\ x.conn = dv.conn /\ x.held = dv.held
      /\ x.fds = DvDrop(dv.fds, f) /\ x.ent = DvDrop(dv.ent, dv.fds[f])
  BY <1>1 DEF DvRecord
<1> HIDE DEF x
<1>3. /\ DvRecord(e) /\ e.hw = dv.hw /\ e.conn = dv.conn /\ e.held = dv.held
      /\ e.fds = DvDrop(dv.fds, f) /\ e.ent = DvDrop(dv.ent, dv.fds[f])
  BY <1>2 DEF DvRecord
<1>4. e = Closed(dv, f)
  BY DEF Closed, CloseFd, w, x
<1> HIDE DEF e
<1>5. \A m \in DOMAIN e.ent : \E g \in DOMAIN e.fds : e.fds[g] = m
  BY <1>3 DEF NoStaleTags, Opened, DvDrop
<1> QED BY <1>3, <1>4, <1>5

(* No connection is remembered at first.                                   *)
LEMMA DvInitInv == DvInit => DvInv
<1> SUFFICES ASSUME DvInit PROVE DvInv
  OBVIOUS
<1>1. PICK hw \in DvMachines :
        dv = [hw |-> hw, fds |-> << >>, claimed |-> {}, conn |-> << >>, held |-> << >>, ent |-> << >>]
  BY DEF DvInit
<1>2. dv.hw = hw /\ dv.conn = << >> /\ dv.held = << >> /\ dv.ent = << >> /\ DvRecord(dv)
  BY <1>1 DEF DvRecord
<1>3. DOMAIN << >> = {} /\ << >> \in Seq(Conns)
  OBVIOUS
<1> QED BY <1>2, <1>3 DEF DvInv, DvTypeOK, DevicesSound, ConnectionsExact, NoStaleTags

(* drmOpen by itself, and a drmOpenOnce whose connection is not remembered.*)
LEMMA OpenKeeps ==
  ASSUME DvInv, FreeFds(dv) # {}, NEW name, NEW bus, dv' = Open(dv, name, bus).d
  PROVE  DvInv'
<1> DEFINE r == Open(dv, name, bus)
<1>1. /\ DvRecord(r.d)
      /\ r.d.hw = dv.hw /\ r.d.conn = dv.conn /\ r.d.held = dv.held /\ r.d.ent = dv.ent
      /\ \/ r.fd = -1 /\ r.d.fds = dv.fds
         \/ /\ r.fd \in Nat /\ r.fd \notin DOMAIN dv.fds
            /\ \E m : r.d.fds = DvWith(dv.fds, r.fd, m)
  BY OpenAddsOne DEF DvInv
<1>2. dv' = r.d
  OBVIOUS
<1> HIDE DEF r
<1>3. NoStaleTags'
  BY <1>1, <1>2, TagsAfterOpen DEF DvInv, DevicesSound
<1>4. \A i \in DOMAIN dv.conn : dv.conn[i].fd \in DOMAIN dv.fds
  BY DEF DvInv, DevicesSound, ConnectionsExact
<1>5. \A i \in DOMAIN dv.conn : /\ dv.conn[i].fd \in DOMAIN dv'.fds
                                /\ dv'.fds[dv.conn[i].fd] = dv.fds[dv.conn[i].fd]
  BY ZenonT(40), <1>1, <1>2, <1>4 DEF DvWith
<1> QED BY <1>1, <1>2, <1>3, <1>5, TableUntouched

(* drmOpenOnce of a bus id seen before and drmCloseOnce that leaves other  *)
(* holders change the count of the entry and of the holders alike.         *)
LEMMA CountKeeps ==
  ASSUME DvInv, NEW i \in DOMAIN dv.conn, NEW f, f = dv.conn[i].fd, NEW count \in Int,
         dv' = [dv EXCEPT !.conn[i].refcount = count, !.held = DvWith(@, f, count)]
  PROVE  DvInv'
<1> DEFINE x == [dv.conn[i] EXCEPT !.refcount = count]
           conn == [dv.conn EXCEPT ![i] = x]
<1>1. /\ DvRecord(dv) /\ dv.conn \in Seq(Conns) /\ dv.hw \in DvMachines
      /\ \A g \in DOMAIN dv.held : dv.held[g] \in Int
  BY DEF DvInv, DvTypeOK
<1>a. dv.conn[i] \in Conns
  BY <1>1
<1>2. /\ x \in Conns /\ x.bus = dv.conn[i].bus /\ x.fd = f
      /\ x.refcount = count /\ x.named = dv.conn[i].named
  BY <1>a DEF Conns
<1> HIDE DEF x
<1>3. /\ conn \in Seq(Conns) /\ DOMAIN conn = DOMAIN dv.conn /\ conn[i] = x
      /\ \A j \in DOMAIN dv.conn \ {i} : conn[j] = dv.conn[j]
  BY <1>1, <1>2
<1>4. /\ DvRecord(dv') /\ dv'.hw = dv.hw /\ dv'.fds = dv.fds /\ dv'.ent = dv.ent
      /\ dv'.conn = conn
      /\ dv'.held = DvWith(dv.held, f, count)
  BY <1>1 DEF DvRecord, x
<1> HIDE DEF conn
<1>6. /\ DOMAIN dv'.held = DOMAIN dv.held \cup {f}
      /\ dv'.held[f] = count
      /\ \A g \in DOMAIN dv.held \ {f} : dv'.held[g] = dv.held[g]
  BY <1>4 DEF DvWith
<1>7. DvTypeOK'
  BY <1>1, <1>3, <1>4, <1>6 DEF DvTypeOK
<1>8. /\ HoldersIn(dv', f) = count
      /\ \A g : g # f => HoldersIn(dv', g) = HoldersIn(dv, g)
  BY <1>6 DEF Holders, HoldersIn
<1>9. \A k \in DOMAIN dv.conn : ConnExact(dv, k)
  BY ExactEntries DEF DvInv, DevicesSound
<1>10. ConnectionsExact'
  <2> SUFFICES ASSUME NEW k \in DOMAIN dv.conn PROVE ConnExact(dv', k)
    BY <1>3, <1>4, ExactEntries
  <2>1. \A j \in DOMAIN dv.conn : conn[j].fd = dv.conn[j].fd /\ conn[j].bus = dv.conn[j].bus
    BY <1>2, <1>3
  <2>2. conn[k].named = dv.conn[k].named
    BY <1>2, <1>3
  <2>3. conn[k].refcount = HoldersIn(dv', conn[k].fd)
    <3>1. conn[k].fd = dv.conn[k].fd
      BY <2>1
    <3>2. CASE k = i
      BY ZenonT(30), <1>2, <1>3, <1>8, <3>2
    <3>3. CASE k # i
      <4>1. dv.conn[k].fd # f /\ dv.conn[k].refcount = HoldersIn(dv, dv.conn[k].fd)
        BY <1>9, <3>3 DEF ConnExact
      <4>2. conn[k] = dv.conn[k] /\ HoldersIn(dv', dv.conn[k].fd) = HoldersIn(dv, dv.conn[k].fd)
        BY <1>3, <1>8, <3>3, <4>1
      <4> QED BY ZenonT(30), <4>1, <4>2
    <3> QED BY <3>2, <3>3
  <2>4. /\ ConnExact(dv, k) /\ dv'.fds = dv.fds /\ Present(dv') = Present(dv) /\ dv'.hw = dv.hw
        /\ DOMAIN dv'.conn = DOMAIN dv.conn
        /\ dv'.conn[k].refcount = HoldersIn(dv', dv'.conn[k].fd)
        /\ dv'.conn[k].named = dv.conn[k].named
        /\ \A j \in DOMAIN dv.conn : /\ dv'.conn[j].fd = dv.conn[j].fd
                                     /\ dv'.conn[j].bus = dv.conn[j].bus
    BY <1>3, <1>4, <1>9, <2>1, <2>2, <2>3 DEF Present
  <2> QED BY ZenonT(40), <2>4 DEF ConnExact
<1>11. \A g \in DOMAIN dv'.held : \E j \in DOMAIN dv'.conn : dv'.conn[j].fd = g
  <2>1. \A g \in DOMAIN dv.held : \E j \in DOMAIN dv.conn : dv.conn[j].fd = g
    BY DEF DvInv, DevicesSound
  <2>2. \A j \in DOMAIN dv.conn : j \in DOMAIN dv'.conn /\ dv'.conn[j].fd = dv.conn[j].fd
    BY <1>2, <1>3, <1>4
  <2> QED BY <1>6, <2>1, <2>2
<1>12. NoStaleTags'
  BY <1>4 DEF DvInv, DevicesSound, NoStaleTags, Opened
<1> QED BY <1>7, <1>10, <1>11, <1>12 DEF DvInv, DevicesSound

(* drmOpenOnce of a new bus id adds an entry with one holder, for a        *)
(* descriptor that no other entry has.                                     *)
LEMMA RememberKeeps ==
  ASSUME DvInv, FreeFds(dv) # {}, NEW name, NEW bus \in Buses, Known(bus) = {},
         NEW fd \in Nat, fd = Open(dv, name, bus).fd,
         NEW named \in BOOLEAN, ~named => fd = OpenByBusid(dv, bus).fd,
         dv' = [Open(dv, name, bus).d EXCEPT
                  !.conn = Append(@, [bus |-> bus, fd |-> fd, refcount |-> 1, named |-> named]),
                  !.held = DvWith(@, fd, 1)]
  PROVE  DvInv'
<1> DEFINE r == Open(dv, name, bus)
           x == [bus |-> bus, fd |-> fd, refcount |-> 1, named |-> named]
           conn == Append(dv.conn, x)
           n == Len(dv.conn) + 1
<1>1. /\ DvRecord(r.d)
      /\ r.d.hw = dv.hw /\ r.d.conn = dv.conn /\ r.d.held = dv.held /\ r.d.ent = dv.ent
      /\ fd \notin DOMAIN dv.fds
      /\ \E m : r.d.fds = DvWith(dv.fds, fd, m)
      /\ (~named /\ \A m \in Present(dv) : dv.hw.ver[m] = "1.4") => dv.hw.bus[r.d.fds[fd]] = bus
  <2>1. DvTypeOK /\ r.fd = fd
    BY DEF DvInv
  <2>2. fd # -1
    OBVIOUS
  <2> QED BY <2>1, <2>2, OpenAddsOne
<1>2. x \in Conns /\ x.bus = bus /\ x.fd = fd /\ x.refcount = 1 /\ x.named = named
  BY DEF Conns
<1>3. dv' = [r.d EXCEPT !.conn = Append(@, x), !.held = DvWith(@, fd, 1)]
  OBVIOUS
<1> HIDE DEF r, x
<1>4. /\ DvRecord(dv') /\ dv'.hw = dv.hw /\ dv'.fds = r.d.fds /\ dv'.ent = dv.ent
      /\ dv'.conn = conn /\ dv'.held = DvWith(dv.held, fd, 1)
  BY <1>1, <1>3 DEF DvRecord
<1>5. dv.conn \in Seq(Conns) /\ dv.hw \in DvMachines
  BY DEF DvInv, DvTypeOK
<1>6. /\ conn \in Seq(Conns) /\ DOMAIN dv.conn = 1..(n - 1) /\ DOMAIN conn = 1..n
      /\ n \in Nat /\ conn[n] = x /\ \A j \in 1..(n - 1) : conn[j] = dv.conn[j]
  BY <1>2, <1>5
<1> HIDE DEF conn, n
<1>7. \A k \in DOMAIN dv.conn : ConnExact(dv, k)
  BY ExactEntries DEF DvInv, DevicesSound
<1>8. \A k \in DOMAIN dv.conn : dv.conn[k].fd # fd /\ dv.conn[k].bus # bus
  BY <1>1, <1>7 DEF ConnExact, Known
<1>9. fd \notin DOMAIN dv.held
  BY <1>8 DEF DvInv, DevicesSound
<1>10. /\ DOMAIN dv'.held = DOMAIN dv.held \cup {fd}
       /\ dv'.held[fd] = 1
       /\ \A g \in DOMAIN dv.held : dv'.held[g] = dv.held[g]
  BY <1>4, <1>9 DEF DvWith
<1>11. DvTypeOK'
  <2>1. \A g \in DOMAIN dv.held : dv.held[g] \in Int
    BY DEF DvInv, DvTypeOK
  <2>2. \A g \in DOMAIN dv'.held : dv'.held[g] \in Int
    BY <1>10, <2>1
  <2> QED BY <1>4, <1>5, <1>6, <2>2 DEF DvTypeOK
<1>12. /\ fd \in DOMAIN dv'.fds
       /\ \A g \in DOMAIN dv.fds : g \in DOMAIN dv'.fds /\ dv'.fds[g] = dv.fds[g]
  BY <1>1, <1>4 DEF DvWith
<1>13. /\ HoldersIn(dv', fd) = 1
       /\ \A g : g # fd => HoldersIn(dv', g) = HoldersIn(dv, g)
  BY <1>10 DEF HoldersIn
<1>14. Present(dv') = Present(dv)
  BY <1>4 DEF Present
<1>15. ASSUME NEW k \in 1..(n - 1) PROVE ConnExact(dv', k)
  <2>1. ConnExact(dv, k) /\ dv.conn[k].fd # fd /\ dv.conn[k].bus # bus /\ dv'.conn[k] = dv.conn[k]
    BY <1>4, <1>6, <1>7, <1>8
  <2>2. \A j \in DOMAIN dv'.conn \ {k} :
          dv'.conn[j].fd # dv'.conn[k].fd /\ dv'.conn[j].bus # dv'.conn[k].bus
    <3>1. \A j \in DOMAIN dv.conn \ {k} :
            dv.conn[j].fd # dv.conn[k].fd /\ dv.conn[j].bus # dv.conn[k].bus
      BY <2>1 DEF ConnExact
    <3>2. DOMAIN dv'.conn = DOMAIN dv.conn \cup {n} /\ dv'.conn[n] = x
          /\ \A j \in DOMAIN dv.conn : dv'.conn[j] = dv.conn[j]
      BY <1>4, <1>6
    <3> QED BY <1>2, <2>1, <3>1, <3>2
  <2>3. /\ dv'.conn[k].fd \in DOMAIN dv'.fds
        /\ dv'.fds[dv'.conn[k].fd] = dv.fds[dv.conn[k].fd]
        /\ dv'.conn[k].refcount = HoldersIn(dv', dv'.conn[k].fd)
    BY <1>12, <1>13, <2>1 DEF ConnExact
  <2>4. (~dv'.conn[k].named /\ \A m \in Present(dv') : dv'.hw.ver[m] = "1.4")
          => dv'.hw.bus[dv'.fds[dv'.conn[k].fd]] = dv'.conn[k].bus
    BY <1>4, <1>14, <2>1, <2>3 DEF ConnExact
  <2> QED BY <2>2, <2>3, <2>4 DEF ConnExact
<1>16. ConnExact(dv', n)
  <2>1. dv'.conn[n] = x
    BY <1>4, <1>6
  <2>2. \A j \in DOMAIN dv'.conn \ {n} :
          dv'.conn[j].fd # fd /\ dv'.conn[j].bus # bus
    BY <1>4, <1>6, <1>8
  <2> QED BY ZenonT(40), <1>1, <1>2, <1>4, <1>12, <1>13, <1>14, <2>1, <2>2 DEF ConnExact
<1>17. ConnectionsExact'
  BY <1>4, <1>6, <1>15, <1>16, ExactEntries
<1>18. \A g \in DOMAIN dv'.held : \E j \in DOMAIN dv'.conn : dv'.conn[j].fd = g
  <2>1. \A g \in DOMAIN dv.held : \E j \in DOMAIN dv.conn : dv.conn[j].fd = g
    BY DEF DvInv, DevicesSound
  <2>2. n \in DOMAIN dv'.conn /\ dv'.conn[n].fd = fd
    BY <1>2, <1>4, <1>6
  <2>3. \A j \in DOMAIN dv.conn : j \in DOMAIN dv'.conn /\ dv'.conn[j].fd = dv.conn[j].fd
    BY <1>4, <1>6
  <2>4. ASSUME NEW g \in DOMAIN dv'.held PROVE \E j \in DOMAIN dv'.conn : dv'.conn[j].fd = g
    <3>1. CASE g = fd
      BY <2>2, <3>1
    <3>2. CASE g \in DOMAIN dv.held
      BY ZenonT(40), <2>1, <2>3, <3>2
    <3> QED BY <1>10, <3>1, <3>2
  <2> QED BY <2>4
<1>19. NoStaleTags'
  BY <1>1, <1>4, TagsAfterOpen DEF DvInv, DevicesSound
<1> QED BY <1>11, <1>17, <1>18, <1>19 DEF DvInv, DevicesSound

(* drmClose of a descriptor that is not shared.                            *)
LEMMA CloseKeeps ==
  ASSUME DvInv, NEW f, drmClose(f)
  PROVE  DvInv'
<1> DEFINE e == Closed(dv, f)
<1>1. /\ f \in DOMAIN dv.fds /\ \A i \in DOMAIN dv.conn : dv.conn[i].fd # f
      /\ dv' = [e EXCEPT !.held = DvDrop(@, f)]
  BY DEF drmClose
<1>2. /\ DvRecord(e)
      /\ e.hw = dv.hw /\ e.conn = dv.conn /\ e.held = dv.held /\ e.fds = DvDrop(dv.fds, f)
      /\ DOMAIN e.ent \subseteq {e.fds[g] : g \in DOMAIN e.fds}
  BY <1>1, ClosedLeaves DEF DvInv, DevicesSound
<1> HIDE DEF e
<1>3. /\ DvRecord(dv') /\ dv'.hw = dv.hw /\ dv'.conn = dv.conn
      /\ dv'.held = DvDrop(dv.held, f) /\ dv'.fds = DvDrop(dv.fds, f) /\ dv'.fds = e.fds
      /\ dv'.ent = e.ent
  BY <1>1, <1>2 DEF DvRecord
<1>4. f \notin DOMAIN dv.held
  BY <1>1 DEF DvInv, DevicesSound
<1>5. /\ DOMAIN dv'.held = DOMAIN dv.held
      /\ \A g \in DOMAIN dv.held : dv'.held[g] = dv.held[g]
  BY <1>3, <1>4 DEF DvDrop
<1>6. NoStaleTags'
  BY <1>2, <1>3 DEF NoStaleTags, Opened
<1>7. \A i \in DOMAIN dv.conn : dv.conn[i].fd \in DOMAIN dv.fds
  BY DEF DvInv, DevicesSound, ConnectionsExact
<1>8. \A i \in DOMAIN dv.conn : /\ dv.conn[i].fd \in DOMAIN dv'.fds
                                /\ dv'.fds[dv.conn[i].fd] = dv.fds[dv.conn[i].fd]
  BY <1>1, <1>3, <1>7 DEF DvDrop
<1> QED BY <1>3, <1>5, <1>6, <1>8, TableUntouched

(* drmCloseOnce of the last holder closes the descriptor and moves the     *)
(* last entry of the table down into its place.                            *)
LEMMA LastKeeps ==
  ASSUME DvInv, NEW i \in DOMAIN dv.conn, NEW f, f = dv.conn[i].fd,
         dv' = [Closed(dv, f) EXCEPT !.conn = MovedDown(@, i), !.held = DvDrop(@, f)]
  PROVE  DvInv'
<1> DEFINE e == Closed(dv, f)
           n == Len(dv.conn)
           conn == MovedDown(dv.conn, i)
           from(j) == IF j = i THEN n ELSE j
<1>1. /\ dv.conn \in Seq(Conns) /\ dv.hw \in DvMachines
      /\ \A g \in DOMAIN dv.held : dv.held[g] \in Int
      /\ n \in Nat /\ DOMAIN dv.conn = 1..n
  BY DEF DvInv, DvTypeOK
<1>2. \A k \in DOMAIN dv.conn : ConnExact(dv, k)
  BY ExactEntries DEF DvInv, DevicesSound
<1>3. f \in DOMAIN dv.fds
  BY <1>2 DEF ConnExact
<1>4. /\ DvRecord(e)
      /\ e.hw = dv.hw /\ e.conn = dv.conn /\ e.held = dv.held /\ e.fds = DvDrop(dv.fds, f)
      /\ DOMAIN e.ent \subseteq {e.fds[g] : g \in DOMAIN e.fds}
  BY <1>3, ClosedLeaves DEF DvInv, DevicesSound
<1> HIDE DEF e
<1>5. /\ DvRecord(dv') /\ dv'.hw = dv.hw /\ dv'.conn = conn
      /\ dv'.held = DvDrop(dv.held, f) /\ dv'.fds = DvDrop(dv.fds, f) /\ dv'.fds = e.fds
      /\ dv'.ent = e.ent
  BY <1>4 DEF DvRecord, e
<1>6. /\ DOMAIN conn = 1..(n - 1)
      /\ \A j \in 1..(n - 1) : from(j) \in (1..n) \ {i} /\ conn[j] = dv.conn[from(j)]
      /\ \A j, k \in 1..(n - 1) : from(j) = from(k) => j = k
      /\ \A k \in (1..n) \ {i} : \E j \in 1..(n - 1) : from(j) = k
  <2>1. i \in 1..n
    BY <1>1
  <2>2. \A k \in (1..n) \ {i} : \E j \in 1..(n - 1) : from(j) = k
    <3> SUFFICES ASSUME NEW k \in (1..n) \ {i} PROVE \E j \in 1..(n - 1) : from(j) = k
      OBVIOUS
    <3>1. CASE k = n
      BY <1>1, <2>1, <3>1
    <3>2. CASE k # n
      BY <1>1, <2>1, <3>2
    <3> QED BY <3>1, <3>2
  <2> QED BY <1>1, <2>1, <2>2 DEF MovedDown
<1> HIDE DEF from, conn
<1>7. \A j \in 1..(n - 1) : conn[j] \in Conns
  BY <1>1, <1>6
<1>8. conn \in Seq(Conns)
  <2>1. conn = [j \in 1..(n - 1) |-> conn[j]]
    BY <1>6 DEF conn, MovedDown
  <2>2. conn \in [1..(n - 1) -> Conns]
    BY <1>7, <2>1
  <2>3. CASE n = 0
    BY <1>1, <2>3
  <2>4. CASE n - 1 \in Nat
    BY <2>2, <2>4, SeqDef
  <2> QED BY <1>1, <2>3, <2>4
<1>9. \A k \in (1..n) \ {i} : dv.conn[k].fd # f
  BY <1>1, <1>2 DEF ConnExact
<1>10. /\ DOMAIN dv'.held = DOMAIN dv.held \ {f}
       /\ \A g \in DOMAIN dv.held \ {f} : dv'.held[g] = dv.held[g]
       /\ DOMAIN dv'.fds = DOMAIN dv.fds \ {f}
       /\ \A g \in DOMAIN dv.fds \ {f} : dv'.fds[g] = dv.fds[g]
  BY ZenonT(40), <1>5 DEF DvDrop
<1>11. DvTypeOK'
  BY <1>1, <1>5, <1>8, <1>10 DEF DvTypeOK
<1>12. \A g : g # f => HoldersIn(dv', g) = HoldersIn(dv, g)
  BY <1>10 DEF HoldersIn
<1>13. ConnectionsExact'
  <2> SUFFICES ASSUME NEW k \in 1..(n - 1) PROVE ConnExact(dv', k)
    BY <1>5, <1>6, ExactEntries
  <2>1. PICK l \in (1..n) \ {i} : l = from(k) /\ dv'.conn[k] = dv.conn[l]
    BY <1>5, <1>6
  <2>2. ConnExact(dv, l) /\ dv.conn[l].fd # f
    BY <1>1, <1>2, <1>9, <2>1
  <2>3. \A j \in DOMAIN dv'.conn \ {k} :
          dv'.conn[j].fd # dv'.conn[k].fd /\ dv'.conn[j].bus # dv'.conn[k].bus
    <3> SUFFICES ASSUME NEW j \in (1..(n - 1)) \ {k}
                 PROVE  dv'.conn[j].fd # dv'.conn[k].fd /\ dv'.conn[j].bus # dv'.conn[k].bus
      BY <1>5, <1>6
    <3>1. from(j) \in DOMAIN dv.conn \ {l} /\ dv'.conn[j] = dv.conn[from(j)]
      BY <1>1, <1>5, <1>6, <2>1
    <3> QED BY <2>1, <2>2, <3>1 DEF ConnExact
  <2>4. /\ dv'.conn[k].fd \in DOMAIN dv'.fds
        /\ dv'.fds[dv'.conn[k].fd] = dv.fds[dv.conn[l].fd]
        /\ dv'.conn[k].refcount = HoldersIn(dv', dv'.conn[k].fd)
    <3>1. dv.conn[l].fd \in DOMAIN dv.fds \ {f} /\ dv.conn[l].refcount = HoldersIn(dv, dv.conn[l].fd)
      BY <2>2 DEF ConnExact
    <3> QED BY ZenonT(40), <1>10, <1>12, <2>1, <3>1
  <2>5. (~dv'.conn[k].named /\ \A m \in Present(dv') : dv'.hw.ver[m] = "1.4")
          => dv'.hw.bus[dv'.fds[dv'.conn[k].fd]] = dv'.conn[k].bus
    BY <1>5, <2>1, <2>2, <2>4 DEF ConnExact, Present
  <2> QED BY <2>3, <2>4, <2>5 DEF ConnExact
<1>14. ASSUME NEW g \in DOMAIN dv'.held PROVE \E j \in DOMAIN dv'.conn : dv'.conn[j].fd = g
  <2>1. g # f /\ g \in DOMAIN dv.held
    BY <1>10
  <2>2. PICK k \in 1..n : dv.conn[k].fd = g
    BY <1>1, <2>1 DEF DvInv, DevicesSound
  <2>3. k # i
    BY <2>1, <2>2
  <2>4. PICK j \in 1..(n - 1) : from(j) = k
    BY <1>6, <2>3
  <2>5. j \in DOMAIN dv'.conn /\ dv'.conn[j] = dv.conn[k]
    BY <1>5, <1>6, <2>4
  <2> QED BY ZenonT(30), <2>2, <2>5
<1>15. NoStaleTags'
  BY <1>4, <1>5 DEF NoStaleTags, Opened
<1> QED BY <1>11, <1>13, <1>14, <1>15 DEF DvInv, DevicesSound

(* drmAddContextTag and drmDelContextTag use the table of an open device.  *)
LEMMA TagKeeps ==
  ASSUME DvInv, NEW f \in DOMAIN dv.fds, NEW m, m = dv.fds[f], NEW tags,
         dv' = [dv EXCEPT !.ent = DvWith(@, m, tags)]
  PROVE  DvInv'
<1>1. /\ DvRecord(dv') /\ dv'.hw = dv.hw /\ dv'.conn = dv.conn /\ dv'.held = dv.held
      /\ dv'.fds = dv.fds /\ dv'.ent = DvWith(dv.ent, m, tags)
  BY DEF DvInv, DvTypeOK, DvRecord
<1>2. NoStaleTags'
  BY <1>1 DEF DvInv, DevicesSound, NoStaleTags, Opened, DvWith
<1>3. \A i \in DOMAIN dv.conn : dv.conn[i].fd \in DOMAIN dv.fds
  BY DEF DvInv, DevicesSound, ConnectionsExact
<1> QED BY <1>1, <1>2, <1>3, TableUntouched

(* Every call preserves the invariant.                                     *)
LEMMA DvNextInv ==
  ASSUME DvInv, [DvNext]_dv
  PROVE  DvInv'
<1>1. CASE UNCHANGED dv
  <2>1. \A i \in DOMAIN dv.conn : dv.conn[i].fd \in DOMAIN dv.fds
    BY DEF DvInv, DevicesSound, ConnectionsExact
  <2>2. NoStaleTags'
    BY <1>1 DEF DvInv, DevicesSound, NoStaleTags, Opened
  <2> QED BY <1>1, <2>1, <2>2, TableUntouched DEF DvInv, DvTypeOK
<1>2. ASSUME NEW bus \in Buses, NEW name, drmOpen(name, bus)
      PROVE  DvInv'
  BY <1>2, OpenKeeps DEF drmOpen
<1>3. ASSUME NEW bus \in Buses, NEW name, drmOpenOnce(name, bus)
      PROVE  DvInv'
  <2>1. ASSUME NEW i \in Known(bus), NEW f, f = dv.conn[i].fd,
               dv' = [dv EXCEPT !.conn[i].refcount = @ + 1, !.held = DvWith(@, f, Holders(f) + 1)]
        PROVE  DvInv'
    <3>1. i \in DOMAIN dv.conn /\ dv.conn \in Seq(Conns)
      BY DEF Known, DvInv, DvTypeOK
    <3>2. dv.conn[i] \in Conns
      BY <3>1
    <3>3. dv.conn[i].refcount \in Int /\ dv.conn[i].refcount = Holders(f)
      BY <2>1, <3>1, <3>2 DEF Conns, DvInv, DevicesSound, ConnectionsExact
    <3>4. PICK count \in Int : Holders(f) + 1 = count /\ dv.conn[i].refcount + 1 = count
      BY <3>3
    <3>5. dv' = [dv EXCEPT !.conn[i].refcount = count, !.held = DvWith(@, f, count)]
      BY <2>1, <3>4, Zenon
    <3>6. f = dv.conn[i].fd
      BY <2>1
    <3> QED BY <3>1, <3>5, <3>6, CountKeeps, Zenon
  <2>2. ASSUME Known(bus) = {}, FreeFds(dv) # {}, dv' = Open(dv, name, bus).d
        PROVE  DvInv'
    BY <2>2, OpenKeeps
  <2> DEFINE r == Open(dv, name, bus)
             new == [bus |-> bus, fd |-> r.fd, refcount |-> 1, named |-> r.fd # OpenByBusid(dv, bus).fd]
  <2>3. ASSUME Known(bus) = {}, FreeFds(dv) # {}, ~(r.fd <= 0),
               dv' = [r.d EXCEPT !.conn = Append(@, new), !.held = DvWith(@, r.fd, 1)]
        PROVE  DvInv'
    <3>1. r.fd = -1 \/ r.fd \in Nat
      BY <2>3, OpenAddsOne DEF DvInv
    <3>2. PICK fd \in Nat : fd = r.fd
      BY <2>3, <3>1
    <3>3. PICK named \in BOOLEAN : named = (r.fd # OpenByBusid(dv, bus).fd)
      OBVIOUS
    <3>4. new = [bus |-> bus, fd |-> fd, refcount |-> 1, named |-> named]
      BY <3>2, <3>3
    <3>5. ~named => fd = OpenByBusid(dv, bus).fd
      BY <3>2, <3>3
    <3> QED BY <2>3, <3>2, <3>4, <3>5, RememberKeeps
  <2> QED BY <1>3, <2>1, <2>2, <2>3 DEF drmOpenOnce
<1>4. ASSUME NEW f \in DvFds, drmClose(f)
      PROVE  DvInv'
  BY <1>4, CloseKeeps
<1>5. ASSUME NEW f \in DvFds, drmCloseOnce(f)
      PROVE  DvInv'
  <2>1. PICK i \in DOMAIN dv.conn :
          /\ dv.conn[i].fd = f
          /\ dv' = IF dv.conn[i].refcount > 1
                   THEN [dv EXCEPT !.conn[i].refcount = @ - 1, !.held = DvWith(@, f, Holders(f) - 1)]
                   ELSE [Closed(dv, f) EXCEPT !.conn = MovedDown(@, i), !.held = DvDrop(@, f)]
    BY <1>5 DEF drmCloseOnce
  <2>2. CASE dv.conn[i].refcount > 1
    <3>1. dv.conn \in Seq(Conns)
      BY DEF DvInv, DvTypeOK
    <3>2. dv.conn[i] \in Conns
      BY <3>1
    <3>3. dv.conn[i].refcount \in Int /\ dv.conn[i].refcount = Holders(f)
      BY <2>1, <3>1, <3>2 DEF Conns, DvInv, DevicesSound, ConnectionsExact
    <3>4. PICK count \in Int : Holders(f) - 1 = count /\ dv.conn[i].refcount - 1 = count
      BY <3>3
    <3>5. dv' = [dv EXCEPT !.conn[i].refcount = count, !.held = DvWith(@, f, count)]
      BY <2>1, <2>2, <3>4, Zenon
    <3>6. f = dv.conn[i].fd
      BY <2>1
    <3> QED BY <3>1, <3>5, <3>6, CountKeeps, Zenon
  <2>3. CASE ~(dv.conn[i].refcount > 1)
    BY <2>1, <2>3, LastKeeps
  <2> QED BY <2>2, <2>3
<1>6. ASSUME NEW f \in DvFds, NEW ctx \in DvContexts,
             drmAddContextTag(f, ctx) \/ drmDelContextTag(f, ctx)
      PROVE  DvInv'
  <2>1. f \in DOMAIN dv.fds
    BY <1>6 DEF drmAddContextTag, drmDelContextTag
  <2>2. PICK m, tags : m = dv.fds[f] /\ dv' = [dv EXCEPT !.ent = DvWith(@, m, tags)]
    BY <1>6 DEF drmAddContextTag, drmDelContextTag
  <2> QED BY <2>1, <2>2, TagKeeps
<1> QED BY <1>1, <1>2, <1>3, <1>4, <1>5, <1>6 DEF DvNext, Buses

(* On any machine and for any number of descriptors, the table of shared   *)
(* connections counts its holders exactly, no two of its entries share a   *)
(* descriptor or a bus id, and no tag table outlives the last descriptor   *)
(* of its device (DevicesSound).                                           *)
THEOREM ConnectionsShared == DvSpec => []DevicesSound
<1>1. DvInit => DvInv
  BY DvInitInv
<1>2. DvInv /\ [DvNext]_dv => DvInv'
  BY DvNextInv
<1>3. DvInv => DevicesSound
  BY DEF DvInv
<1> QED BY <1>1, <1>2, <1>3, PTL DEF DvSpec
-----------------------------------------------------------------------------
(* With gcc's __sync builtins the reference count is exact and an object   *)
(* is freed exactly when its last reference is given back, for any number  *)
(* of threads and references.                                              *)

(* Threads that start or finish giving a reference back.                   *)
LEMMA PendingCount ==
  ASSUME RefTypeOK
  PROVE  /\ IsFiniteSet(Pending)
         /\ Cardinality(Pending) \in Nat
         /\ \A t \in Threads \ Pending :
              Cardinality(Pending \cup {t}) = Cardinality(Pending) + 1
         /\ \A t \in Pending : Cardinality(Pending \ {t}) = Cardinality(Pending) - 1
         /\ \A t \in Pending : Cardinality(Pending) >= 1
         /\ Cardinality(Pending) = 0 <=> Pending = {}
<1>1. IsFiniteSet(Pending) /\ Cardinality(Pending) \in Nat
  BY ThreadsAssumption, FS_Subset, FS_CardinalityType DEF Pending
<1>2. \A t \in Threads \ Pending : Cardinality(Pending \cup {t}) = Cardinality(Pending) + 1
  BY <1>1, FS_AddElement
<1>3. \A t \in Pending : /\ IsFiniteSet(Pending \ {t})
                         /\ Cardinality(Pending \ {t}) = Cardinality(Pending) - 1
  BY <1>1, FS_RemoveElement
<1>4. \A t \in Pending : Cardinality(Pending \ {t}) \in Nat
  BY <1>3, FS_CardinalityType
<1>5. Cardinality(Pending) = 0 <=> Pending = {}
  BY <1>1, FS_EmptySet
<1> QED BY <1>1, <1>2, <1>3, <1>4, <1>5

(* A new object has one reference and nobody is giving it back.            *)
LEMMA RefInitInv == RefInit => RefInv
<1> SUFFICES ASSUME RefInit PROVE RefInv
  OBVIOUS
<1>1. RefTypeOK
  <2>1. refcount \in Int /\ refs \in Nat /\ lock \in Threads \cup {NoThread}
    BY DEF RefInit
  <2>2. pc \in [Threads -> {"idle", "compare", "lock", "locked"}]
    BY DEF RefInit
  <2>3. c \in [Threads -> Int]
    BY DEF RefInit
  <2>4. freed \in BOOLEAN
    BY DEF RefInit
  <2> QED BY <2>1, <2>2, <2>3, <2>4 DEF RefTypeOK
<1>2. Pending = {}
  BY DEF RefInit, Pending
<1>3. Cardinality(Pending) = 0
  BY <1>2, FS_EmptySet
<1>4. CountExact /\ FreedUnreferenced /\ (~freed => refcount >= 1)
  BY <1>3 DEF RefInit, CountExact, FreedUnreferenced
<1>5. \A t \in Threads : pc[t] = "idle" /\ lock # t
  BY ThreadsAssumption DEF RefInit
<1> QED BY <1>1, <1>4, <1>5 DEF RefInv

(* Every step of every thread preserves the invariant.                     *)
LEMMA RefNextInv ==
  ASSUME Build = "sync", RefInv, [RefNext]_vars
  PROVE  RefInv'
<1> DEFINE n == Cardinality(Pending)
<1>1. /\ RefTypeOK /\ CountExact /\ FreedUnreferenced
      /\ ~freed => refcount >= 1
      /\ \A t \in Threads : pc[t] = "compare" => c[t] # 1
      /\ \A t \in Threads : pc[t] = "locked" <=> lock = t
  BY DEF RefInv
<1>2. /\ n \in Nat
      /\ \A t \in Threads \ Pending : Cardinality(Pending \cup {t}) = n + 1
      /\ \A t \in Pending : Cardinality(Pending \ {t}) = n - 1
      /\ \A t \in Pending : n >= 1
      /\ n = 0 <=> Pending = {}
  BY <1>1, PendingCount
<1>3. CASE UNCHANGED vars
  BY <1>1, <1>3 DEF vars, RefInv, RefTypeOK, CountExact, FreedUnreferenced, Pending
<1>4. CASE Create
  <2>1. Pending' = Pending /\ Pending = {}
    BY <1>4 DEF Create, Pending
  <2>2. CountExact' /\ FreedUnreferenced' /\ (~freed => refcount >= 1)'
    BY <1>2, <1>4, <2>1 DEF Create, CountExact, FreedUnreferenced
  <2>3. RefTypeOK'
    <3>1. refcount' \in Int /\ refs' \in Nat /\ UNCHANGED << lock, pc, c >>
      BY <1>4 DEF Create
    <3>2. freed' \in BOOLEAN
      BY <1>4 DEF Create
    <3> QED BY <1>1, <3>1, <3>2 DEF RefTypeOK
  <2> QED BY <1>1, <1>4, <2>2, <2>3 DEF Create, RefInv
<1>5. ASSUME NEW t \in Threads, Reference(t) PROVE RefInv'
  <2>1. Pending' = Pending
    BY <1>5 DEF Reference, Pending
  <2>2. RefTypeOK'
    BY <1>1, <1>5 DEF Reference, RefTypeOK
  <2>3. CountExact' /\ FreedUnreferenced' /\ (~freed => refcount >= 1)'
    BY <1>1, <1>2, <1>5, <2>1 DEF Reference, RefTypeOK, CountExact, FreedUnreferenced
  <2> QED BY <1>1, <1>5, <2>2, <2>3 DEF Reference, RefInv
<1>6. ASSUME NEW t \in Threads, Revive(t) PROVE RefInv'
  <2>1. Pending' = Pending
    BY <1>6 DEF Revive, Pending
  <2>2. RefTypeOK'
    BY <1>1, <1>6 DEF Revive, RefTypeOK
  <2>3. CountExact' /\ FreedUnreferenced' /\ (~freed => refcount >= 1)'
    BY <1>1, <1>2, <1>6, <2>1 DEF Revive, RefTypeOK, CountExact, FreedUnreferenced
  <2> QED BY <1>1, <1>6, <2>2, <2>3 DEF Revive, RefInv
<1>7. ASSUME NEW t \in Threads, Unreference(t) PROVE RefInv'
  <2>1. Pending' = Pending \cup {t} /\ t \notin Pending
    BY <1>1, <1>7 DEF Unreference, Pending, RefTypeOK
  <2>2. RefTypeOK'
    BY <1>1, <1>7 DEF Unreference, RefTypeOK
  <2>3. ~freed
    BY <1>1, <1>7 DEF Unreference, FreedUnreferenced, RefTypeOK
  <2>4. Cardinality(Pending') = n + 1
    BY <1>2, <2>1
  <2>5. CountExact' /\ FreedUnreferenced' /\ (~freed => refcount >= 1)'
    BY <1>1, <1>2, <1>7, <2>3, <2>4 DEF Unreference, RefTypeOK, CountExact, FreedUnreferenced
  <2>6. (\A u \in Threads : pc[u] = "compare" => c[u] # 1)'
    BY <1>1, <1>7 DEF Unreference, RefTypeOK
  <2>7. (\A u \in Threads : pc[u] = "locked" <=> lock = u)'
    BY <1>1, <1>7 DEF Unreference, RefTypeOK
  <2> QED BY <2>2, <2>5, <2>6, <2>7 DEF RefInv
<1>8. ASSUME NEW t \in Threads, CompareAndSwap(t) PROVE RefInv'
  <2>1. /\ pc[t] = "compare" /\ c[t] # 1 /\ t \in Pending /\ n >= 1
        /\ CmpxchgResult(refcount, c[t]) = refcount
    BY <1>1, <1>2, <1>8 DEF CompareAndSwap, CmpxchgResult, Pending
  <2>2. ~freed
    BY <1>1, <2>1 DEF FreedUnreferenced
  <2>3. CASE refcount = c[t]
    <3>1. /\ refcount' = refcount - 1 /\ c' = [c EXCEPT ![t] = refcount]
          /\ pc' = [pc EXCEPT ![t] = "idle"]
          /\ UNCHANGED << refs, lock, freed >>
      BY <1>8, <2>1, <2>3 DEF CompareAndSwap
    <3>2. Pending' = Pending \ {t}
      BY <1>1, <3>1 DEF Pending, RefTypeOK
    <3>3. Cardinality(Pending') = n - 1
      BY <1>2, <2>1, <3>2
    <3>4. RefTypeOK'
      BY <1>1, <3>1 DEF RefTypeOK
    <3>5. CountExact' /\ FreedUnreferenced' /\ (~freed => refcount >= 1)'
      BY <1>1, <1>2, <2>1, <2>2, <2>3, <3>1, <3>3 DEF CountExact, FreedUnreferenced, RefTypeOK
    <3>6. (\A u \in Threads : pc[u] = "compare" => c[u] # 1)'
      BY <1>1, <3>1 DEF RefTypeOK
    <3>7. (\A u \in Threads : pc[u] = "locked" <=> lock = u)'
      BY <1>1, <2>1, <3>1 DEF RefTypeOK
    <3> QED BY <3>4, <3>5, <3>6, <3>7 DEF RefInv
  <2>4. CASE refcount # c[t]
    <3>1. /\ refcount' = refcount /\ c' = [c EXCEPT ![t] = refcount]
          /\ pc' = [pc EXCEPT ![t] = IF refcount = 1 THEN "lock" ELSE "compare"]
          /\ UNCHANGED << refs, lock, freed >>
      BY <1>8, <2>1, <2>4 DEF CompareAndSwap
    <3>2. Pending' = Pending
      BY <1>1, <2>1, <3>1 DEF Pending, RefTypeOK
    <3>4. RefTypeOK'
      BY <1>1, <3>1 DEF RefTypeOK
    <3>5. CountExact' /\ FreedUnreferenced' /\ (~freed => refcount >= 1)'
      BY <1>1, <2>2, <3>1, <3>2 DEF CountExact, FreedUnreferenced
    <3>6. (\A u \in Threads : pc[u] = "compare" => c[u] # 1)'
      BY <1>1, <3>1 DEF RefTypeOK
    <3>7. (\A u \in Threads : pc[u] = "locked" <=> lock = u)'
      BY <1>1, <2>1, <3>1 DEF RefTypeOK
    <3> QED BY <3>4, <3>5, <3>6, <3>7 DEF RefInv
  <2> QED BY <2>3, <2>4
<1>9. ASSUME NEW t \in Threads, Lock(t) PROVE RefInv'
  <2>1. Pending' = Pending
    BY <1>1, <1>9 DEF Lock, Pending, RefTypeOK
  <2>2. RefTypeOK'
    BY <1>1, <1>9 DEF Lock, RefTypeOK
  <2>3. CountExact' /\ FreedUnreferenced' /\ (~freed => refcount >= 1)'
    BY <1>1, <1>9, <2>1 DEF Lock, CountExact, FreedUnreferenced
  <2>4. (\A u \in Threads : pc[u] = "compare" => c[u] # 1)'
    BY <1>1, <1>9 DEF Lock, RefTypeOK
  <2>5. (\A u \in Threads : pc[u] = "locked" <=> lock = u)'
    BY <1>1, <1>9, ThreadsAssumption DEF Lock, RefTypeOK
  <2> QED BY <2>2, <2>3, <2>4, <2>5 DEF RefInv
<1>10. ASSUME NEW t \in Threads, DecAndTest(t) PROVE RefInv'
  <2>1. /\ pc[t] = "locked" /\ t \in Pending /\ n >= 1 /\ lock = t
        /\ Pending' = Pending \ {t}
    BY <1>1, <1>2, <1>10 DEF DecAndTest, Pending, RefTypeOK
  <2>2. ~freed /\ refcount >= 1 /\ refcount = refs + n
    BY <1>1, <2>1 DEF FreedUnreferenced, CountExact
  <2>3. Cardinality(Pending') = n - 1 /\ (n - 1 = 0 => Pending \ {t} = {})
    <3>1. IsFiniteSet(Pending \ {t}) /\ Cardinality(Pending \ {t}) = n - 1
      BY <1>1, <1>2, <2>1, PendingCount, FS_RemoveElement
    <3>2. Cardinality(Pending \ {t}) = 0 => Pending \ {t} = {}
      BY <3>1, FS_EmptySet
    <3> QED BY <2>1, <3>1, <3>2
  <2>4. freed' <=> refcount = 1
    BY <1>10, <2>2 DEF DecAndTest, DecTestsTrue
  <2>5. RefTypeOK'
    BY <1>1, <1>10, <2>2, <2>4 DEF DecAndTest, RefTypeOK, DecTestsTrue
  <2>6. CountExact' /\ (~freed => refcount >= 1)'
    BY <1>1, <1>2, <1>10, <2>2, <2>3, <2>4 DEF DecAndTest, CountExact, RefTypeOK
  <2>7. FreedUnreferenced'
    <3>1. ASSUME freed' PROVE refs' = 0 /\ n - 1 = 0
      BY <1>1, <1>2, <1>10, <2>1, <2>2, <2>4, <3>1 DEF DecAndTest, RefTypeOK
    <3> QED BY <2>1, <2>3, <3>1 DEF FreedUnreferenced
  <2>8. (\A u \in Threads : pc[u] = "compare" => c[u] # 1)'
    BY <1>1, <1>10 DEF DecAndTest, RefTypeOK
  <2>9. (\A u \in Threads : pc[u] = "locked" <=> lock = u)'
    BY <1>1, <1>10, <2>1, ThreadsAssumption DEF DecAndTest, RefTypeOK
  <2> QED BY <2>5, <2>6, <2>7, <2>8, <2>9 DEF RefInv
<1> QED BY <1>3, <1>4, <1>5, <1>6, <1>7, <1>8, <1>9, <1>10 DEF RefNext

(* The invariant, for any number of threads.                               *)
THEOREM RefInvariant ==
  ASSUME Build = "sync"
  PROVE  RefSpec => []RefInv
<1>1. RefInv /\ [RefNext]_vars => RefInv'
  BY RefNextInv
<1> QED BY <1>1, RefInitInv, PTL DEF RefSpec

(* refcount counts the references, whatever the threads' steps interleave. *)
THEOREM RefcountExact ==
  ASSUME Build = "sync"
  PROVE  RefSpec => []CountExact
<1>1. RefInv => CountExact
  BY DEF RefInv
<1> QED BY <1>1, RefInvariant, PTL

(* No object is freed while a reference to it remains.                     *)
THEOREM NoEarlyFree ==
  ASSUME Build = "sync"
  PROVE  RefSpec => []FreedUnreferenced
<1>1. RefInv => FreedUnreferenced
  BY DEF RefInv
<1> QED BY <1>1, RefInvariant, PTL

-----------------------------------------------------------------------------
(* The hash table: what its buckets hold is what the map holds, each key   *)
(* once and in the bucket of its hash; the iterator points at an entry.    *)

HashBuckets == 0..(HASH_SIZE - 1)

(* The bucket that the iterator's entry is in, when it has one.            *)
BucketAt(q0) == IF q0 = 0 THEN 0 ELSE q0 - 1

EntryOK(q0, q1) == q1 # HashNull => q1 \in DOMAIN vals /\ HashOf[q1] = BucketAt(q0)

HashOK ==
  /\ buckets \in [HashBuckets -> Seq(HashKeys)]
  /\ \A h \in HashBuckets : NoDuplicates(buckets[h])
  /\ \A h \in HashBuckets : \A k \in Items(buckets[h]) : HashOf[k] = h

HeldOK ==
  /\ DOMAIN vals \subseteq HashKeys
  /\ \A k \in HashKeys : k \in DOMAIN vals <=> k \in Items(buckets[HashOf[k]])

HashInv == HashOK /\ HeldOK /\ p0 \in 0..HASH_SIZE /\ EntryOK(p0, p1)

(* An entry put in front of a bucket.                                      *)
LEMMA FrontItems ==
  ASSUME NEW S, NEW list \in Seq(S), NEW x \in S
  PROVE  /\ <<x>> \o list \in Seq(S)
         /\ Items(<<x>> \o list) = Items(list) \cup {x}
         /\ NoDuplicates(list) /\ x \notin Items(list) => NoDuplicates(<<x>> \o list)
         /\ Tail(<<x>> \o list) = list
<1> DEFINE new == <<x>> \o list
<1>1. /\ new \in Seq(S) /\ Len(list) \in Nat
      /\ Len(new) = Len(list) + 1
      /\ \A i \in 1 .. Len(list) : new[i + 1] = list[i]
      /\ new[1] = x
  OBVIOUS
<1>2. Tail(new) = list
  OBVIOUS
<1> HIDE DEF new
<1>3. \A i \in 1 .. Len(new) : i # 1 => i - 1 \in 1 .. Len(list) /\ new[i] = list[i - 1]
  <2>1. ASSUME NEW i \in 1 .. Len(new), i # 1 PROVE i - 1 \in 1 .. Len(list) /\ new[i] = list[i - 1]
    <3>1. PICK j \in 1 .. Len(list) : i = j + 1
      <4>1. i - 1 \in 1 .. Len(list) /\ i = (i - 1) + 1
        BY <1>1, <2>1
      <4> QED BY <4>1
    <3>2. new[j + 1] = list[j] /\ i - 1 = j
      BY <1>1, <3>1
    <3> QED BY <3>1, <3>2
  <2> QED BY <2>1
<1>4. ASSUME NEW y PROVE y \in Items(new) <=> y \in Items(list) \cup {x}
  <2>1. ASSUME y \in Items(new) PROVE y \in Items(list) \cup {x}
    BY <1>1, <1>3, <2>1 DEF Items
  <2>2. ASSUME y \in Items(list) PROVE y \in Items(new)
    <3>1. PICK i \in 1 .. Len(list) : y = list[i]
      BY <2>2 DEF Items
    <3>2. i + 1 \in 1 .. Len(new) /\ new[i + 1] = y
      BY <1>1, <3>1
    <3> QED BY <3>2 DEF Items
  <2>3. x \in Items(new)
    <3>1. 1 \in 1 .. Len(new)
      BY <1>1
    <3> QED BY <1>1, <3>1 DEF Items
  <2> QED BY <2>1, <2>2, <2>3
<1>5. ASSUME NoDuplicates(list), x \notin Items(list) PROVE NoDuplicates(new)
  <2>1. ASSUME NEW i \in 1 .. Len(new), NEW j \in 1 .. Len(new), new[i] = new[j] PROVE i = j
    <3>1. CASE i = 1 /\ j = 1
      BY <3>1
    <3>2. CASE i = 1 /\ j # 1
      BY <1>1, <1>3, <1>5, <2>1, <3>2 DEF Items
    <3>3. CASE i # 1 /\ j = 1
      BY <1>1, <1>3, <1>5, <2>1, <3>3 DEF Items
    <3>4. CASE i # 1 /\ j # 1
      <4>1. i - 1 \in 1 .. Len(list) /\ j - 1 \in 1 .. Len(list) /\ list[i - 1] = list[j - 1]
        BY <1>3, <2>1, <3>4
      <4>2. i - 1 = j - 1
        BY <1>5, <4>1 DEF NoDuplicates
      <4> QED BY <1>1, <4>2
    <3> QED BY <3>1, <3>2, <3>3, <3>4
  <2> QED BY <2>1 DEF NoDuplicates
<1> QED BY <1>1, <1>2, <1>4, <1>5 DEF new

(* A search leaves the same entries in the bucket; a deletion after it     *)
(* takes out just the entry it found.                                      *)
LEMMA SearchedItems ==
  ASSUME HashOK, NEW k \in HashKeys
  PROVE  /\ HashOf[k] \in HashBuckets
         /\ Searched(k) \in Seq(HashKeys) /\ NoDuplicates(Searched(k))
         /\ Items(Searched(k)) = Items(buckets[HashOf[k]])
         /\ HashFind(k) => Unlinked(k) = RemoveItem(buckets[HashOf[k]], k)
<1> DEFINE list == buckets[HashOf[k]]
<1>1. HashOf[k] \in HashBuckets
  BY HashRange DEF HashBuckets
<1>2. list \in Seq(HashKeys) /\ NoDuplicates(list)
  BY <1>1 DEF HashOK
<1>3. CASE k \notin Items(list)
  BY <1>1, <1>2, <1>3 DEF Searched, HashFind
<1>4. CASE k \in Items(list)
  <2> DEFINE rest == RemoveItem(list, k)
  <2>1. Searched(k) = <<k>> \o rest
    BY <1>4 DEF Searched, MoveToFront
  <2> HIDE DEF list
  <2>2. rest \in Seq(HashKeys) /\ Items(rest) = Items(list) \ {k} /\ NoDuplicates(rest)
    BY <1>2, RemoveItemItems
  <2> HIDE DEF rest
  <2>3. /\ <<k>> \o rest \in Seq(HashKeys) /\ Items(<<k>> \o rest) = Items(rest) \cup {k}
        /\ NoDuplicates(<<k>> \o rest) /\ Tail(<<k>> \o rest) = rest
    BY <2>2, FrontItems
  <2>4. Unlinked(k) = rest
    BY <2>1, <2>3 DEF Unlinked
  <2> QED BY <1>1, <1>4, <2>1, <2>2, <2>3, <2>4 DEF list, rest
<1> QED BY <1>3, <1>4

(* The loop stops at the first bucket with entries, or at the last one.    *)
LEMMA NextFilledIs ==
  ASSUME NEW b \in HashBuckets
  PROVE  LET n == NextFilled(b, HASH_SIZE - 1)
         IN  /\ n \in HashBuckets /\ b <= n
             /\ buckets[n] # << >> \/ n = HASH_SIZE - 1
             /\ \A i \in HashBuckets : b <= i /\ i < n => buckets[i] = << >>
<1> DEFINE S == {i \in b..(HASH_SIZE - 1) : buckets[i] # << >> \/ i = HASH_SIZE - 1}
           n == CHOOSE x \in S : \A y \in S : x =< y
<1>1. b \in Nat /\ HASH_SIZE \in Nat /\ b <= HASH_SIZE - 1 /\ HASH_SIZE - 1 \in Nat
  BY HashAssumption DEF HashBuckets
<1>2. S \subseteq Nat /\ HASH_SIZE - 1 \in S
  BY <1>1
<1>3. \E x \in S : \A y \in S : x =< y
  <2> HIDE DEF S
  <2> QED BY <1>2, LeastNatural
<1>4. n \in S /\ \A y \in S : n =< y
  <2> HIDE DEF S
  <2> QED BY <1>3
<1>5. n = NextFilled(b, HASH_SIZE - 1)
  BY DEF NextFilled, Min
<1> HIDE DEF n
<1>6. n \in b..(HASH_SIZE - 1) /\ (buckets[n] # << >> \/ n = HASH_SIZE - 1)
  BY <1>4
<1>7. n \in HashBuckets /\ b <= n
  BY <1>1, <1>6 DEF HashBuckets
<1>8. ASSUME NEW i \in HashBuckets, b <= i, i < n PROVE buckets[i] = << >>
  <2>1. i \in b..(HASH_SIZE - 1) /\ ~ (n =< i)
    BY <1>1, <1>6, <1>8 DEF HashBuckets
  <2> QED BY <1>4, <2>1
<1> QED BY <1>5, <1>6, <1>7, <1>8

(* The first entry of a bucket that has one.                               *)
LEMMA FirstIs ==
  ASSUME HashOK, NEW h \in HashBuckets
  PROVE  /\ buckets[h] = << >> => First(buckets[h]) = HashNull /\ Items(buckets[h]) = {}
         /\ buckets[h] # << >> => /\ First(buckets[h]) = buckets[h][1] /\ 1 \in 1 .. Len(buckets[h])
                                  /\ First(buckets[h]) \in Items(buckets[h])
         /\ First(buckets[h]) # HashNull => buckets[h] # << >>
<1>1. buckets[h] \in Seq(HashKeys)
  BY DEF HashOK
<1>2. CASE buckets[h] = << >>
  BY <1>2 DEF First, Items
<1>3. CASE buckets[h] # << >>
  <2>1. Head(buckets[h]) = buckets[h][1] /\ 1 \in 1 .. Len(buckets[h])
    BY <1>1, <1>3
  <2> QED BY <1>3, <2>1 DEF First, Items
<1> QED BY <1>2, <1>3

(* An entry's successor is the next one of its bucket.                     *)
LEMMA NextIs ==
  ASSUME HashOK, HeldOK, NEW k \in DOMAIN vals
  PROVE  \E i \in 1 .. Len(buckets[HashOf[k]]) :
           /\ buckets[HashOf[k]][i] = k
           /\ NextOf(k) = IF i = Len(buckets[HashOf[k]]) THEN HashNull ELSE buckets[HashOf[k]][i + 1]
<1> DEFINE list == buckets[HashOf[k]]
           place == CHOOSE i \in DOMAIN list : list[i] = k
<1>1. list \in Seq(HashKeys) /\ k \in Items(list)
  BY HashRange DEF HashOK, HeldOK, HashBuckets
<1>2. DOMAIN list = 1 .. Len(list)
  BY <1>1
<1>3. \E i \in DOMAIN list : list[i] = k
  BY <1>1, <1>2 DEF Items
<1>4. place \in 1 .. Len(list) /\ list[place] = k
  BY <1>2, <1>3
<1>5. NextOf(k) = IF place = Len(list) THEN HashNull ELSE list[place + 1]
  BY DEF NextOf
<1> HIDE DEF place
<1> QED BY <1>4, <1>5

(* Whatever bucket an entry is found in, it is in the map.                 *)
LEMMA ItemHeld ==
  ASSUME HashOK, HeldOK, NEW h \in HashBuckets, NEW k \in Items(buckets[h])
  PROVE  k \in DOMAIN vals /\ k \in HashKeys /\ HashOf[k] = h
<1>1. buckets[h] \in Seq(HashKeys) /\ HashOf[k] = h
  BY DEF HashOK
<1>2. k \in HashKeys
  BY <1>1 DEF Items
<1> QED BY <1>1, <1>2 DEF HeldOK

(* The loop of drmHashNext ends at an entry, or with all buckets loaded.   *)
LEMMA AdvanceOK ==
  ASSUME HashOK, HeldOK, NEW q0 \in 0..HASH_SIZE, NEW q1, EntryOK(q0, q1)
  PROVE  LET r == Advance(q0, q1)
         IN  r.p0 \in 0..HASH_SIZE /\ EntryOK(r.p0, r.p1) /\ (r.p0 # HASH_SIZE => r.p1 # HashNull)
<1>1. CASE q0 = HASH_SIZE \/ q1 # HashNull
  BY <1>1 DEF Advance
<1>2. CASE q0 # HASH_SIZE /\ q1 = HashNull
  <2> DEFINE n == NextFilled(q0, HASH_SIZE - 1)
             e == First(buckets[n])
  <2>1. q0 \in HashBuckets /\ HASH_SIZE \in Nat
    BY <1>2, HashAssumption DEF HashBuckets
  <2>2. Advance(q0, q1) = [p0 |-> n + 1, p1 |-> e]
    BY <1>2 DEF Advance
  <2> HIDE DEF n
  <2>3. n \in HashBuckets /\ (buckets[n] # << >> \/ n = HASH_SIZE - 1)
    BY <2>1, NextFilledIs DEF n
  <2>4. n + 1 \in 0..HASH_SIZE /\ BucketAt(n + 1) = n /\ (n + 1 # HASH_SIZE => n # HASH_SIZE - 1)
    BY <2>1, <2>3 DEF HashBuckets, BucketAt
  <2>5. e # HashNull => e \in Items(buckets[n])
    BY <2>3, FirstIs
  <2>6. buckets[n] # << >> => e \in Items(buckets[n])
    BY <2>3, FirstIs
  <2> HIDE DEF e
  <2>7. EntryOK(n + 1, e)
    BY <2>3, <2>4, <2>5, ItemHeld DEF EntryOK
  <2>8. n + 1 # HASH_SIZE => e # HashNull
    BY <2>3, <2>4, <2>6, ItemHeld, HashAssumption
  <2> QED BY <2>2, <2>4, <2>7, <2>8
<1> QED BY <1>1, <1>2

(* One bucket is replaced by a list of keys that belong there.             *)
LEMMA BucketReplaced ==
  ASSUME HashOK, NEW h \in HashBuckets, NEW list \in Seq(HashKeys), NoDuplicates(list),
         \A x \in Items(list) : HashOf[x] = h, buckets' = [buckets EXCEPT ![h] = list]
  PROVE  /\ HashOK'
         /\ buckets'[h] = list
         /\ \A g \in HashBuckets \ {h} : buckets'[g] = buckets[g]
<1>1. buckets \in [HashBuckets -> Seq(HashKeys)]
  BY DEF HashOK
<1>2. /\ buckets' \in [HashBuckets -> Seq(HashKeys)] /\ buckets'[h] = list
      /\ \A g \in HashBuckets \ {h} : buckets'[g] = buckets[g]
  BY <1>1
<1>3. \A g \in HashBuckets : NoDuplicates(buckets'[g])
  BY <1>2 DEF HashOK
<1>4. \A g \in HashBuckets : \A k \in Items(buckets'[g]) : HashOf[k] = g
  BY <1>2 DEF HashOK
<1> QED BY <1>2, <1>3, <1>4 DEF HashOK

(* A search for a key, found or not, leaves the table as it is but for the *)
(* order of a bucket.                                                      *)
LEMMA SearchInv ==
  ASSUME HashInv, NEW k \in HashKeys, buckets' = [buckets EXCEPT ![HashOf[k]] = Searched(k)],
         UNCHANGED <<vals, p0, p1>>
  PROVE  HashInv'
<1>1. HashOK /\ HeldOK
  BY DEF HashInv
<1> DEFINE h == HashOf[k]
           list == Searched(k)
<1>2. h \in HashBuckets /\ list \in Seq(HashKeys) /\ NoDuplicates(list) /\ Items(list) = Items(buckets[h])
  BY <1>1, SearchedItems
<1>3. buckets' = [buckets EXCEPT ![h] = list]
  OBVIOUS
<1>4. \A x \in Items(list) : HashOf[x] = h
  BY <1>1, <1>2 DEF HashOK
<1> HIDE DEF h, list
<1>5. HashOK' /\ buckets'[h] = list /\ \A g \in HashBuckets \ {h} : buckets'[g] = buckets[g]
  BY <1>1, <1>2, <1>3, <1>4, BucketReplaced
<1>6. \A g \in HashBuckets : Items(buckets'[g]) = Items(buckets[g])
  BY <1>2, <1>5
<1>7. HeldOK'
  BY <1>1, <1>6, HashRange DEF HeldOK, HashBuckets
<1> QED BY <1>5, <1>7 DEF HashInv, EntryOK

(* Whether a search finds a key is whether the map has it.                 *)
LEMMA FindIsHeld ==
  ASSUME HashInv, NEW k \in HashKeys
  PROVE  HashFind(k) <=> k \in DOMAIN vals
BY DEF HashInv, HeldOK, HashFind

(* drmHashLookup answers as the map does.                                  *)
LEMMA LookupStep ==
  ASSUME HashInv, NEW k \in HashKeys, drmHashLookup(k)
  PROVE  HashInv' /\ M!MapLookup(k)
<1>1. HashInv'
  BY SearchInv DEF drmHashLookup
<1>2. M!MapLookup(k)
  BY FindIsHeld DEF drmHashLookup, M!MapLookup
<1> QED BY <1>1, <1>2

(* drmHashInsert adds the key in front of its bucket unless it is there.   *)
LEMMA InsertStep ==
  ASSUME HashInv, NEW k \in HashKeys, NEW v \in HashValues, NEW memory \in BOOLEAN,
         drmHashInsert(k, v, memory)
  PROVE  HashInv' /\ M!MapInsert(k, v)
<1>1. CASE HashFind(k) \/ ~memory
  <2>1. HashInv'
    BY <1>1, SearchInv DEF drmHashInsert
  <2>2. M!MapInsert(k, v)
    BY <1>1, FindIsHeld DEF drmHashInsert, M!MapInsert
  <2> QED BY <2>1, <2>2
<1>2. CASE ~HashFind(k) /\ memory
  <2>1. /\ k \notin DOMAIN vals /\ vals' = M!Added(vals, k, v) /\ UNCHANGED <<p0, p1>>
        /\ hans' = M!Answer("insert", k, "added", HashNull)
        /\ buckets' = [buckets EXCEPT ![HashOf[k]] = <<k>> \o @]
    BY <1>2, FindIsHeld DEF drmHashInsert
  <2>2. M!MapInsert(k, v)
    BY <2>1 DEF M!MapInsert
  <2> DEFINE h == HashOf[k]
             list == <<k>> \o buckets[h]
  <2>3. HashOK /\ HeldOK /\ h \in HashBuckets /\ buckets[h] \in Seq(HashKeys) /\ k \notin Items(buckets[h])
    BY <1>2, HashRange DEF HashInv, HashOK, HashFind, HashBuckets
  <2>4. NoDuplicates(buckets[h]) /\ \A x \in Items(buckets[h]) : HashOf[x] = h
    BY <2>3 DEF HashOK
  <2>5. list \in Seq(HashKeys) /\ Items(list) = Items(buckets[h]) \cup {k} /\ NoDuplicates(list)
    BY <2>3, <2>4, FrontItems
  <2>6. \A x \in Items(list) : HashOf[x] = h
    BY <2>4, <2>5
  <2>7. buckets' = [buckets EXCEPT ![h] = list]
    BY <2>1
  <2> HIDE DEF list
  <2>8. HashOK' /\ buckets'[h] = list /\ \A g \in HashBuckets \ {h} : buckets'[g] = buckets[g]
    BY <2>3, <2>5, <2>6, <2>7, BucketReplaced
  <2>9. DOMAIN vals' = DOMAIN vals \cup {k}
    BY <2>1 DEF M!Added
  <2>10. HeldOK'
    <3>1. ASSUME NEW x \in HashKeys PROVE x \in DOMAIN vals' <=> x \in Items(buckets'[HashOf[x]])
      <4>1. HashOf[x] \in HashBuckets /\ (x \in DOMAIN vals <=> x \in Items(buckets[HashOf[x]]))
        BY <2>3, HashRange DEF HeldOK, HashBuckets
      <4>2. CASE HashOf[x] = h
        BY <2>5, <2>8, <2>9, <4>1, <4>2
      <4>3. CASE HashOf[x] # h
        BY <2>8, <2>9, <4>1, <4>3
      <4> QED BY <4>2, <4>3
    <3>2. DOMAIN vals' \subseteq HashKeys
      BY <2>3, <2>9 DEF HeldOK
    <3> QED BY <3>1, <3>2 DEF HeldOK
  <2>11. p0' \in 0..HASH_SIZE /\ EntryOK(p0, p1)'
    BY <2>1, <2>9 DEF HashInv, EntryOK
  <2> QED BY <2>2, <2>8, <2>10, <2>11 DEF HashInv
<1> QED BY <1>1, <1>2

(* drmHashDelete takes out the key and no other.                           *)
LEMMA DeleteStep ==
  ASSUME HashInv, NEW k \in HashKeys, drmHashDelete(k)
  PROVE  HashInv' /\ M!MapDelete(k)
<1>1. CASE ~HashFind(k)
  <2>1. UNCHANGED <<buckets, vals, p0, p1>> /\ M!MapDelete(k)
    BY <1>1, FindIsHeld DEF drmHashDelete, M!MapDelete
  <2> QED BY <2>1 DEF HashInv, HashOK, HeldOK, EntryOK
<1>2. CASE HashFind(k)
  <2>1. /\ k \in DOMAIN vals /\ vals' = M!Without(vals, k) /\ UNCHANGED <<p0, p1>> /\ k # p1
        /\ hans' = M!Answer("delete", k, "deleted", HashNull)
        /\ buckets' = [buckets EXCEPT ![HashOf[k]] = Unlinked(k)]
    BY <1>2, FindIsHeld DEF drmHashDelete
  <2>2. M!MapDelete(k)
    BY <2>1 DEF M!MapDelete
  <2> DEFINE h == HashOf[k]
             list == RemoveItem(buckets[h], k)
  <2>3. HashOK /\ HeldOK /\ h \in HashBuckets /\ buckets[h] \in Seq(HashKeys) /\ Unlinked(k) = list
    BY <1>2, HashRange, SearchedItems DEF HashInv, HashOK, HashBuckets
  <2>4. NoDuplicates(buckets[h]) /\ \A x \in Items(buckets[h]) : HashOf[x] = h
    BY <2>3 DEF HashOK
  <2>5. list \in Seq(HashKeys) /\ Items(list) = Items(buckets[h]) \ {k} /\ NoDuplicates(list)
    BY <2>3, <2>4, RemoveItemItems
  <2>6. \A x \in Items(list) : HashOf[x] = h
    BY <2>4, <2>5
  <2>7. buckets' = [buckets EXCEPT ![h] = list]
    BY <2>1, <2>3
  <2> HIDE DEF list
  <2>8. HashOK' /\ buckets'[h] = list /\ \A g \in HashBuckets \ {h} : buckets'[g] = buckets[g]
    BY <2>3, <2>5, <2>6, <2>7, BucketReplaced
  <2>9. DOMAIN vals' = DOMAIN vals \ {k}
    BY <2>1 DEF M!Without
  <2>10. HeldOK'
    <3>1. ASSUME NEW x \in HashKeys PROVE x \in DOMAIN vals' <=> x \in Items(buckets'[HashOf[x]])
      <4>1. HashOf[x] \in HashBuckets /\ (x \in DOMAIN vals <=> x \in Items(buckets[HashOf[x]]))
        BY <2>3, HashRange DEF HeldOK, HashBuckets
      <4>2. CASE HashOf[x] = h
        BY <2>5, <2>8, <2>9, <4>1, <4>2
      <4>3. CASE HashOf[x] # h
        BY <2>8, <2>9, <4>1, <4>3
      <4> QED BY <4>2, <4>3
    <3>2. DOMAIN vals' \subseteq HashKeys
      BY <2>3, <2>9 DEF HeldOK
    <3> QED BY <3>1, <3>2 DEF HeldOK
  <2>11. p0' \in 0..HASH_SIZE /\ EntryOK(p0, p1)'
    BY <2>1, <2>9 DEF HashInv, EntryOK
  <2> QED BY <2>2, <2>8, <2>10, <2>11 DEF HashInv
<1> QED BY <1>1, <1>2

(* A step of the iterator delivers an entry of the map, or nothing; the    *)
(* successor it keeps is an entry of the same bucket.                      *)
LEMMA DeliverStep ==
  ASSUME HashInv, NEW at, at.p0 \in 0..HASH_SIZE, EntryOK(at.p0, at.p1), at.p0 # HASH_SIZE => at.p1 # HashNull,
         NEW counts, Deliver(at, counts), UNCHANGED <<buckets, vals>>
  PROVE  HashInv' /\ M!MapIterate
<1>1. HashOK /\ HeldOK /\ HashOK' /\ HeldOK'
  BY DEF HashInv, HashOK, HeldOK
<1>2. p0' = at.p0 /\ p0' \in 0..HASH_SIZE
  BY DEF Deliver
<1>3. CASE at.p0 = HASH_SIZE
  <2>1. p1' = at.p1 /\ hans' = M!NoAnswer
    BY <1>3 DEF Deliver
  <2>2. EntryOK(p0, p1)'
    BY <1>2, <2>1 DEF EntryOK
  <2> QED BY <1>1, <1>2, <2>1, <2>2 DEF HashInv, M!MapIterate
<1>4. CASE at.p0 # HASH_SIZE
  <2> DEFINE k == at.p1
  <2>1. p1' = NextOf(k) /\ hans' = M!Answer("next", k, "entry", vals[k]) /\ k \in DOMAIN vals /\ HashOf[k] = BucketAt(at.p0)
    BY <1>4 DEF Deliver, EntryOK
  <2>2. M!MapIterate
    BY <2>1 DEF M!MapIterate
  <2> HIDE DEF k
  <2>3. HashOf[k] \in HashBuckets
    BY <1>1, <2>1, HashRange DEF HeldOK, HashBuckets
  <2>4. PICK i \in 1 .. Len(buckets[HashOf[k]]) :
           /\ buckets[HashOf[k]][i] = k
           /\ NextOf(k) = IF i = Len(buckets[HashOf[k]]) THEN HashNull ELSE buckets[HashOf[k]][i + 1]
    BY <1>1, <2>1, NextIs
  <2>5. buckets[HashOf[k]] \in Seq(HashKeys)
    BY <1>1, <2>3 DEF HashOK
  <2>6. NextOf(k) # HashNull => NextOf(k) \in Items(buckets[HashOf[k]])
    <3>1. i # Len(buckets[HashOf[k]]) => i + 1 \in 1 .. Len(buckets[HashOf[k]])
      BY <2>5
    <3> QED BY <2>4, <3>1 DEF Items
  <2>7. p1' # HashNull => p1' \in DOMAIN vals /\ HashOf[p1'] = HashOf[k]
    BY <1>1, <2>1, <2>3, <2>6, ItemHeld
  <2>8. EntryOK(p0, p1)'
    BY <1>2, <2>1, <2>7 DEF EntryOK
  <2> QED BY <1>1, <1>2, <2>2, <2>8 DEF HashInv
<1> QED BY <1>3, <1>4

(* drmHashFirst starts in front of bucket 0.                               *)
LEMMA FirstEntryOK ==
  ASSUME HashOK, HeldOK
  PROVE  0 \in 0..HASH_SIZE /\ EntryOK(0, First(buckets[0]))
<1>1. 0 \in HashBuckets /\ 0 \in 0..HASH_SIZE
  BY HashAssumption DEF HashBuckets
<1>2. First(buckets[0]) # HashNull => First(buckets[0]) \in Items(buckets[0])
  BY <1>1, FirstIs
<1>3. First(buckets[0]) # HashNull => First(buckets[0]) \in DOMAIN vals /\ HashOf[First(buckets[0])] = 0
  BY <1>1, <1>2, ItemHeld
<1> QED BY <1>1, <1>3 DEF EntryOK, BucketAt

(* An empty table implements an empty map.                                 *)
LEMMA EmptyInv ==
  ASSUME NEW b, b = [h \in HashBuckets |-> << >>]
  PROVE  /\ b \in [HashBuckets -> Seq(HashKeys)]
         /\ \A h \in HashBuckets : NoDuplicates(b[h]) /\ Items(b[h]) = {}
BY DEF NoDuplicates, Items

(* Every step of the hash table preserves the invariant and is a step of   *)
(* the map.                                                                *)
LEMMA HashStep ==
  ASSUME HashInv, [HashNext]_hashVars
  PROVE  HashInv' /\ [M!MapNext]_(M!mapVars)
<1>0. HashOK /\ HeldOK /\ p0 \in 0..HASH_SIZE /\ EntryOK(p0, p1)
  BY DEF HashInv
<1>1. CASE UNCHANGED hashVars \/ drmHashCreate
  <2>1. UNCHANGED <<buckets, vals, p0, p1, hans>>
    BY <1>1 DEF hashVars, drmHashCreate
  <2> QED BY <2>1 DEF HashInv, HashOK, HeldOK, EntryOK, M!mapVars
<1>2. CASE drmHashDestroy
  <2>1. /\ buckets' = [h \in HashBuckets |-> << >>] /\ vals' = [k \in {} |-> HashNull]
        /\ p0' = HASH_SIZE /\ p1' = HashNull /\ hans' = M!NoAnswer
    BY <1>0, <1>2 DEF drmHashDestroy, HashOK
  <2>2. /\ buckets' \in [HashBuckets -> Seq(HashKeys)]
        /\ \A h \in HashBuckets : NoDuplicates(buckets'[h]) /\ Items(buckets'[h]) = {}
    BY <2>1, EmptyInv
  <2>3. DOMAIN vals' = {}
    BY <2>1
  <2>4. HashOK' /\ HeldOK'
    BY <2>2, <2>3, HashRange DEF HashOK, HeldOK, HashBuckets
  <2>5. M!MapDestroy
    BY <2>1 DEF M!MapDestroy
  <2>6. HASH_SIZE \in 0..HASH_SIZE
    BY HashAssumption
  <2> QED BY <2>1, <2>4, <2>5, <2>6 DEF HashInv, EntryOK, M!MapNext
<1>3. ASSUME NEW k \in HashKeys, drmHashLookup(k) PROVE HashInv' /\ M!MapNext
  BY <1>3, LookupStep DEF M!MapNext
<1>4. ASSUME NEW k \in HashKeys, NEW v \in HashValues, NEW memory \in BOOLEAN, drmHashInsert(k, v, memory)
      PROVE  HashInv' /\ M!MapNext
  BY <1>4, InsertStep DEF M!MapNext
<1>5. ASSUME NEW k \in HashKeys, drmHashDelete(k) PROVE HashInv' /\ M!MapNext
  BY <1>5, DeleteStep DEF M!MapNext
<1>6. CASE drmHashFirst
  <2> DEFINE at == Advance(0, First(buckets[0]))
  <2>1. at.p0 \in 0..HASH_SIZE /\ EntryOK(at.p0, at.p1) /\ (at.p0 # HASH_SIZE => at.p1 # HashNull)
    BY <1>0, FirstEntryOK, AdvanceOK
  <2>2. Deliver(at, NeverSeen) /\ UNCHANGED <<buckets, vals>>
    BY <1>6 DEF drmHashFirst
  <2> HIDE DEF at
  <2>3. HashInv' /\ M!MapIterate
    BY <2>1, <2>2, DeliverStep
  <2> QED BY <2>3 DEF M!MapNext
<1>7. CASE drmHashNext
  <2> DEFINE at == Advance(p0, p1)
  <2>1. at.p0 \in 0..HASH_SIZE /\ EntryOK(at.p0, at.p1) /\ (at.p0 # HASH_SIZE => at.p1 # HashNull)
    BY <1>0, AdvanceOK
  <2>2. Deliver(at, seen) /\ UNCHANGED <<buckets, vals>>
    BY <1>7 DEF drmHashNext
  <2> HIDE DEF at
  <2>3. HashInv' /\ M!MapIterate
    BY <2>1, <2>2, DeliverStep
  <2> QED BY <2>3 DEF M!MapNext
<1> QED BY <1>1, <1>2, <1>3, <1>4, <1>5, <1>6, <1>7 DEF HashNext

(* A table that has not been created holds nothing.                        *)
LEMMA HashInitInv == HashInit => HashInv /\ M!MapInit
<1> SUFFICES ASSUME HashInit PROVE HashInv /\ M!MapInit
  OBVIOUS
<1>1. /\ buckets = [h \in HashBuckets |-> << >>] /\ vals = [k \in {} |-> HashNull]
      /\ p0 = HASH_SIZE /\ p1 = HashNull /\ hans = M!NoAnswer
  BY DEF HashInit, HashBuckets
<1>2. /\ buckets \in [HashBuckets -> Seq(HashKeys)]
      /\ \A h \in HashBuckets : NoDuplicates(buckets[h]) /\ Items(buckets[h]) = {}
  BY <1>1, EmptyInv
<1>3. DOMAIN vals = {}
  BY <1>1
<1>4. HashOK /\ HeldOK
  BY <1>2, <1>3, HashRange DEF HashOK, HeldOK, HashBuckets
<1>5. M!MapInit
  BY <1>1 DEF M!MapInit
<1>6. HASH_SIZE \in 0..HASH_SIZE
  BY HashAssumption
<1> QED BY <1>1, <1>4, <1>5, <1>6 DEF HashInv, EntryOK

(* The hash table is a map, for any size of it and any keys: however the   *)
(* buckets are reorganised, every answer, those of the iterator included,  *)
(* is one that the map gives.                                              *)
THEOREM HashIsMap == HashSpec => HashImplementsMap
<1>1. HashInv /\ [HashNext]_hashVars => HashInv' /\ [M!MapNext]_(M!mapVars)
  BY HashStep
<1> QED BY <1>1, HashInitInv, PTL DEF HashSpec, HashImplementsMap, M!MapSpec

-----------------------------------------------------------------------------
(* What an iteration has delivered so far follows from where it stands:    *)
(* bucket 0 was gone through once before it is loaded again, the buckets   *)
(* loaded before the present one are through, and of the present one the   *)
(* entries in front of the next to be delivered.                           *)
Ahead(list, a, k) ==
  \E i \in 1 .. Len(list), j \in 1 .. Len(list) : i <= j /\ list[i] = a /\ list[j] = k

FirstPass(q0, k) == IF HashOf[k] = 0 /\ q0 > 0 THEN 1 ELSE 0

Loaded(q0, q1, k) ==
  IF HashOf[k] < BucketAt(q0) THEN 1
  ELSE IF HashOf[k] > BucketAt(q0) \/ q0 = HASH_SIZE \/ Ahead(buckets[HashOf[k]], q1, k) THEN 0 ELSE 1

IterInv ==
  /\ HashInv
  /\ seen \in [HashKeys -> Nat]
  /\ quiet => \A k \in DOMAIN vals : seen[k] = FirstPass(p0, k) + Loaded(p0, p1, k)

(* Taking an entry out of a list leaves the order of the others alone.     *)
LEMMA RemoveOrder ==
  ASSUME NEW S, NEW list \in Seq(S), NoDuplicates(list), NEW x, NEW a, NEW k, a # x, k # x
  PROVE  Ahead(RemoveItem(list, x), a, k) <=> Ahead(list, a, k)
<1>1. CASE x \notin Items(list)
  BY <1>1 DEF RemoveItem
<1>2. CASE x \in Items(list)
  <2> DEFINE place == CHOOSE i \in 1 .. Len(list) : list[i] = x
             new == [j \in 1 .. Len(list) - 1 |-> IF j < place THEN list[j] ELSE list[j + 1]]
  <2>1. place \in 1 .. Len(list) /\ list[place] = x
    BY <1>2 DEF Items
  <2>2. RemoveItem(list, x) = new
    BY <1>2 DEF RemoveItem
  <2> HIDE DEF place
  <2>3. Len(list) \in Nat /\ Len(list) - 1 \in Nat /\ \A i \in 1 .. Len(list) : list[i] \in S
    BY <2>1
  <2>4. /\ new \in Seq(S) /\ Len(new) = Len(list) - 1
        /\ \A j \in 1 .. Len(list) - 1 : new[j] = IF j < place THEN list[j] ELSE list[j + 1]
    BY <2>1, <2>3
  <2> HIDE DEF new
  <2>5. ASSUME Ahead(new, a, k) PROVE Ahead(list, a, k)
    <3>1. PICK i \in 1 .. Len(new), j \in 1 .. Len(new) : i <= j /\ new[i] = a /\ new[j] = k
      BY <2>5 DEF Ahead
    <3> DEFINE up(n) == IF n < place THEN n ELSE n + 1
    <3>2. up(i) \in 1 .. Len(list) /\ up(j) \in 1 .. Len(list) /\ up(i) <= up(j)
      BY <2>1, <2>3, <2>4, <3>1
    <3>3. list[up(i)] = a /\ list[up(j)] = k
      BY <2>4, <3>1
    <3> HIDE DEF up
    <3> QED BY <3>2, <3>3 DEF Ahead
  <2>6. ASSUME Ahead(list, a, k) PROVE Ahead(new, a, k)
    <3>1. PICK i \in 1 .. Len(list), j \in 1 .. Len(list) : i <= j /\ list[i] = a /\ list[j] = k
      BY <2>6 DEF Ahead
    <3>2. i # place /\ j # place
      BY <2>1, <3>1
    <3> DEFINE dn(n) == IF n < place THEN n ELSE n - 1
    <3>3. dn(i) \in 1 .. Len(new) /\ dn(j) \in 1 .. Len(new) /\ dn(i) <= dn(j)
      BY <2>1, <2>3, <2>4, <3>1, <3>2
    <3>4. ASSUME NEW n \in 1 .. Len(list), n # place PROVE new[dn(n)] = list[n]
      <4>1. CASE n < place
        BY <2>1, <2>3, <2>4, <4>1
      <4>2. CASE n > place
        <5>1. n - 1 \in 1 .. Len(list) - 1 /\ ~ (n - 1 < place) /\ (n - 1) + 1 = n
          BY <2>1, <2>3, <4>2
        <5>2. dn(n) = n - 1
          BY <2>1, <4>2
        <5> QED BY <2>4, <5>1, <5>2
      <4> QED BY <2>1, <3>4, <4>1, <4>2
    <3>5. new[dn(i)] = a /\ new[dn(j)] = k
      BY <3>1, <3>2, <3>4
    <3> HIDE DEF dn
    <3> QED BY <3>3, <3>5 DEF Ahead
  <2> QED BY <2>2, <2>5, <2>6
<1> QED BY <1>1, <1>2

(* No entry is behind NULL; every entry of a bucket is behind the first.   *)
LEMMA AheadEnds ==
  ASSUME HashOK, HeldOK, NEW k \in DOMAIN vals
  PROVE  /\ ~ Ahead(buckets[HashOf[k]], HashNull, k)
         /\ Ahead(buckets[HashOf[k]], First(buckets[HashOf[k]]), k)
<1> DEFINE list == buckets[HashOf[k]]
<1>1. HashOf[k] \in HashBuckets /\ k \in Items(list)
  BY HashRange DEF HeldOK, HashBuckets
<1>2. list \in Seq(HashKeys)
  BY <1>1 DEF HashOK
<1>3. PICK j \in 1 .. Len(list) : list[j] = k
  BY <1>1 DEF Items
<1>4. list # << >>
  BY <1>2, <1>3
<1>5. First(list) = list[1] /\ 1 \in 1 .. Len(list)
  BY <1>1, <1>4, FirstIs
<1> HIDE DEF list
<1>6. ~ Ahead(list, HashNull, k)
  BY <1>2, HashAssumption DEF Ahead
<1>7. 1 <= j
  BY <1>2, <1>3
<1>8. Ahead(list, First(list), k)
  BY <1>3, <1>5, <1>7 DEF Ahead
<1> QED BY <1>6, <1>8 DEF list

(* The buckets of entries are numbers within the table.                    *)
LEMMA HeldBucket ==
  ASSUME HashOK, HeldOK, NEW k \in DOMAIN vals
  PROVE  /\ HashOf[k] \in HashBuckets /\ HashOf[k] \in Int /\ 0 <= HashOf[k] /\ HashOf[k] <= HASH_SIZE - 1
         /\ HASH_SIZE \in Int /\ HASH_SIZE >= 2
         /\ buckets[HashOf[k]] # << >>
<1>1. HashOf[k] \in HashBuckets /\ k \in Items(buckets[HashOf[k]])
  BY HashRange DEF HeldOK, HashBuckets
<1>2. buckets[HashOf[k]] # << >>
  BY <1>1, FirstIs
<1> QED BY <1>1, <1>2, HashAssumption DEF HashBuckets

(* Loading buckets changes nothing about what has been delivered.          *)
LEMMA AdvanceCounts ==
  ASSUME HashOK, HeldOK, NEW q0 \in 0..HASH_SIZE, NEW q1, NEW k \in DOMAIN vals,
         NEW r, r = Advance(q0, q1)
  PROVE  FirstPass(r.p0, k) + Loaded(r.p0, r.p1, k) = FirstPass(q0, k) + Loaded(q0, q1, k)
<1>1. CASE q0 = HASH_SIZE \/ q1 # HashNull
  BY <1>1 DEF Advance
<1>2. CASE q0 # HASH_SIZE /\ q1 = HashNull
  <2> DEFINE n == NextFilled(q0, HASH_SIZE - 1)
             e == First(buckets[n])
             b == HashOf[k]
  <2>1. q0 \in HashBuckets /\ q0 \in Nat
    BY <1>2, HashAssumption DEF HashBuckets
  <2>2. r.p0 = n + 1 /\ r.p1 = e
    BY <1>2 DEF Advance
  <2> HIDE DEF n
  <2>3. n \in HashBuckets /\ q0 <= n /\ \A i \in HashBuckets : q0 <= i /\ i < n => buckets[i] = << >>
    BY <2>1, NextFilledIs DEF n
  <2>4. n \in Nat /\ BucketAt(n + 1) = n
    BY <2>3 DEF HashBuckets, BucketAt
  <2>5. b \in HashBuckets /\ b \in Int /\ 0 <= b /\ b <= HASH_SIZE - 1 /\ HASH_SIZE >= 2 /\ buckets[b] # << >>
    BY HeldBucket
  <2>6. b = n => Ahead(buckets[b], e, k)
    BY AheadEnds
  <2>7. ~ Ahead(buckets[b], q1, k)
    BY <1>2, AheadEnds
  <2>8. ~ (q0 <= b /\ b < n)
    BY <2>3, <2>5
  <2>9. FirstPass(n + 1, k) = IF b = 0 THEN 1 ELSE 0
    BY <2>4 DEF FirstPass
  <2>10. Loaded(n + 1, e, k) = IF b < n THEN 1 ELSE 0
    BY <2>4, <2>5, <2>6 DEF Loaded
  <2>11. FirstPass(q0, k) = IF b = 0 /\ q0 > 0 THEN 1 ELSE 0
    BY DEF FirstPass
  <2>12. Loaded(q0, q1, k) = IF b < BucketAt(q0) THEN 1 ELSE IF b > BucketAt(q0) THEN 0 ELSE 1
    BY <1>2, <2>7 DEF Loaded
  <2> HIDE DEF b, e
  <2>13. CASE q0 = 0
    <3>1. BucketAt(q0) = 0 /\ (b = 0 => n = 0)
      BY <2>3, <2>4, <2>5, <2>8, <2>13 DEF BucketAt
    <3> QED BY <2>2, <2>4, <2>5, <2>8, <2>9, <2>10, <2>11, <2>12, <2>13, <3>1
  <2>14. CASE q0 > 0
    <3>1. BucketAt(q0) = q0 - 1
      BY <2>1, <2>14 DEF BucketAt
    <3> QED BY <2>1, <2>2, <2>3, <2>4, <2>5, <2>8, <2>9, <2>10, <2>11, <2>12, <2>14, <3>1
  <2> QED BY <2>1, <2>13, <2>14
<1> QED BY <1>1, <1>2

(* Delivering an entry counts it and no other.                             *)
LEMMA DeliverCounts ==
  ASSUME HashOK, HeldOK, NEW q0 \in 0..HASH_SIZE, q0 # HASH_SIZE, NEW a \in DOMAIN vals,
         HashOf[a] = BucketAt(q0), NEW k \in DOMAIN vals
  PROVE  Loaded(q0, NextOf(a), k) = Loaded(q0, a, k) + (IF k = a THEN 1 ELSE 0)
<1> DEFINE b == HashOf[k]
           list == buckets[HashOf[a]]
<1>1. BucketAt(q0) \in Int /\ b \in Int
  BY HeldBucket
<1>2. CASE b # BucketAt(q0)
  BY <1>1, <1>2 DEF Loaded
<1>3. CASE b = BucketAt(q0)
  <2>1. PICK i \in 1 .. Len(list) :
           list[i] = a /\ NextOf(a) = IF i = Len(list) THEN HashNull ELSE list[i + 1]
    BY NextIs
  <2>2. HashOf[a] \in HashBuckets /\ b = HashOf[a]
    BY <1>3, HeldBucket
  <2>3. list \in Seq(HashKeys) /\ NoDuplicates(list) /\ k \in Items(list)
    BY <2>2 DEF HashOK, HeldOK
  <2>4. PICK j \in 1 .. Len(list) : list[j] = k
    BY <2>3 DEF Items
  <2>5. /\ Loaded(q0, a, k) = IF Ahead(list, a, k) THEN 0 ELSE 1
        /\ Loaded(q0, NextOf(a), k) = IF Ahead(list, NextOf(a), k) THEN 0 ELSE 1
    BY <1>1, <1>3, <2>2 DEF Loaded
  <2> HIDE DEF list, b
  <2>6. k = a <=> i = j
    BY <2>1, <2>3, <2>4 DEF NoDuplicates
  <2>7. Len(list) \in Nat /\ i \in Int /\ j \in Int
    BY <2>3
  <2>8. Ahead(list, a, k) <=> i <= j
    BY <2>1, <2>3, <2>4, <2>7 DEF Ahead, NoDuplicates
  <2>9. Ahead(list, NextOf(a), k) <=> i + 1 <= j
    <3>1. CASE i = Len(list)
      BY <2>1, <2>3, <2>4, <2>7, <3>1, HashAssumption DEF Ahead
    <3>2. CASE i # Len(list)
      <4>1. i + 1 \in 1 .. Len(list) /\ NextOf(a) = list[i + 1]
        BY <2>1, <2>7, <3>2
      <4>2. PICK m \in 1 .. Len(list) : m = i + 1
        BY <4>1
      <4>3. Ahead(list, list[m], k) <=> m <= j
        BY <2>3, <2>4, <2>7 DEF Ahead, NoDuplicates
      <4> QED BY <4>1, <4>2, <4>3
    <3> QED BY <3>1, <3>2
  <2> QED BY <2>5, <2>6, <2>7, <2>8, <2>9
<1> QED BY <1>2, <1>3

(* A step of the iterator keeps the counts right.                          *)
LEMMA IterateCounts ==
  ASSUME HashInv, UNCHANGED <<buckets, vals>>, NEW counts \in [HashKeys -> Nat],
         NEW q0 \in 0..HASH_SIZE, NEW q1, EntryOK(q0, q1), Deliver(Advance(q0, q1), counts),
         quiet' => \A k \in DOMAIN vals : counts[k] = FirstPass(q0, k) + Loaded(q0, q1, k)
  PROVE  /\ seen' \in [HashKeys -> Nat]
         /\ quiet' => \A k \in DOMAIN vals' : seen'[k] = (FirstPass(p0, k) + Loaded(p0, p1, k))'
<1> DEFINE r == Advance(q0, q1)
<1>1. HashOK /\ HeldOK
  BY DEF HashInv
<1>2. r.p0 \in 0..HASH_SIZE /\ EntryOK(r.p0, r.p1) /\ (r.p0 # HASH_SIZE => r.p1 # HashNull)
  BY <1>1, AdvanceOK
<1>3. ASSUME NEW k \in DOMAIN vals
      PROVE  FirstPass(r.p0, k) + Loaded(r.p0, r.p1, k) = FirstPass(q0, k) + Loaded(q0, q1, k)
  BY <1>1, AdvanceCounts
<1>4. Deliver(r, counts)
  OBVIOUS
<1> HIDE DEF r
<1>5. p0' = r.p0 /\ DOMAIN vals' = DOMAIN vals /\ DOMAIN vals \subseteq HashKeys
  BY <1>1, <1>4 DEF Deliver, HeldOK
<1>6. \A k \in DOMAIN vals : /\ FirstPass(p0, k)' = FirstPass(p0', k)
                             /\ Loaded(p0, p1, k)' = Loaded(p0', p1', k)
  BY DEF FirstPass, Loaded
<1>7. CASE r.p0 = HASH_SIZE
  <2>1. p1' = r.p1 /\ seen' = counts
    BY <1>4, <1>7 DEF Deliver
  <2> QED BY <1>3, <1>5, <1>6, <2>1
<1>8. CASE r.p0 # HASH_SIZE
  <2> DEFINE a == r.p1
  <2>1. a \in DOMAIN vals /\ HashOf[a] = BucketAt(r.p0) /\ a \in HashKeys
    BY <1>2, <1>5, <1>8 DEF EntryOK
  <2>2. p1' = NextOf(a) /\ seen' = IF quiet' THEN [counts EXCEPT ![a] = @ + 1] ELSE counts
    BY <1>4, <1>8 DEF Deliver
  <2> HIDE DEF a
  <2>3. seen' \in [HashKeys -> Nat]
    BY <2>1, <2>2
  <2>4. ASSUME quiet', NEW k \in DOMAIN vals PROVE seen'[k] = FirstPass(p0', k) + Loaded(p0', p1', k)
    <3>1. counts[k] = FirstPass(r.p0, k) + Loaded(r.p0, a, k)
      BY <1>3, <2>4 DEF a
    <3>2. Loaded(r.p0, NextOf(a), k) = Loaded(r.p0, a, k) + (IF k = a THEN 1 ELSE 0)
      BY <1>1, <1>2, <1>8, <2>1, DeliverCounts
    <3>3. seen'[k] = counts[k] + (IF k = a THEN 1 ELSE 0)
      BY <1>5, <2>1, <2>2, <2>4
    <3>4. FirstPass(r.p0, k) \in Int /\ Loaded(r.p0, a, k) \in Int
      BY DEF FirstPass, Loaded
    <3> QED BY <1>5, <2>2, <3>1, <3>2, <3>3, <3>4
  <2> QED BY <1>5, <1>6, <2>3, <2>4
<1> QED BY <1>7, <1>8

(* A search that does not reorganise its bucket changes nothing; any other *)
(* search ends the history.                                                *)
LEMMA DisturbedCounts ==
  ASSUME IterInv, NEW changed, Disturbed(changed), UNCHANGED <<vals, p0, p1>>, ~changed => UNCHANGED buckets
  PROVE  /\ seen' \in [HashKeys -> Nat]
         /\ quiet' => \A k \in DOMAIN vals' : seen'[k] = (FirstPass(p0, k) + Loaded(p0, p1, k))'
<1>1. seen' \in [HashKeys -> Nat]
  BY DEF IterInv, Disturbed, NeverSeen
<1>2. ASSUME quiet' PROVE quiet /\ seen' = seen /\ UNCHANGED <<buckets, vals, p0, p1>>
  BY <1>2 DEF Disturbed
<1> QED BY <1>1, <1>2 DEF IterInv, FirstPass, Loaded

(* Every step preserves what the counts say.                               *)
LEMMA IterStep ==
  ASSUME IterInv, [HashNext]_hashVars
  PROVE  IterInv'
<1>0. HashInv /\ HashOK /\ HeldOK /\ p0 \in 0..HASH_SIZE /\ EntryOK(p0, p1) /\ seen \in [HashKeys -> Nat]
  BY DEF IterInv, HashInv
<1>a. HashInv'
  BY <1>0, HashStep
<1> DEFINE Goal == /\ seen' \in [HashKeys -> Nat]
                   /\ quiet' => \A k \in DOMAIN vals' : seen'[k] = (FirstPass(p0, k) + Loaded(p0, p1, k))'
<1> SUFFICES Goal
  BY <1>a DEF IterInv
<1>b. NeverSeen \in [HashKeys -> Nat] /\ \A k \in HashKeys : NeverSeen[k] = 0
  BY DEF NeverSeen
<1>1. CASE UNCHANGED hashVars \/ drmHashCreate
  <2>1. UNCHANGED <<buckets, vals, p0, p1, seen, quiet>>
    BY <1>1 DEF hashVars, drmHashCreate
  <2> QED BY <2>1 DEF IterInv, FirstPass, Loaded
<1>2. CASE drmHashDestroy
  <2>1. vals' = [k \in {} |-> HashNull] /\ seen' = NeverSeen
    BY <1>2 DEF drmHashDestroy
  <2> QED BY <1>b, <2>1
<1>3. ASSUME NEW k \in HashKeys, drmHashLookup(k) PROVE Goal
  <2>1. /\ Disturbed(Searched(k) # buckets[HashOf[k]]) /\ UNCHANGED <<vals, p0, p1>>
        /\ buckets' = [buckets EXCEPT ![HashOf[k]] = Searched(k)]
    BY <1>3 DEF drmHashLookup
  <2>2. ~ (Searched(k) # buckets[HashOf[k]]) => UNCHANGED buckets
    BY <1>0, <2>1 DEF HashOK
  <2> QED BY <2>1, <2>2, DisturbedCounts
<1>4. ASSUME NEW k \in HashKeys, NEW v \in HashValues, NEW memory \in BOOLEAN, drmHashInsert(k, v, memory)
      PROVE  Goal
  <2>1. CASE HashFind(k) \/ ~memory
    <3>1. /\ Disturbed(Searched(k) # buckets[HashOf[k]]) /\ UNCHANGED <<vals, p0, p1>>
          /\ buckets' = [buckets EXCEPT ![HashOf[k]] = Searched(k)]
      BY <1>4, <2>1 DEF drmHashInsert
    <3>2. ~ (Searched(k) # buckets[HashOf[k]]) => UNCHANGED buckets
      BY <1>0, <3>1 DEF HashOK
    <3> QED BY <3>1, <3>2, DisturbedCounts
  <2>2. CASE ~HashFind(k) /\ memory
    <3>1. quiet' = FALSE /\ seen' = NeverSeen
      BY <1>4, <2>2 DEF drmHashInsert, Disturbed
    <3> QED BY <1>b, <3>1
  <2> QED BY <2>1, <2>2
<1>5. ASSUME NEW k \in HashKeys, drmHashDelete(k) PROVE Goal
  <2>1. UNCHANGED <<p0, p1, seen, quiet>> /\ k # p1
    BY <1>5 DEF drmHashDelete
  <2>2. CASE ~HashFind(k)
    <3>1. UNCHANGED <<buckets, vals>>
      BY <1>5, <2>2 DEF drmHashDelete
    <3> QED BY <2>1, <3>1 DEF IterInv, FirstPass, Loaded
  <2>3. CASE HashFind(k)
    <3> DEFINE h == HashOf[k]
    <3>1. vals' = M!Without(vals, k) /\ buckets' = [buckets EXCEPT ![h] = RemoveItem(buckets[h], k)] /\ h \in HashBuckets
      BY <1>0, <1>5, <2>3, SearchedItems DEF drmHashDelete
    <3>2. DOMAIN vals' = DOMAIN vals \ {k}
      BY <3>1 DEF M!Without
    <3>3. buckets \in [HashBuckets -> Seq(HashKeys)] /\ buckets[h] \in Seq(HashKeys) /\ NoDuplicates(buckets[h])
      BY <1>0, <3>1 DEF HashOK
    <3>4. ASSUME NEW x \in DOMAIN vals \ {k}
          PROVE  Ahead(buckets'[HashOf[x]], p1, x) <=> Ahead(buckets[HashOf[x]], p1, x)
      <4>1. HashOf[x] \in HashBuckets
        BY <1>0, HeldBucket
      <4>2. CASE HashOf[x] # h
        BY <3>1, <3>3, <4>1, <4>2
      <4>3. CASE HashOf[x] = h
        <5>1. buckets'[h] = RemoveItem(buckets[h], k)
          BY <3>1, <3>3
        <5> QED BY <2>1, <3>3, <4>3, <5>1, RemoveOrder
      <4> QED BY <4>2, <4>3
    <3>5. \A x \in DOMAIN vals \ {k} : FirstPass(p0, x)' = FirstPass(p0, x) /\ Loaded(p0, p1, x)' = Loaded(p0, p1, x)
      BY <2>1, <3>4 DEF FirstPass, Loaded
    <3> QED BY <2>1, <3>2, <3>5 DEF IterInv
  <2> QED BY <2>2, <2>3
<1>6. CASE drmHashFirst
  <2>1. Deliver(Advance(0, First(buckets[0])), NeverSeen) /\ UNCHANGED <<buckets, vals>>
    BY <1>6 DEF drmHashFirst
  <2>2. 0 \in 0..HASH_SIZE /\ EntryOK(0, First(buckets[0]))
    BY <1>0, FirstEntryOK
  <2>3. ASSUME NEW k \in DOMAIN vals PROVE NeverSeen[k] = FirstPass(0, k) + Loaded(0, First(buckets[0]), k)
    <3>1. HashOf[k] \in Int /\ 0 <= HashOf[k] /\ BucketAt(0) = 0 /\ k \in HashKeys
      BY <1>0, HeldBucket DEF BucketAt, HeldOK
    <3>2. HashOf[k] = 0 => Ahead(buckets[HashOf[k]], First(buckets[0]), k)
      BY <1>0, AheadEnds
    <3>3. Loaded(0, First(buckets[0]), k) = 0 /\ FirstPass(0, k) = 0
      BY <3>1, <3>2 DEF Loaded, FirstPass
    <3> QED BY <1>b, <3>1, <3>3
  <2> DEFINE q1 == First(buckets[0])
  <2> HIDE DEF q1
  <2>4. EntryOK(0, q1) /\ Deliver(Advance(0, q1), NeverSeen)
        /\ \A k \in DOMAIN vals : NeverSeen[k] = FirstPass(0, k) + Loaded(0, q1, k)
    BY <2>1, <2>2, <2>3 DEF q1
  <2> QED BY <1>0, <1>b, <2>1, <2>2, <2>4, IterateCounts
<1>7. CASE drmHashNext
  <2>1. Deliver(Advance(p0, p1), seen) /\ UNCHANGED <<buckets, vals, quiet>>
    BY <1>7 DEF drmHashNext
  <2>2. quiet' => \A k \in DOMAIN vals : seen[k] = FirstPass(p0, k) + Loaded(p0, p1, k)
    BY <2>1 DEF IterInv
  <2> QED BY <1>0, <2>1, <2>2, IterateCounts
<1> QED BY <1>1, <1>2, <1>3, <1>4, <1>5, <1>6, <1>7 DEF HashNext

(* An undisturbed iteration delivers every entry that is still there once, *)
(* those of bucket 0 twice and those of the last bucket never, for any     *)
(* size of the table, and whichever delivered entries are deleted during   *)
(* it.                                                                     *)
THEOREM HashIterates == HashSpec => []IterationIsExact
<1>1. HashInit => IterInv
  BY HashInitInv DEF HashInit, IterInv, NeverSeen
<1>2. IterInv /\ [HashNext]_hashVars => IterInv'
  BY IterStep
<1>3. IterInv => IterationIsExact
  <2> SUFFICES ASSUME IterInv, p0 = HASH_SIZE, quiet, NEW k \in DOMAIN vals
               PROVE  seen[k] = TimesDelivered(k)
    BY DEF IterationIsExact
  <2>1. /\ HashOf[k] \in Int /\ 0 <= HashOf[k] /\ HashOf[k] <= HASH_SIZE - 1 /\ HASH_SIZE \in Int /\ HASH_SIZE >= 2
    BY HeldBucket DEF IterInv, HashInv
  <2>2. BucketAt(p0) = HASH_SIZE - 1
    BY <2>1 DEF BucketAt
  <2>3. Loaded(p0, p1, k) = IF HashOf[k] = HASH_SIZE - 1 THEN 0 ELSE 1
    BY <2>1, <2>2 DEF Loaded
  <2>4. FirstPass(p0, k) = IF HashOf[k] = 0 THEN 1 ELSE 0
    BY <2>1 DEF FirstPass
  <2> QED BY <2>1, <2>3, <2>4 DEF IterInv, TimesDelivered
<1> QED BY <1>1, <1>2, <1>3, PTL DEF HashSpec
=============================================================================
