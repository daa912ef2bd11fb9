----------------------------- MODULE FakeFence ------------------------------
(* The loop of _fence_wait_internal in intel/intel_bufmgr_fake.c: waiting  *)
(* for a fence with a kernel that compares fence numbers without regard to *)
(* wrap-around, gives up after three seconds and may be interrupted.       *)
EXTENDS Integers

CONSTANTS
  WaitMax,    \* 0x7fffffff : fence numbers run from 1 to WaitMax
  BusyLimit,  \* 5 : waits without progress before the program gives up
  InFlight    \* bound: fences emitted and not yet passed

(* The numbers an int can hold are odd in number.  The farthest fence is   *)
(* nearer than half of them, and by one more than it seems: the tests of   *)
(* cases C and D are strict.                                               *)
ASSUME FenceAssumption ==
  /\ {WaitMax, BusyLimit, InFlight} \subseteq Nat \ {0}
  /\ WaitMax % 2 = 1
  /\ 2 * InFlight + 1 < WaitMax

VARIABLES
  passed,   \* how many fences the card has passed, *last_dispatch behind it
  awaited,   \* which fence is waited for; seq is its number
  hw_seq,   \* the copy of *last_dispatch taken at the top of the loop
  ret,      \* what DRM_I915_IRQ_WAIT returned
  busy,     \* busy_count
  late,     \* history: the card wrapped since the kernel's last answer
  at        \* where the function is

waitVars == <<passed, awaited, hw_seq, ret, busy, late, at>>

Number(n) == ((n - 1) % WaitMax) + 1
seq == Number(awaited)
last_dispatch == Number(passed)
Far == (WaitMax + 1) \div 2     \* 0x40000000

WaitStart(p, n) ==
  /\ passed = p /\ awaited = n
  /\ hw_seq = 0 /\ ret = "none" /\ busy = 0 /\ late = FALSE
  /\ at = "top"

(* The wait begins anywhere in the cycle of numbers, for a fence that the  *)
(* card may or may not have passed.                                        *)
WaitInit ==
  \E p, n \in 1..(2 * WaitMax) :
    /\ n - p \in (-InFlight)..InFlight
    /\ WaitStart(p, n)

(* The card passes the next fence; it never runs ahead of what was sent.   *)
CardPasses ==
  /\ at \in {"top", "kernel", "back"}
  /\ passed < awaited + InFlight
  /\ passed' = passed + 1
  /\ late' = (late \/ (at = "back" /\ Number(passed') = 1))
  /\ UNCHANGED <<awaited, hw_seq, ret, busy, at>>

(* Case C: the card has wrapped around ahead of the fence.                 *)
CaseC(last) == seq - last > Far

Top ==
  /\ at = "top"
  /\ hw_seq' = last_dispatch
  /\ at' = IF CaseC(last_dispatch) THEN "returned" ELSE "kernel"
  /\ UNCHANGED <<passed, awaited, ret, busy, late>>

(* DRM_I915_IRQ_WAIT (external): success as soon as the card's number is   *)
(* not below the fence's, -EBUSY after three seconds otherwise, -EINTR at  *)
(* any time.                                                               *)
KernelWait ==
  /\ at = "kernel"
  /\ \/ last_dispatch >= seq /\ ret' = "ok"
     \/ last_dispatch < seq /\ ret' = "EBUSY"
     \/ ret' = "EINTR"
  /\ at' = "back"
  /\ late' = FALSE
  /\ UNCHANGED <<passed, awaited, hw_seq, busy>>

\* mutation of KernelLied: the kernel is believed
KernelTold == FALSE

(* Case D: the kernel says the fence has passed because the fences wrapped *)
(* around ahead of the card.                                               *)
KernelLied == ret = "ok" /\ seq - last_dispatch < -Far

(* Case E: the card wrapped during the wait.                               *)
CaseE == ret = "EBUSY" /\ CaseC(last_dispatch)

(* Case F: a busy card that makes progress gets more time.  Interrupted    *)
(* waits count as waits without progress.                                  *)
BusyCount ==
  IF ret = "EBUSY" /\ ~CaseE /\ hw_seq # last_dispatch THEN 0 ELSE busy + 1

Again ==
  \/ KernelLied
  \/ ret = "EINTR"
  \/ ret = "EBUSY" /\ ~CaseE /\ BusyCount < BusyLimit

Back ==
  /\ at = "back"
  /\ at' = IF Again THEN "top"
           ELSE IF ret = "ok" \/ CaseE THEN "cleared"   \* clear_fenced(seq)
           ELSE "aborted"
  /\ busy' = IF BusyCount > BusyLimit THEN BusyLimit ELSE BusyCount
  /\ UNCHANGED <<passed, awaited, hw_seq, ret, late>>

WaitNext == CardPasses \/ Top \/ KernelWait \/ Back

WaitSpec == WaitInit /\ [][WaitNext]_waitVars

(* When the wait ends the card has passed the fence, unless the card       *)
(* wrapped around between the kernel's last answer and the test of it.     *)
WaitIsHonestButLate ==
  at \in {"returned", "cleared"} => passed >= awaited \/ late
=============================================================================
