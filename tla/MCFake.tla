------------------------------- MODULE MCFake -------------------------------
(* The fake buffer manager, or the loop that it waits for a fence in.      *)
EXTENDS FakeBufmgr, FakeFence, TLC

(* b1 is the batch.  b2 only takes up room: batches use it, the program    *)
(* never looks at it.  b3 is written by the program and by the card, in    *)
(* the heap, in memory of its own, and without backing store.              *)
CONSTANTS b1, b2, b3
Sizes == b1 :> 1 @@ b2 :> 1 @@ b3 :> 2
Versions == b1 :> 1 @@ b2 :> 0 @@ b3 :> 2
Mappings == b1 :> 1 @@ b2 :> 0 @@ b3 :> 1

VARIABLE part

Init ==
  \/ part = "buffers" /\ FakeInit /\ WaitStart(1, 1)
  \/ part = "wait" /\ FakeInit /\ WaitInit

Next ==
  \/ part = "buffers" /\ FakeNext /\ UNCHANGED <<part, waitVars>>
  \/ part = "wait" /\ WaitNext /\ UNCHANGED <<part, m>>
=============================================================================
