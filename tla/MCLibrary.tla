----------------------------- MODULE MCLibrary ------------------------------
(* The core library: its containers and allocators, the reference count,   *)
(* devices, queries, events and waits, one of them at a time.              *)
EXTENDS DrmHash, DrmSkipList, DrmRandom, MmHeap, DrmAtomic, DrmDevice, DrmMode

CONSTANTS va, vb

VARIABLE lib

Bus(domain, slot) == [dom |-> domain, slot |-> slot]

(* Two cards whose bus ids differ only in the domain, and a third one.     *)
Bus3 == [m \in 0..2 |-> CASE m = 0 -> Bus(0, 1) [] m = 1 -> Bus(1, 1) [] m = 2 -> Bus(0, 2)]

Machine(bus, ver) ==
  [bus |-> bus, driver |-> [m \in DOMAIN bus |-> IF m = 1 THEN "i" ELSE "r"],
   ver |-> [m \in 0..2 |-> ver[m + 1]]]

Machines == {Machine(Bus3, <<"1.4", "1.4", "1.4">>),
             Machine(Bus3, <<"1.1", "none", "1.4">>)}

Init ==
  /\ lib \in {"hash", "skip list", "random", "mm", "atomic", "device", "query", "event", "wait"}
  /\ HashInit /\ SLInit /\ RandomInit /\ MmInit /\ RefInit /\ DvInit /\ QInit /\ EvInit /\ WaitInit
  /\ lib # "random" => start = 1
  /\ lib # "device" => dv.hw = Machine(Bus3, <<"1.4", "1.4", "1.4">>)
  /\ lib # "query" => qry.q = drmGetBusid
  /\ lib # "event" => evt.handlers = {"vblank"}

Containers == <<hashVars, slVars, rndVars, mmVars>>
Devices == <<dv, qry, evt, wait>>

Next ==
  /\ UNCHANGED lib
  /\ \/ lib = "hash" /\ HashNext /\ UNCHANGED <<slVars, rndVars, mmVars, vars, Devices>>
     \/ lib = "skip list" /\ SLNext /\ UNCHANGED <<hashVars, rndVars, mmVars, vars, Devices>>
     \/ lib = "random" /\ RandomNext /\ UNCHANGED <<hashVars, slVars, mmVars, vars, Devices>>
     \/ lib = "mm" /\ MmNext /\ UNCHANGED <<hashVars, slVars, rndVars, vars, Devices>>
     \/ lib = "atomic" /\ RefNext /\ UNCHANGED <<Containers, Devices>>
     \/ lib = "device" /\ DvNext /\ UNCHANGED <<Containers, vars, qry, evt, wait>>
     \/ lib = "query" /\ QNext /\ UNCHANGED <<Containers, vars, dv, evt, wait>>
     \/ lib = "event" /\ EvNext /\ UNCHANGED <<Containers, vars, dv, qry, wait>>
     \/ lib = "wait" /\ WaitNext /\ UNCHANGED <<Containers, vars, dv, qry, evt>>

(* The fairness is that of the reference count: no other variable is in    *)
(* its actions.                                                            *)
Spec == Init /\ [][Next]_<<lib, Containers, vars, Devices>> /\ RefFairness
=============================================================================
