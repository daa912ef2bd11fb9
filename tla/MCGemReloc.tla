----------------------------- MODULE MCGemReloc -----------------------------
(* The two halves of the Intel GEM library that one thread drives alone,   *)
(* one of them at a time: the mapping cache and the relocation trees.      *)
(* The same three names serve both; nothing tells buffers apart.           *)
EXTENDS MCGemVma, GemReloc

VARIABLE part

MCDevices ==
  { [ gen |-> 3, has_relaxed_fencing |-> TRUE, exec2 |-> TRUE,
      available_fences |-> 1, malloc_fails |-> FALSE, max_total |-> 2 ],
    [ gen |-> 4, has_relaxed_fencing |-> TRUE, exec2 |-> FALSE,
      available_fences |-> 0, malloc_fails |-> TRUE, max_total |-> 6 ] }

Init ==
  /\ part \in {"mappings", "relocations"}
  /\ VmaInit
  /\ RelocInit
  /\ part = "mappings" => device.gen = 4

Next ==
  /\ UNCHANGED part
  /\ \/ part = "mappings" /\ VmaNext /\ UNCHANGED relocVars
     \/ part = "relocations" /\ RelocNext /\ UNCHANGED vma

Spec == Init /\ [][Next]_<<part, vma, relocVars>>
=============================================================================
