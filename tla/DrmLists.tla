------------------------------ MODULE DrmLists ------------------------------
(***************************************************************************)
(* The intrusive doubly linked lists of libdrm_lists.h.                    *)
(*                                                                         *)
(* A list is the sequence of its members, head first.  A member embeds a   *)
(* node, and whether an operation on the node is defined depends on what   *)
(* its two pointers hold, so each node carries a link state:               *)
(*   "zero"    calloc'd memory: both pointers are NULL;                    *)
(*   "self"    initialised and on no list: it points at itself;            *)
(*   "linked"  on a list;                                                  *)
(*   "stale"   taken off with DRMLISTDEL, which leaves the pointers aimed  *)
(*             at the former neighbours.                                   *)
(***************************************************************************)
EXTENDS Integers, Sequences

Links == {"zero", "self", "linked", "stale"}

(* DRMLISTDEL writes through both pointers: NULL ones crash, stale ones    *)
(* write into former neighbours that may have moved or been freed.         *)
DelFaults(link) == link \in {"zero", "stale"}

(* DRMLISTDEL unlinks without re-initialising; on a self-linked node it    *)
(* only rewrites the node's own pointers.                                  *)
AfterDel(link) == IF link = "linked" THEN "stale" ELSE link

(* DRMLISTEMPTY applied to a member asks whether the node is on a list: a  *)
(* stale node answers no differently from a linked one.                    *)
LooksUnlinked(link) == link = "self"

Items(list) == {list[i] : i \in 1 .. Len(list)}

(* The list after DRMLISTDEL of item, which occurs at most once.           *)
RemoveItem(list, item) ==
  IF item \in Items(list)
  THEN LET at == CHOOSE i \in 1 .. Len(list) : list[i] = item
       IN  [j \in 1 .. Len(list) - 1 |-> IF j < at THEN list[j] ELSE list[j + 1]]
  ELSE list

(* The list after DRMLISTDEL of its first n members.                       *)
DropFirst(list, n) == [j \in 1 .. Len(list) - n |-> list[j + n]]

NoDuplicates(list) ==
  \A i, j \in 1 .. Len(list) : list[i] = list[j] => i = j
=============================================================================
