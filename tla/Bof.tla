-------------------------------- MODULE Bof ---------------------------------
(* radeon/bof.c: documents of objects, arrays and values, counted by       *)
(* reference, written to a file and read back.  A container keeps the size *)
(* that it will have in the file, and adds a member's size when the member *)
(* is attached; the reader goes by these sizes.  A disk that is full shows *)
(* late: any beginning of what was written may be all that is there.       *)
EXTENDS Integers, Sequences, FiniteSets

CONSTANTS
  BofIds,      \* 1..n: the structures
  BofLeaves,   \* [type, len]: strings, numbers and blobs with their lengths
  BofKeyLen,   \* the length of a member's name
  BofMaxKids   \* bound: entries of a container

VARIABLE bof
  (* node: the structures; held: those the program has a reference to;     *)
  (* late: a member grew after it was attached; file: the lines on the     *)
  (* disk, whether all of them, the document they were made from, and what *)
  (* was read back.                                                        *)

Nobody == [type |-> "free", size |-> 0, len |-> 0, array |-> << >>, refcount |-> 0]
Header(b) == [type |-> b.type, size |-> b.size, array_size |-> Len(b.array), len |-> b.len]
Containers == {"object", "array"}

NoFile == [lines |-> << >>, whole |-> FALSE, doc |-> << >>, ret |-> "none", root |-> << >>]

(* A file is read, if at all, before the program goes on: reading depends  *)
(* on nothing else.                                                        *)
BofInit == bof = [node |-> [i \in BofIds |-> Nobody], held |-> {}, late |-> FALSE, file |-> NoFile]

FreeIds == {i \in BofIds : bof.node[i].type = "free"}
FirstFree == CHOOSE i \in FreeIds : \A j \in FreeIds : i <= j
Attached(i) == \E j \in BofIds, k \in 1..BofMaxKids : k <= Len(bof.node[j].array) /\ bof.node[j].array[k] = i

-----------------------------------------------------------------------------
(* bof_object and bof_array; bof_blob, bof_string and bof_int32.  When     *)
(* there is no memory they undo what they did.  A program that has grown a *)
(* member late is followed no further than to the next file.               *)
bof_object(type) == [Nobody EXCEPT !.type = type, !.size = 12, !.refcount = 1]
bof_value(leaf) == [Nobody EXCEPT !.type = leaf.type, !.size = leaf.len + 12, !.len = leaf.len, !.refcount = 1]
bof_string == bof_value([type |-> "string", len |-> BofKeyLen])

Create(b) ==
  /\ ~bof.late
  /\ FreeIds # {}
  /\ bof' = [bof EXCEPT !.node[FirstFree] = b, !.held = @ \cup {FirstFree}, !.file = NoFile]

RECURSIVE Above(_, _)
Above(i, j) == i = j \/ \E k \in DOMAIN bof.node[i].array : Above(bof.node[i].array[k], j)

(* The entries follow the others, and the container takes a reference.  A  *)
(* name is new, and the container has the only reference to it.            *)
Attach(i, v, entries, sizes) ==
  /\ ~bof.late
  /\ {i, v} \subseteq bof.held
  /\ Len(bof.node[i].array) + Len(entries) <= BofMaxKids
  /\ ~Above(v, i)
  /\ bof' = [bof EXCEPT !.node = [[@ EXCEPT ![i].array = @ \o entries, ![i].size = @ + sizes, ![v].refcount = @ + 1]
                                   EXCEPT ![entries[1]] = IF Len(entries) = 2 THEN bof_string ELSE @],
                        !.late = @ \/ Attached(i),
                        !.file = NoFile]

bof_object_set(i, v) ==
  /\ bof.node[i].type = "object"
  /\ FreeIds # {}
  /\ Attach(i, v, <<FirstFree, v>>, bof.node[v].size + bof_string.size)

bof_array_append(i, v) ==
  /\ bof.node[i].type = "array"
  /\ Attach(i, v, <<v>>, bof.node[v].size)

(* The last reference takes a reference from every entry.                  *)
RECURSIVE bof_decref(_, _)
bof_decref(node, todo) ==
  IF todo = << >> THEN node
  ELSE LET i == Head(todo)
       IN  IF node[i].refcount > 1 THEN bof_decref([node EXCEPT ![i].refcount = @ - 1], Tail(todo))
           ELSE bof_decref([node EXCEPT ![i] = Nobody], node[i].array \o Tail(todo))

Unhold(i) ==
  /\ i \in bof.held
  /\ bof' = [bof EXCEPT !.node = bof_decref(@, <<i>>), !.held = @ \ {i}, !.file = NoFile]

-----------------------------------------------------------------------------
(* The document below a structure, and its lines in a file.                *)
RECURSIVE Document(_)
Document(i) == <<Header(bof.node[i]), [k \in DOMAIN bof.node[i].array |-> Document(bof.node[i].array[k])]>>

RECURSIVE bof_file_write(_)
bof_file_write(todo) ==
  IF todo = << >> THEN << >> ELSE <<Header(bof.node[Head(todo)])>> \o bof_file_write(bof.node[Head(todo)].array \o Tail(todo))

(* An empty blob cannot be written, nor what follows it.                   *)
Writable(lines) == {n \in 0..Len(lines) : \A k \in 1..n : lines[k].type \in Containers \/ lines[k].len > 0}

bof_dump_file(i) ==
  LET lines == bof_file_write(<<i>>)
  IN  /\ i \in bof.held /\ bof.node[i].type \in Containers
      /\ \E n \in Writable(lines) :
           bof' = [bof EXCEPT !.file = [NoFile EXCEPT !.lines = SubSeq(lines, 1, n), !.whole = n = Len(lines),
                                                       !.doc = Document(i)]]

(* Entries are read while the position is before the end of the container; *)
(* an entry that is a container ends where its own size says.              *)
RECURSIVE bof_read(_, _, _)
bof_read(k, at, end) ==
  IF at >= end THEN [ok |-> TRUE, entries |-> << >>, k |-> k, at |-> at]
  ELSE IF k > Len(bof.file.lines) THEN [ok |-> FALSE]
  ELSE LET h == bof.file.lines[k]
           below == IF h.type \in Containers THEN bof_read(k + 1, at + 12, at + h.size)
                    ELSE [ok |-> TRUE, entries |-> << >>, k |-> k + 1, at |-> at + h.size]
           rest == bof_read(below.k, below.at, end)
       IN  IF ~below.ok \/ ~rest.ok THEN [ok |-> FALSE]
           ELSE [rest EXCEPT !.entries = << <<h, below.entries>> >> \o @]

(* The error path gives back as many entries as the header announced, and  *)
(* those that were not read are whatever the memory held.                  *)
bof_load_file ==
  LET lines == bof.file.lines
      r == IF lines = << >> THEN [ok |-> FALSE] ELSE bof_read(2, 12, lines[1].size)
  IN  /\ bof.file.ret = "none"
      /\ \/ /\ r.ok
            /\ bof' = [bof EXCEPT !.file.ret = "root", !.file.root = <<lines[1], r.entries>>]
         \/ /\ ~r.ok
            /\ bof' = [bof EXCEPT !.file.ret = "null"]
         \/ /\ ~r.ok /\ lines # << >>
            /\ bof' = [bof EXCEPT !.file.ret = "undefined"]

BofNext ==
  \/ \E type \in Containers : Create(bof_object(type))
  \/ \E leaf \in BofLeaves : Create(bof_value(leaf))
  \/ \E i \in BofIds, v \in BofIds : bof_object_set(i, v) \/ bof_array_append(i, v)
  \/ \E i \in BofIds : Unhold(i) \/ bof_dump_file(i)
  \/ bof_load_file

-----------------------------------------------------------------------------
(* What is returned is the whole document, never a part of it, however     *)
(* much of it reached the disk, and a file that is all there is read;      *)
(* except when a member grew after it was attached, for then the sizes are *)
(* wrong.  A file that ends early is refused, but this does not say how:   *)
(* the error path may end in the undefined, where bof_decref follows       *)
(* entries that were announced and never read (bof.c:385-388).             *)
BofRoundTrip ==
  ~bof.late =>
    /\ bof.file.ret = "root" => bof.file.root = bof.file.doc
    /\ bof.file.ret \in {"null", "undefined"} => ~bof.file.whole

(* A structure lives as long as the program or a container refers to it.   *)
BofCounted ==
  \A i \in BofIds :
    bof.node[i].refcount = Cardinality({i} \cap bof.held) + Cardinality(
      {<<j, k>> \in BofIds \X (1..BofMaxKids) : k <= Len(bof.node[j].array) /\ bof.node[j].array[k] = i})
=============================================================================
