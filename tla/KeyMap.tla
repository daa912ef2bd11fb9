------------------------------- MODULE KeyMap -------------------------------
(* What the hash table and the skip list of the core library promise: a    *)
(* finite map from unsigned long keys to pointers.  Nothing here orders    *)
(* the keys or knows how they are stored.  `answer` is what the last call  *)
(* gave its caller.                                                        *)
EXTENDS FiniteSets

CONSTANTS
  Keys, Values, Nothing,
  Gives   \* what a lookup gives its caller: the "value" of the key, or the
          \* "entry" that holds it, which the key names

VARIABLES map, answer

mapVars == <<map, answer>>

(* A call and the value it delivered: Nothing when it found no entry or    *)
(* delivers none.                                                          *)
Answer(op, key, code, value) ==
  [op |-> op, key |-> key, code |-> code, value |-> value]

NoAnswer == [op |-> "none"]

MapInit ==
  /\ map = [k \in {} |-> Nothing]
  /\ answer = NoAnswer

Added(f, k, v) == [x \in DOMAIN f \cup {k} |-> IF x = k THEN v ELSE f[x]]

Without(f, k) == [x \in DOMAIN f \ {k} |-> f[x]]

MapInsert(k, v) ==
  \/ /\ k \notin DOMAIN map
     /\ map' = Added(map, k, v)
     /\ answer' = Answer("insert", k, "added", Nothing)
  \/ /\ k \in DOMAIN map
     /\ answer' = Answer("insert", k, "present", Nothing)
     /\ UNCHANGED map
  \/ /\ k \notin DOMAIN map
     /\ answer' = Answer("insert", k, "no memory", Nothing)
     /\ UNCHANGED map

MapDelete(k) ==
  \/ /\ k \in DOMAIN map
     /\ map' = Without(map, k)
     /\ answer' = Answer("delete", k, "deleted", Nothing)
  \/ /\ k \notin DOMAIN map
     /\ answer' = Answer("delete", k, "absent", Nothing)
     /\ UNCHANGED map

MapLookup(k) ==
  /\ answer' = IF k \in DOMAIN map
               THEN Answer("lookup", k, "found", IF Gives = "value" THEN map[k] ELSE k)
               ELSE Answer("lookup", k, "absent", Nothing)
  /\ UNCHANGED map

(* A step of an iteration delivers some entry of the map, or says that     *)
(* there are no more; which entries it delivers is not promised.           *)
MapIterate ==
  /\ \/ \E k \in DOMAIN map : answer' = Answer("next", k, "entry", map[k])
     \/ answer' = NoAnswer
  /\ UNCHANGED map

MapDestroy ==
  /\ map' = [k \in {} |-> Nothing]
  /\ answer' = NoAnswer

MapNext ==
  \/ \E k \in Keys, v \in Values : MapInsert(k, v)
  \/ \E k \in Keys : MapDelete(k) \/ MapLookup(k)
  \/ MapIterate
  \/ MapDestroy

MapSpec == MapInit /\ [][MapNext]_mapVars
=============================================================================
