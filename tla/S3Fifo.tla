------------------------------- MODULE S3Fifo -------------------------------
(***************************************************************************)
(* The S3-FIFO eviction policy of one shard (crates/core/src/s3fifo.rs).   *)
(*                                                                         *)
(* The policy is one record, the fields of the struct: three FIFO queues   *)
(* of keys (small, main, ghost), the metadata of the keys that are live,   *)
(* the membership of the ghost queue and two counters.  Each method is an  *)
(* operator from a policy to a policy, so that a shard operation can chain *)
(* several of them in one step, as the code does under the shard's lock.   *)
(* A key is never unlinked from a queue: remove() forgets only the         *)
(* metadata, and the reference that stays behind is met again later.       *)
(***************************************************************************)
EXTENDS Integers, Sequences, FiniteSets, Functions, FiniteSetsExt, KeyMap

CONSTANTS
  PROMOTE_THRESHOLD,  \* 1 in the code: a key leaves small alive above this
  FREQ_MAX,           \* 3 in the code: the cap of the hit counter
  SMALL_PCT,          \* 10 in the code: target share of small, in percent
  MIN_GHOST           \* 16 in the code: the least capacity of the ghost set

ASSUME PolicyAssumption ==
  /\ PROMOTE_THRESHOLD \in Nat
  /\ FREQ_MAX \in Nat
  /\ SMALL_PCT \in Nat
  /\ MIN_GHOST \in Nat

Loc == {"Small", "Main"}

Meta == [freq : 0..FREQ_MAX, loc : Loc]

MetaMap == UNION {[S -> Meta] : S \in SUBSET Keys}

\* struct S3Fifo
Policy == [small : Seq(Keys), main : Seq(Keys), ghost : Seq(Keys),
           meta : MetaMap,
           ghost_set : SUBSET Keys,
           small_count : Nat, main_count : Nat]

pol_new ==
  [small |-> <<>>, main |-> <<>>, ghost |-> <<>>, meta |-> map_new,
   ghost_set |-> {}, small_count |-> 0, main_count |-> 0]

len(p) == p.small_count + p.main_count

\* Mutant of insert: a remembered key stays in the ghost set.
insert_keeps_ghost(p, k) ==
  LET l == IF k \in p.ghost_set THEN "Main" ELSE "Small"
  IN  [p EXCEPT !.meta = map_insert(@, k, [freq |-> 0, loc |-> l]),
                !.small = IF l = "Small" THEN Append(@, k) ELSE @,
                !.main = IF l = "Main" THEN Append(@, k) ELSE @,
                !.small_count = IF l = "Small" THEN @ + 1 ELSE @,
                !.main_count = IF l = "Main" THEN @ + 1 ELSE @]

\* Mutant of insert: a remembered key is pushed to the wrong queue.
insert_wrong_queue(p, k) ==
  IF k \in p.ghost_set
  THEN [p EXCEPT !.ghost_set = @ \ {k},
                 !.meta = map_insert(@, k, [freq |-> 0, loc |-> "Main"]),
                 !.small = Append(@, k),
                 !.main_count = @ + 1]
  ELSE [p EXCEPT !.meta = map_insert(@, k, [freq |-> 0, loc |-> "Small"]),
                 !.small = Append(@, k),
                 !.small_count = @ + 1]

\* A key enters: main if the ghost set remembers it, small otherwise.
insert(p, k) ==
  IF k \in p.ghost_set
  THEN [p EXCEPT !.ghost_set = @ \ {k},
                 !.meta = map_insert(@, k, [freq |-> 0, loc |-> "Main"]),
                 !.main = Append(@, k),
                 !.main_count = @ + 1]
  ELSE [p EXCEPT !.meta = map_insert(@, k, [freq |-> 0, loc |-> "Small"]),
                 !.small = Append(@, k),
                 !.small_count = @ + 1]

bumped(f) == IF f < FREQ_MAX THEN f + 1 ELSE FREQ_MAX

\* A hit on a key: only its counter moves.
touch(p, k) ==
  IF k \in DOMAIN p.meta
  THEN [p EXCEPT !.meta[k].freq = bumped(@)]
  ELSE p

\* Mutant of remove: the counters are left to evict_one.
remove_keeps_count(p, k) == [p EXCEPT !.meta = map_remove(@, k)]

\* A key was deleted or has expired: its queue reference stays behind.
remove(p, k) ==
  IF k \notin DOMAIN p.meta THEN p
  ELSE IF p.meta[k].loc = "Small"
       THEN [p EXCEPT !.meta = map_remove(@, k), !.small_count = @ - 1]
       ELSE [p EXCEPT !.meta = map_remove(@, k), !.main_count = @ - 1]

\* The while loop of push_ghost pops the front of the ghost queue until the
\* ghost set fits its capacity or the queue is empty; trimmed(g, gs, cap) is
\* how many references that takes.
trimmed(g, gs, cap) ==
  Min({n \in 0..Len(g) : Cardinality(gs \ Range(SubSeq(g, 1, n))) <= cap}
        \cup {Len(g)})

ghost_cap(p) == IF len(p) > MIN_GHOST THEN len(p) ELSE MIN_GHOST

push_ghost(p, k) ==
  LET g  == Append(p.ghost, k)
      gs == p.ghost_set \cup {k}
      n  == trimmed(g, gs, ghost_cap(p))
  IN  [p EXCEPT !.ghost = SubSeq(g, n + 1, Len(g)),
                !.ghost_set = gs \ Range(SubSeq(g, 1, n))]

\* One step on the small queue: reconcile a drained queue, skip a reference
\* to a key that is gone or has moved, promote, or evict into the ghost.
step_small(p) ==
  LET k == Head(p.small)
      q == [p EXCEPT !.small = Tail(@)]
  IN CASE p.small = <<>> ->
            [pol |-> [p EXCEPT !.small_count = 0], victim |-> None]
       [] p.small # <<>> /\ (k \notin DOMAIN p.meta \/ p.meta[k].loc # "Small") ->
            [pol |-> q, victim |-> None]
       [] p.small # <<>> /\ k \in DOMAIN p.meta /\ p.meta[k].loc = "Small"
            /\ p.meta[k].freq > PROMOTE_THRESHOLD ->
            [pol |-> [q EXCEPT !.meta[k] = [freq |-> 0, loc |-> "Main"],
                               !.small_count = @ - 1,
                               !.main_count = @ + 1,
                               !.main = Append(@, k)],
             victim |-> None]
       [] OTHER ->
            [pol |-> push_ghost([q EXCEPT !.meta = map_remove(@, k),
                                          !.small_count = @ - 1], k),
             victim |-> k]

\* Mutant of step_main: a second chance does not decay the counter.
step_main_no_decay(p) ==
  LET k == Head(p.main)
      q == [p EXCEPT !.main = Tail(@)]
  IN CASE p.main = <<>> ->
            [pol |-> [p EXCEPT !.main_count = 0], victim |-> None]
       [] p.main # <<>> /\ (k \notin DOMAIN p.meta \/ p.meta[k].loc # "Main") ->
            [pol |-> q, victim |-> None]
       [] p.main # <<>> /\ k \in DOMAIN p.meta /\ p.meta[k].loc = "Main"
            /\ p.meta[k].freq > 0 ->
            [pol |-> [q EXCEPT !.main = Append(@, k)], victim |-> None]
       [] OTHER ->
            [pol |-> [q EXCEPT !.meta = map_remove(@, k), !.main_count = @ - 1],
             victim |-> k]

\* One step on the main queue: as above, with a second chance in place of the
\* promotion and no ghost.
step_main(p) ==
  LET k == Head(p.main)
      q == [p EXCEPT !.main = Tail(@)]
  IN CASE p.main = <<>> ->
            [pol |-> [p EXCEPT !.main_count = 0], victim |-> None]
       [] p.main # <<>> /\ (k \notin DOMAIN p.meta \/ p.meta[k].loc # "Main") ->
            [pol |-> q, victim |-> None]
       [] p.main # <<>> /\ k \in DOMAIN p.meta /\ p.meta[k].loc = "Main"
            /\ p.meta[k].freq > 0 ->
            [pol |-> [q EXCEPT !.meta[k].freq = @ - 1, !.main = Append(@, k)],
             victim |-> None]
       [] OTHER ->
            [pol |-> [q EXCEPT !.meta = map_remove(@, k), !.main_count = @ - 1],
             victim |-> k]

use_small(p) ==
  \/ p.main_count = 0
  \/ /\ p.small_count > 0
     /\ p.small_count * 100 >= len(p) * SMALL_PCT

\* One turn of the loop of evict_one; the loop returns None on an empty
\* policy, which is its caller's test (Shard.tla).
evict_step(p) == IF use_small(p) THEN step_small(p) ELSE step_main(p)

-----------------------------------------------------------------------------
(* When a policy is sound.  Shard.tla states these of every reachable one.  *)

\* The live keys of a queue, by their metadata.
Located(p, l) == {k \in DOMAIN p.meta : p.meta[k].loc = l}

\* The counters count them.
CountsOK(p) ==
  /\ p.small_count = Cardinality(Located(p, "Small"))
  /\ p.main_count = Cardinality(Located(p, "Main"))

\* Every live key can be reached by popping the queue it is located in.
QueuedOK(p) ==
  /\ Located(p, "Small") \subseteq Range(p.small)
  /\ Located(p, "Main") \subseteq Range(p.main)

\* Ghosts are not live, and popping the ghost queue reaches all of them.
GhostOK(p) ==
  /\ p.ghost_set \cap DOMAIN p.meta = {}
  /\ p.ghost_set \subseteq Range(p.ghost)

PolicyOK(p) == p \in Policy /\ CountsOK(p) /\ QueuedOK(p) /\ GhostOK(p)
=============================================================================
