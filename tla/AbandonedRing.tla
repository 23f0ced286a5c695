--------------------------- MODULE AbandonedRing ---------------------------
(***************************************************************************)
(* The bounded ring of request ids that RpcServer has already answered     *)
(* with a timeout error (native/c/server/rpc_server.cpp).  The code keeps  *)
(* a std::set for membership and a std::deque for the eviction order; a    *)
(* ring here is the pair of them, and the three operations below are what  *)
(* the code does between lock and unlock of abandoned_mutex.  Every id in  *)
(* the models is a real request id: the "negative id" early returns belong *)
(* to responses without an id (RpcServer.tla).                             *)
(***************************************************************************)
EXTENDS Integers, Sequences, SequencesExt

CONSTANT kMaxAbandonedIds   \* capacity of the ring: 64 in rpc_server.hpp

ASSUME RingAssumption == kMaxAbandonedIds \in Nat \ {0}

EmptyRing == [ids |-> {}, order |-> <<>>]

is_abandoned(ring, id) == id \in ring.ids

\* erase() == 0 returns early; otherwise the first matching order entry goes.
clear_abandoned(ring, id) ==
  IF id \notin ring.ids THEN ring
  ELSE [ids   |-> ring.ids \ {id},
        order |-> RemoveFirst(ring.order, id)]

\* Drop entries from the front until at most kMaxAbandonedIds are left.
EvictOldest(ring) ==
  LET excess == Len(ring.order) - kMaxAbandonedIds
      gone   == {ring.order[k] : k \in 1 .. excess}
  IN  IF excess <= 0 THEN ring
      ELSE [ids   |-> ring.ids \ gone,
            order |-> SubSeq(ring.order, excess + 1, Len(ring.order))]

mark_abandoned(ring, id) ==
  IF id \in ring.ids THEN ring
  ELSE EvictOldest([ids   |-> ring.ids \cup {id},
                    order |-> Append(ring.order, id)])
=============================================================================
