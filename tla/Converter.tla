----------------------------- MODULE Converter -----------------------------
(* The caches of detail/Converter.h: a few buffer pools and a few scaling   *)
(* contexts, each kept for the geometry it was built for and replaced when  *)
(* it is the one used longest ago, and a single context that rearranges     *)
(* planes, kept for the last geometry it served.  A converter is a record   *)
(* of these, the stamp clock the two caches share, and what the request had *)
(* to build.                                                                 *)
EXTENDS Integers, FiniteSetsExt

CONSTANT Slots      \* entries of each cache: 4

ASSUME SlotsAssumption == Slots \in Nat /\ Slots >= 4

EmptySlot == [live |-> FALSE, key |-> <<>>, used |-> 0, colours |-> <<>>]
NewConverter == [clock |-> 0, pools |-> [i \in 1..Slots |-> EmptySlot],
                 scalers |-> [i \in 1..Slots |-> EmptySlot], replaner |-> <<>>, built |-> {}]

Hits(cache, key) == {i \in 1..Slots : cache[i].live /\ cache[i].key = key}

\* The search for a slot to give up starts over at each one that is empty.
Searched(cache) == Max({1} \cup {i \in 1..Slots : ~cache[i].live})..Slots

\* mutant: the slot used last is the one replaced
MostRecentlyUsed(cache) ==
  CHOOSE i \in Searched(cache) : \A j \in Searched(cache) :
    cache[i].used > cache[j].used \/ (cache[i].used = cache[j].used /\ i <= j)

\* The first of those used longest ago, among the slots searched last.
LeastRecentlyUsed(cache) ==
  CHOOSE i \in Searched(cache) : \A j \in Searched(cache) :
    cache[i].used < cache[j].used \/ (cache[i].used = cache[j].used /\ i <= j)

Slot(cache, key) == IF Hits(cache, key) # {} THEN CHOOSE i \in Hits(cache, key) : TRUE
                    ELSE LeastRecentlyUsed(cache)

Tick(converter) == [converter EXCEPT !.clock = @ + 1]

\* pooledFrame(): the pool of this geometry, built in the slot given up if there is none.
Pooled(converter, key) ==
  LET pools == converter.pools
  IN [Tick(converter) EXCEPT
        !.pools[Slot(pools, key)] = [EmptySlot EXCEPT !.live = TRUE, !.key = key, !.used = converter.clock + 1],
        !.built = IF Hits(pools, key) = {} THEN @ \cup {"pool"} ELSE @]

\* Its slot has been given up before the pool turns out not to be had.
PoolFailed(converter, key) ==
  LET pools == converter.pools
  IN IF Hits(pools, key) # {} THEN Pooled(converter, key)
     ELSE [Tick(converter) EXCEPT !.pools[Slot(pools, key)] = [@ EXCEPT !.live = FALSE, !.key = key]]

\* scalerFor(): a context is only replaced once there is another one.
Scaler(converter, key) ==
  LET scalers == converter.scalers
      slot == Slot(scalers, key)
  IN [Tick(converter) EXCEPT
        !.scalers[slot] = IF Hits(scalers, key) # {} THEN [@ EXCEPT !.used = converter.clock + 1]
                          ELSE [EmptySlot EXCEPT !.live = TRUE, !.key = key, !.used = converter.clock + 1],
        !.built = IF Hits(scalers, key) = {} THEN @ \cup {"scaler"} ELSE @]

\* mutant: a context keeps the colours it was built with
ColouredOnce(converter, key, colours) ==
  LET slot == Slot(converter.scalers, key)
  IN [converter EXCEPT !.scalers[slot].colours = IF @ = <<>> THEN colours ELSE @]

\* applyColorspace(): a context is told the colours of every frame it scales.
Coloured(converter, key, colours) ==
  [converter EXCEPT !.scalers[Slot(converter.scalers, key)].colours = colours]

\* replane(): its one context is built anew for any geometry but the one it has.
Replaned(converter, key) ==
  [converter EXCEPT !.replaner = key,
                    !.built = IF converter.replaner = key THEN @ ELSE @ \cup {"replaner"}]

\* There is no context for another geometry, and none is left for the one before.
ReplanerLost(converter) == [converter EXCEPT !.replaner = <<>>]

=============================================================================
