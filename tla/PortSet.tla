------------------------------- MODULE PortSet -------------------------------
(***************************************************************************)
(* The open-addressing table of ports, runtime/vm/port_set.h, as operators *)
(* on a table.  A slot holds a port, kFreePort or kDeletedPort.            *)
(***************************************************************************)
EXTENDS Naturals, FiniteSets

kFreePort == 0
kDeletedPort == 3

\* PortSet(): an empty table of the initial capacity.
NewTable(n) == [capacity |-> n, map |-> [i \in 0 .. n - 1 |-> kFreePort],
                used |-> 0, deleted |-> 0]

Slots(s) == 0 .. s.capacity - 1
Holding(s, ports) == {i \in Slots(s) : s.map[i] \in ports}
Free(s) == Holding(s, {kFreePort})
Deleted(s) == Holding(s, {kDeletedPort})
Live(s) == {i \in Slots(s) : s.map[i] \notin {kFreePort, kDeletedPort}}

\* Where a probe that starts at slot i and goes around meets the first slot of S.
Distance(i, j, n) == (j + n - i) % n
FirstFrom(i, S, n) == CHOOSE j \in S : \A k \in S : Distance(i, j, n) <= Distance(i, k, n)

\* FindIndexOfPort stops at the port or at a free slot.
FindIndexOfPort(s, port) ==
  LET stop == Holding(s, {port, kFreePort})
      i == FirstFrom(port % s.capacity, stop, s.capacity)
  IN  IF s.map[i] = port THEN i ELSE s.capacity

\* TryLookup # end() and Contains.
Contains(s, port) == FindIndexOfPort(s, port) < s.capacity

\* Rehash: the live entries move, in the order of their slots, to a new table.
Rehash(s, n) ==
  LET moved[k \in 0 .. s.capacity] ==
        IF k = 0 THEN [i \in 0 .. n - 1 |-> kFreePort]
        ELSE IF k - 1 \in Live(s)
          THEN LET m == moved[k - 1]
                   free == {i \in 0 .. n - 1 : m[i] = kFreePort}
                   port == s.map[k - 1]
               IN  [m EXCEPT ![FirstFrom(port % n, free, n)] = port]
          ELSE moved[k - 1]
  IN  [capacity |-> n, map |-> moved[s.capacity], used |-> s.used, deleted |-> 0]

Empty(s) == s.capacity - s.used - s.deleted

\* Fault: deleted slots are never flushed.
MaintainInvariants_Fault(s) ==
  IF s.used > (s.capacity \div 4) * 3 THEN Rehash(s, 2 * s.capacity) ELSE s
MaintainInvariants(s) ==
  IF s.used > (s.capacity \div 4) * 3 THEN Rehash(s, 2 * s.capacity)
  ELSE IF Empty(s) < s.deleted THEN Rehash(s, s.capacity)
  ELSE s

\* Insert takes the first free or deleted slot.
Insert(s, port) ==
  LET i == FirstFrom(port % s.capacity, Free(s) \cup Deleted(s), s.capacity)
  IN  MaintainInvariants(
        [s EXCEPT !.map[i] = port, !.used = @ + 1,
                  !.deleted = IF s.map[i] = kDeletedPort THEN @ - 1 ELSE @])

\* Iterator::Delete on each of the slots; the caller must call Rebalance.
\* Fault: the slots become free.
Delete_Fault(s, slots) ==
  [s EXCEPT !.map = [i \in Slots(s) |-> IF i \in slots THEN kFreePort ELSE @[i]],
            !.used = @ - Cardinality(slots)]
Delete(s, slots) ==
  [s EXCEPT !.map = [i \in Slots(s) |-> IF i \in slots THEN kDeletedPort ELSE @[i]],
            !.used = @ - Cardinality(slots), !.deleted = @ + Cardinality(slots)]

Rebalance(s) == MaintainInvariants(s)
=============================================================================
