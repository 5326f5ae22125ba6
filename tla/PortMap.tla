------------------------------- MODULE PortMap -------------------------------
(***************************************************************************)
(* The port map (runtime/vm/port.cc) with its two levels of PortSet: the   *)
(* table of all ports, and the table of each message handler's own ports,  *)
(* both changed under PortMap::mutex_.                                     *)
(***************************************************************************)
EXTENDS PortSet

CONSTANTS
  Handlers,
  Draws,            \* which ports AllocatePort may draw for each handler: bounds
                    \* on what its random generator yields
  InitialCapacity   \* kInitialCapacity

Ports == UNION {d[h] : d \in Draws, h \in Handlers}

\* kMask2 sets the two low bits of a port.  The markers are not drawn.
\* (AllocatePort meets kDeletedPort with a continue, which goes to the condition
\* of its do-while loop and not to another draw; one draw in about 2^51 is 3.)
ASSUME PortMapAssumption ==
  /\ Draws \subseteq [Handlers -> SUBSET Nat] /\ \A p \in Ports : p % 4 = 3 /\ p # kDeletedPort
  /\ InitialCapacity \in Nat /\ InitialCapacity >= 4

VARIABLES
  draws,      \* the element of Draws that this execution keeps to
  ports,      \* PortMap::ports_
  handler,    \* the handler of each entry of ports_
  own         \* MessageHandler::ports_ of each handler

map_vars == <<draws, ports, handler, own>>

PortMapInit ==
  /\ draws \in Draws
  /\ ports = NewTable(InitialCapacity)
  /\ handler = [p \in {} |-> 0]
  /\ own = [h \in Handlers |-> NewTable(InitialCapacity)]

\* AllocatePort draws until the port is new.
CreatePort(h, p) ==
  /\ p \in draws[h] /\ ~Contains(ports, p)
  /\ own' = [own EXCEPT ![h] = Insert(@, p)] /\ ports' = Insert(ports, p)
  /\ handler' = [q \in DOMAIN handler \cup {p} |-> IF q = p THEN h ELSE handler[q]]
  /\ UNCHANGED draws

\* The slots of these ports in a table.
Lookup(s, ps) == {FindIndexOfPort(s, p) : p \in ps}

Forget(ps) == handler' = [q \in DOMAIN handler \ ps |-> handler[q]] /\ UNCHANGED draws

ClosePort(p) ==
  /\ Contains(ports, p)
  /\ ports' = Rebalance(Delete(ports, Lookup(ports, {p})))
  /\ own' = [own EXCEPT ![handler[p]] = Rebalance(Delete(@, Lookup(@, {p})))]
  /\ Forget({p})

\* ClosePorts deletes all ports of a handler from both tables, and rebalances
\* only the table of all ports.
ClosePorts(h) ==
  LET ps == {own[h].map[i] : i \in Live(own[h])} IN
  /\ ps # {}
  /\ ports' = Rebalance(Delete(ports, Lookup(ports, ps)))
  /\ own' = [own EXCEPT ![h] = Delete(@, Live(@))]
  /\ Forget(ps)

PortMapNext ==
  \/ \E h \in Handlers : ClosePorts(h) \/ \E p \in Ports : CreatePort(h, p)
  \/ \E p \in Ports : ClosePort(p)

PortMapSpec == PortMapInit /\ [][PortMapNext]_map_vars

-----------------------------------------------------------------------------
(* Properties *)

\* Both tables find exactly the open ports, however often ports are opened and
\* closed: a port is found in the table of all ports and in the table of its
\* handler, and in no other.
LookupIsExact ==
  \A p \in Ports :
    /\ Contains(ports, p) <=> p \in DOMAIN handler
    /\ \A h \in Handlers :
         Contains(own[h], p) <=> p \in DOMAIN handler /\ handler[p] = h

WellFilled(s) ==
  /\ Free(s) # {} /\ s.used = Cardinality(Live(s)) /\ s.deleted = Cardinality(Deleted(s))

\* Every probe of port_set.h ends: each table, also the one that ClosePorts leaves
\* without a Rebalance, always has a free slot, and its counters are exact.
ProbesEnd == WellFilled(ports) /\ \A h \in Handlers : WellFilled(own[h])
=============================================================================
