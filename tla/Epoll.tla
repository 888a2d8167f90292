------------------------------- MODULE Epoll --------------------------------
(***************************************************************************)
(* epoll.c: a table of instances, each a red-black tree of registered      *)
(* descriptors under a lock of its own, used by several threads.           *)
(*                                                                         *)
(* What a call does under one lock is one step.  epoll_create looks for a  *)
(* slot and fills it under two separate holds of instance_lock; epoll_ctl  *)
(* and epoll_wait read the table without a lock before they take the       *)
(* instance's.  Two rules of use are assumed of the callers, and           *)
(* examples/http_server.c keeps both: creations do not overlap (the slot   *)
(* is not reserved between the two holds), and an instance is closed only  *)
(* when no call on it is under way (epoll_close frees it under them).      *)
(*                                                                         *)
(* No code of the repository puts an item on rdlist or signals cond, so a  *)
(* wait returns no events: at once, at its timeout, or, without one, only  *)
(* if the condition variable wakes it spuriously.                          *)
(***************************************************************************)
EXTENDS RbTree, Sequences

CONSTANTS
    Users,      \* the threads that call
    Slots,      \* the indices of epoll_instances, numbers from 0
    Events      \* what an epoll_event may ask for

VARIABLES
    epoll_instances,    \* slot -> an instance or Null
    call,               \* thread -> the call it is in, as a tuple
    registered          \* history: slot -> the descriptors added, with the last event given

evars == <<epoll_instances, call, registered>>

NoCall == <<"idle">>
NewInstance == [rbr |-> EmptyTree, event |-> [fd \in RbNodes |-> Null], waiting |-> FALSE]

EpollInit ==
    /\ epoll_instances = [s \in Slots |-> Null]
    /\ call = [u \in Users |-> NoCall]
    /\ registered = [s \in Slots |-> [fd \in RbNodes |-> Null]]

Free == {s \in Slots : epoll_instances[s] = Null}

find_available_fd == CHOOSE s \in Free : \A r \in Free : s <= r

InCall(s) == {u \in Users : Len(call[u]) > 1 /\ call[u][2] = s}

(***************************************************************************)
(* epoll_create: a slot is chosen, the lock let go, the instance allocated *)
(* (calloc may fail) and stored.                                           *)
(***************************************************************************)
epoll_create(u) ==
    /\ call[u] = NoCall
    /\ Free # {}
    /\ \A v \in Users : call[v][1] # "create"
    /\ call' = [call EXCEPT ![u] = <<"create", find_available_fd>>]
    /\ UNCHANGED <<epoll_instances, registered>>

CreateStore(u) ==
    /\ call[u][1] = "create"
    /\ LET s == call[u][2]
       IN  \/ UNCHANGED <<epoll_instances, registered>>         \* ENOMEM
           \/ /\ epoll_instances' = [epoll_instances EXCEPT ![s] = NewInstance]
              /\ registered' = [registered EXCEPT ![s] = [fd \in RbNodes |-> Null]]
    /\ call' = [call EXCEPT ![u] = NoCall]

(***************************************************************************)
(* find_epitem: the node on the search path that holds fd, or Null.        *)
(***************************************************************************)
RECURSIVE FindFrom(_, _, _)
FindFrom(t, node, fd) ==
    IF node = Null \/ node = fd THEN node
    ELSE FindFrom(t, t.kid[IF fd < node THEN "l" ELSE "r"][node], fd)

find_epitem(t, fd) == FindFrom(t, t.root, fd)

(***************************************************************************)
(* insert_epitem: down to the empty place, linked there, recoloured.       *)
(***************************************************************************)
RECURSIVE Descend(_, _, _)
Descend(t, node, fd) ==
    LET side == IF fd < node THEN "l" ELSE "r"
    IN  IF t.kid[side][node] = Null THEN <<node, side>>
        ELSE Descend(t, t.kid[side][node], fd)

insert_epitem(t, fd) ==
    LET place == IF t.root = Null THEN <<Null, "l">> ELSE Descend(t, t.root, fd)
    IN  rb_insert_color(rb_link_node(t, fd, place[1], place[2]), fd)

\* Adds without looking whether the descriptor is there.
ControlledBlindly(ep, op, fd, event) ==
    LET epi == find_epitem(ep.rbr, fd)
    IN  CASE op = "ADD" /\ epi = Null ->
                [ep EXCEPT !.rbr = insert_epitem(@, fd), !.event[fd] = event]
          [] op \in {"ADD", "MOD"} /\ epi # Null -> [ep EXCEPT !.event[epi] = event]
          [] op = "DEL" /\ epi # Null -> [ep EXCEPT !.rbr = rb_erase(@, epi), !.event[epi] = Null]
          [] OTHER -> ep

\* The instance after the body of epoll_ctl; unchanged when that fails.
Controlled(ep, op, fd, event) ==
    LET epi == find_epitem(ep.rbr, fd)
    IN  CASE op = "ADD" /\ epi = Null ->
                [ep EXCEPT !.rbr = insert_epitem(@, fd), !.event[fd] = event]
          [] op = "MOD" /\ epi # Null -> [ep EXCEPT !.event[epi] = event]
          [] op = "DEL" /\ epi # Null -> [ep EXCEPT !.rbr = rb_erase(@, epi), !.event[epi] = Null]
          [] OTHER -> ep

\* What the caller of a successful epoll_ctl knows to be registered.
Recorded(reg, op, fd, event) ==
    IF (op = "ADD" /\ reg[fd] = Null) \/ (op = "MOD" /\ reg[fd] # Null)
    THEN [reg EXCEPT ![fd] = event]
    ELSE IF op = "DEL" THEN [reg EXCEPT ![fd] = Null] ELSE reg

(***************************************************************************)
(* epoll_ctl: the instance is looked up unlocked; the rest is locked.      *)
(***************************************************************************)
epoll_ctl(u, s, op, fd, event) ==
    /\ call[u] = NoCall
    /\ epoll_instances[s] # Null
    /\ call' = [call EXCEPT ![u] = <<"ctl", s, op, fd, event>>]
    /\ UNCHANGED <<epoll_instances, registered>>

CtlLocked(u) ==
    /\ call[u][1] = "ctl"
    /\ LET s == call[u][2]  op == call[u][3]  fd == call[u][4]  event == call[u][5]
       IN  \/ /\ epoll_instances' = [epoll_instances EXCEPT ![s] = Controlled(@, op, fd, event)]
              /\ registered' = [registered EXCEPT ![s] = Recorded(@, op, fd, event)]
           \/ op = "ADD" /\ UNCHANGED <<epoll_instances, registered>>       \* ENOMEM
    /\ call' = [call EXCEPT ![u] = NoCall]

(***************************************************************************)
(* epoll_wait with timeout 0 returns at once; otherwise it sleeps once and *)
(* returns what the (empty) ready list holds then.                         *)
(***************************************************************************)
epoll_wait(u, s, timeout) ==
    /\ call[u] = NoCall
    /\ epoll_instances[s] # Null
    /\ IF timeout = "none" THEN UNCHANGED <<epoll_instances, call>>
       ELSE /\ epoll_instances' = [epoll_instances EXCEPT ![s].waiting = TRUE]
            /\ call' = [call EXCEPT ![u] = <<"wait", s>>]
    /\ UNCHANGED registered

WaitReturns(u) ==
    /\ call[u][1] = "wait"
    /\ epoll_instances' = [epoll_instances EXCEPT ![call[u][2]].waiting = FALSE]
    /\ call' = [call EXCEPT ![u] = NoCall]
    /\ UNCHANGED registered

(***************************************************************************)
(* epoll_close: the slot is cleared, every item erased and all of it freed.*)
(***************************************************************************)
epoll_close(u, s) ==
    /\ call[u] = NoCall
    /\ epoll_instances[s] # Null
    /\ InCall(s) = {}
    /\ epoll_instances' = [epoll_instances EXCEPT ![s] = Null]
    /\ registered' = [registered EXCEPT ![s] = [fd \in RbNodes |-> Null]]
    /\ UNCHANGED call

EpollNext ==
    \E u \in Users :
        \/ epoll_create(u) \/ CreateStore(u) \/ CtlLocked(u) \/ WaitReturns(u)
        \/ \E s \in Slots :
              \/ \E op \in {"ADD", "MOD", "DEL"}, fd \in RbNodes, event \in Events :
                     epoll_ctl(u, s, op, fd, event)
              \/ \E timeout \in {"none", "some", "forever"} : epoll_wait(u, s, timeout)
              \/ epoll_close(u, s)

-----------------------------------------------------------------------------

Opened == {s \in Slots : epoll_instances[s] # Null}

(***************************************************************************)
(* The paths from the root of a tree to its missing children, as sequences *)
(* of nodes.                                                               *)
(***************************************************************************)
RECURSIVE PathsFrom(_, _)
PathsFrom(t, n) ==
    IF n = Null THEN {<<>>}
    ELSE {<<n>> \o p : p \in PathsFrom(t, t.kid["l"][n]) \cup PathsFrom(t, t.kid["r"][n])}

Blacks(t, path) == Cardinality({i \in DOMAIN path : path[i] \notin t.red})

(***************************************************************************)
(* After any sequence of additions and removals the tree of every instance *)
(* is a red-black tree: the root is black, no red node has a red child,    *)
(* all paths down have equally many black nodes, and every parent pointer  *)
(* names the node's parent.  The rotations and the recolouring of          *)
(* rb_insert_color and rb_erase_color are what keeps it (a mirrored case   *)
(* with one side swapped breaks it only for some shapes of tree).          *)
(***************************************************************************)
TreeBalanced ==
    \A s \in Opened :
        LET t     == epoll_instances[s].rbr
            paths == PathsFrom(t, t.root)
        IN  /\ ~IsRed(t, t.root)
            /\ t.root # Null => t.up[t.root] = Null
            /\ \A p \in paths : \A i \in 1..(Len(p) - 1) :
                  t.up[p[i + 1]] = p[i] /\ ~(IsRed(t, p[i]) /\ IsRed(t, p[i + 1]))
            /\ \A p, q \in paths : Blacks(t, p) = Blacks(t, q)

(***************************************************************************)
(* What epoll_ctl registered is found again: find_epitem reaches exactly   *)
(* the descriptors that were added and not deleted, with the event given   *)
(* last, whatever rebalancing happened in between and whichever threads    *)
(* made the calls.                                                         *)
(***************************************************************************)
RegistrationsFound ==
    \A s \in Opened : \A fd \in RbNodes :
        LET epi == find_epitem(epoll_instances[s].rbr, fd)
        IN  /\ epi = Null <=> registered[s][fd] = Null
            /\ epi # Null => epoll_instances[s].event[epi] = registered[s][fd]
=============================================================================
