----------------------------- MODULE StoreGuard -----------------------------
(***************************************************************************)
(* The guards of the store (src/store/store.go): the store's RWMutex s.mu, *)
(* a RWMutex for each namespace, and the goroutines that take them in      *)
(* order.  Ordinary operations hold s.mu shared, those that touch a volume *)
(* engine also the namespace's mutex shared; an open reader keeps both     *)
(* after the Get that made it has returned; phase 2 of Compact holds the   *)
(* namespace's mutex exclusively; Close, CreateNamespace and               *)
(* DeleteNamespace hold s.mu exclusively.                                  *)
(*                                                                         *)
(* A sync.RWMutex prefers writers: once a writer has announced itself new  *)
(* readers wait, it enters when those that hold the lock have left, and    *)
(* when it leaves the waiting readers hold the lock before another writer  *)
(* can announce itself.                                                    *)
(***************************************************************************)
EXTENDS Naturals, FiniteSets

CONSTANTS
    Thread,      \* goroutines that call the store
    Namespace,   \* namespace ids
    Ops,         \* the operations this instance's callers make
    Nested,      \* the operations callers make while they have an open reader
    None

\* Operations by the guards they take. "index": Head, Update, Rename, Delete,
\* List, Stats and GetNamespace. "engine": Put, Verify, RebuildIndex.
\* "compact" is phase 1 of Compact and goes on to "rewrite", its phase 2.
SharedOp    == {"index", "engine", "get", "compact"}
ExclusiveOp == {"close", "create", "delete"}
EngineOp    == {"engine", "get", "compact", "rewrite"}

ASSUME OpsAssumption    == Ops \subseteq SharedOp \cup ExclusiveOp
ASSUME NestedAssumption == Nested \subseteq SharedOp \ {"get"}
ASSUME NoneAssumption   == None \notin Thread \cup Namespace

VARIABLES
    mu,        \* Store.mu
    nsRW,      \* Store.nsRW: a mutex per namespace
    closed,    \* Store.closed
    engines,   \* Store.engines: the namespaces with an engine
    running,   \* the engines that are open
    call,      \* the call each goroutine is in
    handle     \* the namespace of the reader each goroutine has open, or None

vars == <<mu, nsRW, closed, engines, running, call, handle>>

\* A shared hold on a mutex: by the call of a goroutine or by its open reader.
Hold == Thread \X {"call", "reader"}
Lock == [shared : SUBSET Hold, waiting : SUBSET Hold,
         pending : Thread \cup {None}, owner : Thread \cup {None}]
Free == [shared |-> {}, waiting |-> {}, pending |-> None, owner |-> None]

Idle == [pc |-> "idle", op |-> None, ns |-> None]
Busy == [pc : {"begin", "guarded", "ns", "rewrite", "drain", "body"},
         op : SharedOp \cup ExclusiveOp \cup {"rewrite"}, ns : Namespace]

\* Every variable holds a value of its type: a lock has at most one writer
\* inside and one that waits, and no engine runs that the store has forgotten.

GuardTypeOK ==
    /\ mu \in Lock
    /\ nsRW \in [Namespace -> Lock]
    /\ closed \in BOOLEAN
    /\ engines \subseteq Namespace /\ running \subseteq engines
    /\ call \in [Thread -> Busy \cup {Idle}]
    /\ handle \in [Thread -> Namespace \cup {None}]

GuardInit ==
    /\ mu = Free
    /\ nsRW = [n \in Namespace |-> Free]
    /\ closed = FALSE
    /\ engines = Namespace /\ running = Namespace
    /\ call = [t \in Thread |-> Idle]
    /\ handle = [t \in Thread |-> None]

-----------------------------------------------------------------------------
(* sync.RWMutex                                                            *)

\* Faulty variant of RLock: readers overtake a writer that waits.
RLockFirst(l, h) ==
    IF l.owner = None
    THEN [l EXCEPT !.shared = @ \cup {h}]
    ELSE [l EXCEPT !.waiting = @ \cup {h}]

\* RLock: held at once, or when the writer that holds the lock or has
\* announced itself leaves.
RLock(l, h) ==
    IF l.owner = None /\ l.pending = None
    THEN [l EXCEPT !.shared = @ \cup {h}]
    ELSE [l EXCEPT !.waiting = @ \cup {h}]

RUnlock(l, h) == [l EXCEPT !.shared = @ \ {h}]

\* Lock, in two halves: writers take turns to announce themselves, ...
CanAnnounce(l) == l.owner = None /\ l.pending = None
Announce(l, t) == [l EXCEPT !.pending = t]

\* ... and enter when the readers have left.
CanEnter(l, t) == l.pending = t /\ l.shared = {}
Enter(l, t)    == [l EXCEPT !.pending = None, !.owner = t]

Unlock(l) == [l EXCEPT !.owner = None, !.shared = l.waiting, !.waiting = {}]

Holds(l, h) == h \in l.shared

-----------------------------------------------------------------------------
(* Operations under shared guards                                          *)

Becomes(t, pc) == call' = [call EXCEPT ![t].pc = pc]

Call(t, op, n) ==
    /\ call[t].pc = "idle"
    /\ handle[t] # None => op \in Nested
    /\ call' = [call EXCEPT ![t] = [pc |-> "begin", op |-> op, ns |-> n]]
    /\ UNCHANGED <<mu, nsRW, closed, engines, running, handle>>

\* beginOp asks for the store's shared guard.
BeginOp(t) ==
    /\ call[t].pc = "begin" /\ call[t].op \notin ExclusiveOp
    /\ mu' = RLock(mu, <<t, "call">>)
    /\ Becomes(t, "guarded")
    /\ UNCHANGED <<nsRW, closed, engines, running, handle>>

Found(t) == ~closed /\ (call[t].op # "index" => call[t].ns \in engines)

\* With the guard held: a ClosedError or NotFoundError releases it ...
Refuse(t) ==
    /\ call[t].pc = "guarded" /\ Holds(mu, <<t, "call">>)
    /\ ~Found(t)
    /\ mu' = RUnlock(mu, <<t, "call">>)
    /\ call' = [call EXCEPT ![t] = Idle]
    /\ UNCHANGED <<nsRW, closed, engines, running, handle>>

\* ... an index operation is under way, ...
IndexOp(t) ==
    /\ call[t].pc = "guarded" /\ Holds(mu, <<t, "call">>)
    /\ Found(t) /\ call[t].op = "index"
    /\ Becomes(t, "body")
    /\ UNCHANGED <<mu, nsRW, closed, engines, running, handle>>

\* ... and beginNSOp asks for the namespace's shared guard as well.
BeginNSOp(t) ==
    /\ call[t].pc = "guarded" /\ Holds(mu, <<t, "call">>)
    /\ Found(t) /\ call[t].op \in EngineOp \ {"rewrite"}
    /\ nsRW' = [nsRW EXCEPT ![call[t].ns] = RLock(@, <<t, "call">>)]
    /\ Becomes(t, "ns")
    /\ UNCHANGED <<mu, closed, engines, running, handle>>

NSGuarded(t) ==
    /\ call[t].pc = "ns" /\ Holds(nsRW[call[t].ns], <<t, "call">>)
    /\ Becomes(t, "body")
    /\ UNCHANGED <<mu, nsRW, closed, engines, running, handle>>

\* The deferred endOp or endNSOp. Compact goes on to phase 2, which begins anew.
EndOp(t) ==
    /\ call[t].pc = "body" /\ call[t].op \in {"index", "engine", "compact"}
    /\ mu' = RUnlock(mu, <<t, "call">>)
    /\ nsRW' = IF call[t].op = "index" THEN nsRW
               ELSE [nsRW EXCEPT ![call[t].ns] = RUnlock(@, <<t, "call">>)]
    /\ call' = [call EXCEPT ![t] = IF @.op = "compact"
                                   THEN [@ EXCEPT !.pc = "begin", !.op = "rewrite"]
                                   ELSE Idle]
    /\ UNCHANGED <<closed, engines, running, handle>>

\* A hold passes from the call to the reader it returns.
HandOver(l, t) == [l EXCEPT !.shared = (@ \ {<<t, "call">>}) \cup {<<t, "reader">>}]

\* Faulty variant of GetReturns: the guards end with the call.
GetReturnsUnguarded(t) ==
    /\ call[t].pc = "body" /\ call[t].op = "get"
    /\ mu' = RUnlock(mu, <<t, "call">>)
    /\ nsRW' = [nsRW EXCEPT ![call[t].ns] = RUnlock(@, <<t, "call">>)]
    /\ handle' = [handle EXCEPT ![t] = call[t].ns]
    /\ call' = [call EXCEPT ![t] = Idle]
    /\ UNCHANGED <<closed, engines, running>>

\* Faulty variant of GetReturns: the reader keeps the store's guard only.
GetReturnsHalfGuarded(t) ==
    /\ call[t].pc = "body" /\ call[t].op = "get"
    /\ mu' = HandOver(mu, t)
    /\ nsRW' = [nsRW EXCEPT ![call[t].ns] = RUnlock(@, <<t, "call">>)]
    /\ handle' = [handle EXCEPT ![t] = call[t].ns]
    /\ call' = [call EXCEPT ![t] = Idle]
    /\ UNCHANGED <<closed, engines, running>>

\* Get returns: both guards stay held by the reader.
GetReturns(t) ==
    /\ call[t].pc = "body" /\ call[t].op = "get"
    /\ mu' = HandOver(mu, t)
    /\ nsRW' = [nsRW EXCEPT ![call[t].ns] = HandOver(@, t)]
    /\ handle' = [handle EXCEPT ![t] = call[t].ns]
    /\ call' = [call EXCEPT ![t] = Idle]
    /\ UNCHANGED <<closed, engines, running>>

\* The caller closes the reader.
CloseReader(t) ==
    /\ handle[t] # None /\ call[t].pc = "idle"
    /\ mu' = RUnlock(mu, <<t, "reader">>)
    /\ nsRW' = [nsRW EXCEPT ![handle[t]] = RUnlock(@, <<t, "reader">>)]
    /\ handle' = [handle EXCEPT ![t] = None]
    /\ UNCHANGED <<closed, engines, running, call>>

-----------------------------------------------------------------------------
(* Phase 2 of Compact: beginExclusiveNSOp                                  *)

\* Phase 2 begins anew: the store's guard was let go in between, so the
\* namespace may be gone or the store closed.
BeginRewrite(t) ==
    /\ call[t].pc = "guarded" /\ Holds(mu, <<t, "call">>)
    /\ Found(t) /\ call[t].op = "rewrite"
    /\ Becomes(t, "rewrite")
    /\ UNCHANGED <<mu, nsRW, closed, engines, running, handle>>

AnnounceRewrite(t) ==
    /\ call[t].pc = "rewrite"
    /\ CanAnnounce(nsRW[call[t].ns])
    /\ nsRW' = [nsRW EXCEPT ![call[t].ns] = Announce(@, t)]
    /\ Becomes(t, "drain")
    /\ UNCHANGED <<mu, closed, engines, running, handle>>

EnterRewrite(t) ==
    /\ call[t].pc = "drain" /\ call[t].op = "rewrite"
    /\ CanEnter(nsRW[call[t].ns], t)
    /\ nsRW' = [nsRW EXCEPT ![call[t].ns] = Enter(@, t)]
    /\ Becomes(t, "body")
    /\ UNCHANGED <<mu, closed, engines, running, handle>>

EndRewrite(t) ==
    /\ call[t].pc = "body" /\ call[t].op = "rewrite"
    /\ nsRW' = [nsRW EXCEPT ![call[t].ns] = Unlock(@)]
    /\ mu' = RUnlock(mu, <<t, "call">>)
    /\ call' = [call EXCEPT ![t] = Idle]
    /\ UNCHANGED <<closed, engines, running, handle>>

-----------------------------------------------------------------------------
(* Operations under the store's exclusive guard                            *)

AnnounceExclusive(t) ==
    /\ call[t].pc = "begin" /\ call[t].op \in ExclusiveOp
    /\ CanAnnounce(mu)
    /\ mu' = Announce(mu, t)
    /\ Becomes(t, "drain")
    /\ UNCHANGED <<nsRW, closed, engines, running, handle>>

EnterExclusive(t) ==
    /\ call[t].pc = "drain" /\ call[t].op \in ExclusiveOp
    /\ CanEnter(mu, t)
    /\ mu' = Enter(mu, t)
    /\ Becomes(t, "body")
    /\ UNCHANGED <<nsRW, closed, engines, running, handle>>

Leave(t) ==
    /\ mu' = Unlock(mu)
    /\ call' = [call EXCEPT ![t] = Idle]
    /\ UNCHANGED <<nsRW, handle>>

\* Close: a second one gets a ClosedError. The engines stay in the map.
CloseStore(t) ==
    /\ call[t].pc = "body" /\ call[t].op = "close"
    /\ closed' = TRUE
    /\ running' = {}
    /\ Leave(t) /\ UNCHANGED engines

\* CreateNamespace: an existing id is an error; so is an index that is closed.
CreateNamespace(t) ==
    LET made == IF closed THEN {} ELSE {call[t].ns} \ engines
    IN  /\ call[t].pc = "body" /\ call[t].op = "create"
        /\ engines' = engines \cup made
        /\ running' = running \cup made
        /\ Leave(t) /\ UNCHANGED closed

\* Faulty variant of DeleteNamespace: the engine is forgotten but not closed.
DeleteNamespaceOnly(t) ==
    /\ call[t].pc = "body" /\ call[t].op = "delete"
    /\ engines' = engines \ {call[t].ns}
    /\ Leave(t) /\ UNCHANGED <<closed, running>>

\* DeleteNamespace: the engine is closed and forgotten first; it fails on a
\* closed index only afterwards.
DeleteNamespace(t) ==
    /\ call[t].pc = "body" /\ call[t].op = "delete"
    /\ engines' = engines \ {call[t].ns}
    /\ running' = running \ {call[t].ns}
    /\ Leave(t) /\ UNCHANGED closed

-----------------------------------------------------------------------------
\* What a goroutine carries on with once begun.
Progress(t) ==
    \/ BeginOp(t) \/ Refuse(t) \/ IndexOp(t) \/ BeginNSOp(t) \/ NSGuarded(t) \/ EndOp(t)
    \/ GetReturns(t)
    \/ BeginRewrite(t) \/ EnterRewrite(t) \/ EndRewrite(t)
    \/ EnterExclusive(t) \/ CloseStore(t) \/ CreateNamespace(t) \/ DeleteNamespace(t)

GuardNext ==
    \E t \in Thread :
        \/ \E op \in Ops, n \in Namespace : Call(t, op, n)
        \/ Progress(t)
        \/ CloseReader(t)
        \/ AnnounceRewrite(t)
        \/ AnnounceExclusive(t)

\* Goroutines are scheduled; callers close their readers, as the comment on
\* Close asks; a writer that competes with other writers gets its turn, because
\* a sync.Mutex is handed over in order once a waiter has been passed over for
\* a millisecond. A goroutine is never ready for two of the last three.
GuardFairness ==
    \A t \in Thread :
        /\ WF_vars(Progress(t))
        /\ SF_vars(CloseReader(t) \/ AnnounceRewrite(t) \/ AnnounceExclusive(t))

GuardSpec == GuardInit /\ [][GuardNext]_vars /\ GuardFairness

-----------------------------------------------------------------------------
(* What the guards are for                                                 *)

InBody(t, ops) == call[t].pc = "body" /\ call[t].op \in ops

\* Close and DeleteNamespace drain: no operation that works on an engine, no
\* open reader and no index operation outlives what it works on, whatever was
\* under way when they were called (comment on Close, store.go:174-182).
EnginesStayOpen ==
    \A t \in Thread :
        /\ InBody(t, EngineOp) => call[t].ns \in running
        /\ handle[t] # None => handle[t] \in running
        /\ InBody(t, {"index"}) => ~closed

\* While phase 2 of Compact rewrites a namespace nobody else is in an engine
\* operation of it or holds a reader on it (comment on beginExclusiveNSOp,
\* store.go:613-619).
RewriteExclusive ==
    \A t, u \in Thread :
        InBody(t, {"rewrite"}) =>
            /\ handle[u] # call[t].ns
            /\ u # t /\ InBody(u, EngineOp) => call[u].ns # call[t].ns

\* Every call comes back, Close among them, if readers are closed in the end.
EveryCallReturns == \A t \in Thread : call[t].pc # "idle" ~> call[t].pc = "idle"
=============================================================================
