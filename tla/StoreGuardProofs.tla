-------------------------- MODULE StoreGuardProofs --------------------------
(***************************************************************************)
(* Proofs about StoreGuard, for any number of goroutines and namespaces:   *)
(* the types, that no engine is closed under somebody who works on it, and *)
(* that a rewrite is alone in its namespace.                               *)
(*                                                                         *)
(* The inductive invariant says who has which of the two kinds of mutexes: *)
(* it can be told from where each goroutine is in its call and from the    *)
(* reader it has open.                                                     *)
(***************************************************************************)
EXTENDS StoreGuard, TLAPS

-----------------------------------------------------------------------------
(* The inductive invariant                                                 *)

\* The operations that can be where a call is.
CallShape(t) ==
    /\ call[t].pc \in {"guarded", "ns", "rewrite"} => call[t].op \notin ExclusiveOp
    /\ call[t].pc = "ns" => call[t].op \in EngineOp \ {"rewrite"}
    /\ call[t].pc = "rewrite" => call[t].op = "rewrite"
    /\ call[t].pc = "drain" => call[t].op \in ExclusiveOp \cup {"rewrite"}
    /\ call[t].pc # "idle" /\ call[t].op = "get" => handle[t] = None

\* The calls that have asked for the store's guard and not given it back.
SharesStore(t) ==
    \/ call[t].pc \in {"guarded", "ns", "rewrite"}
    \/ call[t].pc \in {"drain", "body"} /\ call[t].op \notin ExclusiveOp

\* Those that have asked for the guard of namespace n.
SharesNS(t, n) ==
    call[t].ns = n /\ (call[t].pc = "ns" \/ InBody(t, EngineOp \ {"rewrite"}))

\* What l, a mutex, knows of goroutine t: the hold of its call, which it has
\* or, where its call waits for it, will have; and that of its reader.
Knows(l, t, asked, asks, reads) ==
    /\ asked <=> <<t, "call">> \in l.shared \cup l.waiting
    /\ <<t, "call">> \in l.waiting => asks /\ <<t, "call">> \notin l.shared
    /\ reads <=> <<t, "reader">> \in l.shared
    /\ <<t, "reader">> \notin l.waiting

\* Who has the store's mutex.
StoreMutex ==
    /\ \A t \in Thread :
          /\ Knows(mu, t, SharesStore(t), call[t].pc = "guarded", handle[t] # None)
          /\ mu.owner = t <=> InBody(t, ExclusiveOp)
          /\ mu.pending = t <=> call[t].pc = "drain" /\ call[t].op \in ExclusiveOp
    /\ mu.owner # None => mu.shared = {} /\ mu.pending = None

\* Who has the mutex of namespace n.
NSMutex(n) ==
    /\ \A t \in Thread :
          /\ Knows(nsRW[n], t, SharesNS(t, n), call[t].pc = "ns", handle[t] = n)
          /\ nsRW[n].owner = t <=> call[t].ns = n /\ InBody(t, {"rewrite"})
          /\ nsRW[n].pending = t <=>
                call[t].ns = n /\ call[t].pc = "drain" /\ call[t].op = "rewrite"
    /\ nsRW[n].owner # None => nsRW[n].shared = {} /\ nsRW[n].pending = None

\* Past the tests that are made with the store's guard held, they stay true.
Works(t) ==
    /\ SharesStore(t) /\ call[t].pc # "guarded" =>
          ~closed /\ (call[t].op # "index" => call[t].ns \in running)
    /\ handle[t] # None => ~closed /\ handle[t] \in running

GuardInv ==
    /\ GuardTypeOK
    /\ ~closed => running = engines
    /\ \A t \in Thread : CallShape(t)
    /\ StoreMutex
    /\ \A n \in Namespace : NSMutex(n)
    /\ \A t \in Thread : Works(t)

-----------------------------------------------------------------------------
(* The invariant is inductive                                              *)

LEMMA InitInv == GuardInit => GuardInv
<1> SUFFICES ASSUME GuardInit PROVE GuardInv
    OBVIOUS
<1> USE NoneAssumption DEF GuardInit
<1>1. GuardTypeOK
    BY DEF GuardTypeOK, Lock, Free, Hold
<1>2. \A t \in Thread : CallShape(t)
    BY DEF CallShape, Idle
<1>3. StoreMutex
    BY DEF StoreMutex, Knows, SharesStore, InBody, Free, Idle
<1>4. \A n \in Namespace : NSMutex(n)
    BY DEF NSMutex, Knows, SharesNS, InBody, Free, Idle
<1>5. \A t \in Thread : Works(t)
    BY DEF Works, SharesStore, Idle
<1> QED
    BY <1>1, <1>2, <1>3, <1>4, <1>5 DEF GuardInv

\* Every operation on a mutex gives a mutex.
LEMMA LockTypes ==
    ASSUME NEW l \in Lock, NEW t \in Thread, NEW k \in {"call", "reader"}
    PROVE  /\ RLock(l, <<t, k>>) \in Lock /\ RUnlock(l, <<t, k>>) \in Lock
           /\ HandOver(l, t) \in Lock
           /\ Announce(l, t) \in Lock /\ Enter(l, t) \in Lock /\ Unlock(l) \in Lock
<1>1. <<t, "call">> \in Hold /\ <<t, "reader">> \in Hold /\ <<t, k>> \in Hold
    BY DEF Hold
<1> QED
    BY <1>1 DEF Lock, RLock, RUnlock, HandOver, Announce, Enter, Unlock

\* What HandOver does to the holds on a mutex.
LEMMA HandOverMoves ==
    ASSUME NEW l \in Lock, NEW t \in Thread
    PROVE  /\ \A u \in Thread :
                 /\ <<u, "call">> \in HandOver(l, t).shared <=> u # t /\ <<u, "call">> \in l.shared
                 /\ <<u, "reader">> \in HandOver(l, t).shared
                      <=> u = t \/ <<u, "reader">> \in l.shared
           /\ HandOver(l, t).waiting = l.waiting
           /\ HandOver(l, t).owner = l.owner /\ HandOver(l, t).pending = l.pending
    BY DEF Lock, HandOver

\* A call goes on: nothing changes but its pc.
LEMMA CallGoesOn ==
    ASSUME GuardTypeOK, NEW t \in Thread, NEW pc,
           pc \in {"guarded", "ns", "rewrite", "drain", "body"},
           call[t].pc # "idle", Becomes(t, pc)
    PROVE  /\ call' \in [Thread -> Busy \cup {Idle}] /\ call[t] \in Busy
           /\ call'[t].pc = pc /\ call'[t].op = call[t].op /\ call'[t].ns = call[t].ns
           /\ \A u \in Thread : u # t => call'[u] = call[u]
<1>1. call[t] \in Busy /\ call \in [Thread -> Busy \cup {Idle}]
    BY DEF GuardTypeOK, Idle
<1> QED
    BY <1>1 DEF Becomes, Busy

\* A call ends.
LEMMA CallEnds ==
    ASSUME GuardTypeOK, NEW t \in Thread, call[t].pc # "idle",
           call' = [call EXCEPT ![t] = Idle]
    PROVE  /\ call' \in [Thread -> Busy \cup {Idle}] /\ call[t] \in Busy
           /\ call'[t].pc = "idle" /\ call'[t].op = None /\ call'[t].ns = None
           /\ \A u \in Thread : u # t => call'[u] = call[u]
    BY DEF GuardTypeOK, Idle

LEMMA CallInv ==
    ASSUME GuardInv, NEW t \in Thread, NEW op \in Ops, NEW n \in Namespace, Call(t, op, n)
    PROVE  GuardInv'
<1> USE NoneAssumption DEF GuardInv
<1>1. /\ UNCHANGED <<mu, nsRW, closed, engines, running, handle>>
      /\ call[t].pc = "idle" /\ op \in SharedOp \cup ExclusiveOp
      /\ op = "get" => handle[t] = None
    BY OpsAssumption, NestedAssumption DEF Call, GuardTypeOK
<1>2. /\ call' \in [Thread -> Busy \cup {Idle}]
      /\ call'[t].pc = "begin" /\ call'[t].op = op /\ call'[t].ns = n
      /\ \A u \in Thread : u # t => call'[u] = call[u]
    BY <1>1 DEF Call, GuardTypeOK, Busy
<1>3. GuardTypeOK'
    BY <1>1, <1>2 DEF GuardTypeOK
<1>4. \A u \in Thread : CallShape(u)'
    BY <1>1, <1>2 DEF CallShape
<1>5. StoreMutex'
    BY <1>1, <1>2 DEF StoreMutex, Knows, SharesStore, InBody
<1>6. \A m \in Namespace : NSMutex(m)'
    BY <1>1, <1>2 DEF NSMutex, Knows, SharesNS, InBody
<1>7. \A u \in Thread : Works(u)'
    BY <1>1, <1>2 DEF Works, SharesStore
<1> QED
    BY <1>1, <1>3, <1>4, <1>5, <1>6, <1>7

LEMMA BeginOpInv ==
    ASSUME GuardInv, NEW t \in Thread, BeginOp(t)
    PROVE  GuardInv'
<1> USE NoneAssumption DEF GuardInv
<1>1. /\ call[t].pc = "begin" /\ call[t].op \notin ExclusiveOp
      /\ mu \in Lock /\ mu' = RLock(mu, <<t, "call">>)
      /\ UNCHANGED <<nsRW, closed, engines, running, handle>>
    BY DEF BeginOp, GuardTypeOK
<1>2. /\ call' \in [Thread -> Busy \cup {Idle}]
      /\ call'[t].pc = "guarded" /\ call'[t].op = call[t].op /\ call'[t].ns = call[t].ns
      /\ \A u \in Thread : u # t => call'[u] = call[u]
    BY <1>1, CallGoesOn DEF BeginOp
<1>3. GuardTypeOK'
    BY <1>1, <1>2, LockTypes DEF GuardTypeOK
<1>4. \A u \in Thread : CallShape(u)'
    BY <1>1, <1>2 DEF CallShape
<1>5. StoreMutex'
    BY <1>1, <1>2 DEF StoreMutex, Knows, SharesStore, InBody, Lock, RLock
<1>6. \A n \in Namespace : NSMutex(n)'
    BY <1>1, <1>2 DEF NSMutex, Knows, SharesNS, InBody
<1>7. \A u \in Thread : Works(u)'
    BY <1>1, <1>2 DEF Works, SharesStore
<1> QED
    BY <1>1, <1>3, <1>4, <1>5, <1>6, <1>7

LEMMA RefuseInv ==
    ASSUME GuardInv, NEW t \in Thread, Refuse(t)
    PROVE  GuardInv'
<1> USE NoneAssumption DEF GuardInv
<1>1. /\ call[t].pc = "guarded" /\ <<t, "call">> \in mu.shared
      /\ mu \in Lock /\ mu' = RUnlock(mu, <<t, "call">>)
      /\ UNCHANGED <<nsRW, closed, engines, running, handle>>
    BY DEF Refuse, Holds, GuardTypeOK
<1>2. /\ call' \in [Thread -> Busy \cup {Idle}]
      /\ call'[t].pc = "idle" /\ call'[t].op = None /\ call'[t].ns = None
      /\ \A u \in Thread : u # t => call'[u] = call[u]
    BY <1>1, CallEnds DEF Refuse
<1>3. GuardTypeOK'
    BY <1>1, <1>2, LockTypes DEF GuardTypeOK
<1>4. \A u \in Thread : CallShape(u)'
    BY <1>1, <1>2 DEF CallShape
<1>5. StoreMutex'
    BY <1>1, <1>2 DEF StoreMutex, Knows, SharesStore, InBody, Lock, RUnlock
<1>6. \A n \in Namespace : NSMutex(n)'
    BY <1>1, <1>2 DEF NSMutex, Knows, SharesNS, InBody
<1>7. \A u \in Thread : Works(u)'
    BY <1>1, <1>2 DEF Works, SharesStore
<1> QED
    BY <1>1, <1>3, <1>4, <1>5, <1>6, <1>7

LEMMA IndexOpInv ==
    ASSUME GuardInv, NEW t \in Thread, IndexOp(t)
    PROVE  GuardInv'
<1> USE NoneAssumption DEF GuardInv
<1>1. /\ call[t].pc = "guarded" /\ call[t].op = "index" /\ Found(t)
      /\ <<t, "call">> \in mu.shared
      /\ UNCHANGED <<mu, nsRW, closed, engines, running, handle>>
    BY DEF IndexOp, Holds
<1>2. /\ call' \in [Thread -> Busy \cup {Idle}]
      /\ call'[t].pc = "body" /\ call'[t].op = call[t].op /\ call'[t].ns = call[t].ns
      /\ call[t].ns \in Namespace
      /\ \A u \in Thread : u # t => call'[u] = call[u]
    BY <1>1, CallGoesOn DEF IndexOp, Busy
<1>3. GuardTypeOK'
    BY <1>1, <1>2, LockTypes DEF GuardTypeOK
<1>4. \A u \in Thread : CallShape(u)'
    BY <1>1, <1>2 DEF CallShape, ExclusiveOp
<1>5. StoreMutex'
    BY <1>1, <1>2 DEF StoreMutex, Knows, SharesStore, InBody, ExclusiveOp
<1>6. \A n \in Namespace : NSMutex(n)'
    BY <1>1, <1>2 DEF NSMutex, Knows, SharesNS, InBody, EngineOp
<1>7. \A u \in Thread : Works(u)'
    BY <1>1, <1>2 DEF Works, SharesStore, Found
<1> QED
    BY <1>1, <1>3, <1>4, <1>5, <1>6, <1>7

LEMMA BeginNSOpInv ==
    ASSUME GuardInv, NEW t \in Thread, BeginNSOp(t)
    PROVE  GuardInv'
<1> USE NoneAssumption DEF GuardInv
<1>1. /\ call[t].pc = "guarded" /\ call[t].op \in EngineOp \ {"rewrite"} /\ Found(t)
      /\ <<t, "call">> \in mu.shared
      /\ nsRW \in [Namespace -> Lock]
      /\ nsRW' = [nsRW EXCEPT ![call[t].ns] = RLock(@, <<t, "call">>)]
      /\ UNCHANGED <<mu, closed, engines, running, handle>>
    BY DEF BeginNSOp, Holds, GuardTypeOK
<1>2. /\ call' \in [Thread -> Busy \cup {Idle}]
      /\ call'[t].pc = "ns" /\ call'[t].op = call[t].op /\ call'[t].ns = call[t].ns
      /\ call[t].ns \in Namespace
      /\ \A u \in Thread : u # t => call'[u] = call[u]
    BY <1>1, CallGoesOn DEF BeginNSOp, Busy
<1>3. GuardTypeOK'
    BY <1>1, <1>2, LockTypes DEF GuardTypeOK
<1>4. \A u \in Thread : CallShape(u)'
    BY <1>1, <1>2 DEF CallShape, ExclusiveOp, EngineOp
<1>5. StoreMutex'
    BY <1>1, <1>2 DEF StoreMutex, Knows, SharesStore, InBody, ExclusiveOp, EngineOp
<1>6. \A n \in Namespace : NSMutex(n)'
    BY SMTT(30), <1>1, <1>2 DEF NSMutex, Knows, SharesNS, InBody, Lock, RLock
<1>7. \A u \in Thread : Works(u)'
    BY <1>1, <1>2 DEF Works, SharesStore, Found, EngineOp
<1> QED
    BY <1>1, <1>3, <1>4, <1>5, <1>6, <1>7

LEMMA NSGuardedInv ==
    ASSUME GuardInv, NEW t \in Thread, NSGuarded(t)
    PROVE  GuardInv'
<1> USE NoneAssumption DEF GuardInv
<1>1. /\ call[t].pc = "ns" /\ call[t].op \in EngineOp \ {"rewrite"}
      /\ <<t, "call">> \in nsRW[call[t].ns].shared
      /\ UNCHANGED <<mu, nsRW, closed, engines, running, handle>>
    BY DEF NSGuarded, Holds, CallShape
<1>2. /\ call' \in [Thread -> Busy \cup {Idle}]
      /\ call'[t].pc = "body" /\ call'[t].op = call[t].op /\ call'[t].ns = call[t].ns
      /\ call[t].ns \in Namespace
      /\ \A u \in Thread : u # t => call'[u] = call[u]
    BY <1>1, CallGoesOn DEF NSGuarded, Busy
<1>3. GuardTypeOK'
    BY <1>1, <1>2, LockTypes DEF GuardTypeOK
<1>4. \A u \in Thread : CallShape(u)'
    BY <1>1, <1>2 DEF CallShape
<1>5. StoreMutex'
    BY <1>1, <1>2 DEF StoreMutex, Knows, SharesStore, InBody, ExclusiveOp, EngineOp
<1>6. \A n \in Namespace : NSMutex(n)'
    BY <1>1, <1>2 DEF NSMutex, Knows, SharesNS, InBody
<1>7. \A u \in Thread : Works(u)'
    BY <1>1, <1>2 DEF Works, SharesStore, EngineOp
<1> QED
    BY <1>1, <1>3, <1>4, <1>5, <1>6, <1>7

LEMMA EndOpInv ==
    ASSUME GuardInv, NEW t \in Thread, EndOp(t)
    PROVE  GuardInv'
<1> USE NoneAssumption DEF GuardInv
<1>1. /\ call[t].pc = "body" /\ call[t].op \in {"index", "engine", "compact"}
      /\ mu \in Lock /\ nsRW \in [Namespace -> Lock]
      /\ mu' = RUnlock(mu, <<t, "call">>)
      /\ nsRW' = IF call[t].op = "index" THEN nsRW
                 ELSE [nsRW EXCEPT ![call[t].ns] = RUnlock(@, <<t, "call">>)]
      /\ UNCHANGED <<closed, engines, running, handle>>
    BY DEF EndOp, GuardTypeOK
<1>2. /\ call' \in [Thread -> Busy \cup {Idle}]
      /\ call'[t].pc = "idle" \/ (call'[t].pc = "begin" /\ call'[t].op = "rewrite")
      /\ call[t].ns \in Namespace
      /\ \A u \in Thread : u # t => call'[u] = call[u]
  <2>1. call[t] \in Busy /\ call \in [Thread -> Busy \cup {Idle}]
      BY <1>1 DEF GuardTypeOK, Idle
  <2>2. CASE call[t].op = "compact"
      BY <1>1, <2>1, <2>2 DEF EndOp, Busy
  <2>3. CASE call[t].op # "compact"
      BY <1>1, <2>1, <2>3 DEF EndOp, Busy, Idle
  <2> QED
      BY <2>2, <2>3
<1>3. GuardTypeOK'
    BY <1>1, <1>2, LockTypes DEF GuardTypeOK
<1>4. \A u \in Thread : CallShape(u)'
    BY <1>1, <1>2 DEF CallShape
<1>5. StoreMutex'
    BY <1>1, <1>2 DEF StoreMutex, Knows, SharesStore, InBody, ExclusiveOp, Lock, RUnlock
<1>6. \A n \in Namespace : NSMutex(n)'
    BY <1>1, <1>2 DEF NSMutex, Knows, SharesNS, InBody, Lock, RUnlock, EngineOp
<1>7. \A u \in Thread : Works(u)'
    BY <1>1, <1>2 DEF Works, SharesStore, ExclusiveOp
<1> QED
    BY <1>1, <1>3, <1>4, <1>5, <1>6, <1>7

LEMMA GetReturnsInv ==
    ASSUME GuardInv, NEW t \in Thread, GetReturns(t)
    PROVE  GuardInv'
<1> USE NoneAssumption DEF GuardInv
<1>1. /\ call[t].pc = "body" /\ call[t].op = "get"
      /\ mu \in Lock /\ nsRW \in [Namespace -> Lock]
      /\ mu' = HandOver(mu, t)
      /\ nsRW' = [nsRW EXCEPT ![call[t].ns] = HandOver(@, t)]
      /\ handle \in [Thread -> Namespace \cup {None}]
      /\ handle' = [handle EXCEPT ![t] = call[t].ns] /\ handle[t] = None
      /\ UNCHANGED <<closed, engines, running>>
    BY DEF GetReturns, GuardTypeOK, CallShape
<1>2. /\ call' \in [Thread -> Busy \cup {Idle}]
      /\ call'[t].pc = "idle" /\ call'[t].op = None /\ call'[t].ns = None
      /\ call[t].ns \in Namespace
      /\ \A u \in Thread : u # t => call'[u] = call[u]
      /\ call[t].ns # None
      /\ \A u \in Thread : handle'[u] = IF u = t THEN call[t].ns ELSE handle[u]
    BY ZenonT(40), <1>1, CallEnds DEF GetReturns, Busy
<1>3. GuardTypeOK'
    BY <1>1, <1>2, LockTypes DEF GuardTypeOK
<1>4. \A u \in Thread : CallShape(u)'
    BY <1>1, <1>2 DEF CallShape
<1>5. StoreMutex'
  <2>1. mu.owner = None /\ <<t, "call">> \in mu.shared /\ <<t, "call">> \notin mu.waiting
      BY <1>1 DEF StoreMutex, Knows, SharesStore, ExclusiveOp
  <2> QED
      BY SMTT(30), <1>1, <1>2, <2>1, HandOverMoves
            DEF StoreMutex, Knows, SharesStore, InBody, ExclusiveOp
<1>6. ASSUME NEW n \in Namespace PROVE NSMutex(n)'
  <2>1. CASE n = call[t].ns
    <3>0. NSMutex(n) /\ nsRW[n] \in Lock /\ nsRW'[n] = HandOver(nsRW[n], t)
        BY <1>1, <2>1
    <3>1. /\ nsRW[n].owner = None /\ <<t, "call">> \in nsRW[n].shared
          /\ <<t, "call">> \notin nsRW[n].waiting
        BY <1>1, <2>1, <3>0 DEF NSMutex, Knows, SharesNS, InBody, EngineOp
    <3> QED
        BY SMTT(30), <1>1, <1>2, <2>1, <3>0, <3>1, HandOverMoves
        DEF NSMutex, Knows, SharesNS, InBody, EngineOp
  <2>2. CASE n # call[t].ns
    <3>1. nsRW'[n] = nsRW[n]
        BY <1>1, <2>2
    <3> QED
        BY <1>1, <1>2, <2>2, <3>1 DEF NSMutex, Knows, SharesNS, InBody, EngineOp
  <2> QED
      BY <2>1, <2>2
<1>7. \A u \in Thread : Works(u)'
    BY <1>1, <1>2 DEF Works, SharesStore, ExclusiveOp
<1> QED
    BY <1>1, <1>3, <1>4, <1>5, <1>6, <1>7

LEMMA CloseReaderInv ==
    ASSUME GuardInv, NEW t \in Thread, CloseReader(t)
    PROVE  GuardInv'
<1> USE NoneAssumption DEF GuardInv
<1>1. /\ call[t].pc = "idle" /\ handle[t] \in Namespace
      /\ mu \in Lock /\ nsRW \in [Namespace -> Lock]
      /\ mu' = RUnlock(mu, <<t, "reader">>)
      /\ nsRW' = [nsRW EXCEPT ![handle[t]] = RUnlock(@, <<t, "reader">>)]
      /\ handle \in [Thread -> Namespace \cup {None}]
      /\ handle' = [handle EXCEPT ![t] = None]
      /\ UNCHANGED <<closed, engines, running, call>>
    BY DEF CloseReader, GuardTypeOK
<1>2. \A u \in Thread : handle'[u] = IF u = t THEN None ELSE handle[u]
    BY <1>1
<1>3. GuardTypeOK'
    BY <1>1, <1>2, LockTypes DEF GuardTypeOK
<1>4. \A u \in Thread : CallShape(u)'
    BY <1>1, <1>2 DEF CallShape
<1>5. StoreMutex'
    BY <1>1, <1>2 DEF StoreMutex, Knows, SharesStore, InBody, ExclusiveOp, Lock, RUnlock
<1>6. \A n \in Namespace : NSMutex(n)'
    BY <1>1, <1>2 DEF NSMutex, Knows, SharesNS, InBody, Lock, RUnlock, EngineOp
<1>7. \A u \in Thread : Works(u)'
    BY <1>1, <1>2 DEF Works, SharesStore
<1> QED
    BY <1>1, <1>3, <1>4, <1>5, <1>6, <1>7

LEMMA BeginRewriteInv ==
    ASSUME GuardInv, NEW t \in Thread, BeginRewrite(t)
    PROVE  GuardInv'
<1> USE NoneAssumption DEF GuardInv
<1>1. /\ call[t].pc = "guarded" /\ call[t].op = "rewrite" /\ Found(t)
      /\ <<t, "call">> \in mu.shared
      /\ UNCHANGED <<mu, nsRW, closed, engines, running, handle>>
    BY DEF BeginRewrite, Holds
<1>2. /\ call' \in [Thread -> Busy \cup {Idle}]
      /\ call'[t].pc = "rewrite" /\ call'[t].op = call[t].op /\ call'[t].ns = call[t].ns
      /\ call[t].ns \in Namespace
      /\ \A u \in Thread : u # t => call'[u] = call[u]
    BY <1>1, CallGoesOn DEF BeginRewrite, Busy
<1>3. GuardTypeOK'
    BY <1>1, <1>2, LockTypes DEF GuardTypeOK
<1>4. \A u \in Thread : CallShape(u)'
    BY <1>1, <1>2 DEF CallShape, ExclusiveOp
<1>5. StoreMutex'
    BY <1>1, <1>2 DEF StoreMutex, Knows, SharesStore, InBody, ExclusiveOp
<1>6. \A n \in Namespace : NSMutex(n)'
    BY <1>1, <1>2 DEF NSMutex, Knows, SharesNS, InBody, EngineOp
<1>7. \A u \in Thread : Works(u)'
    BY <1>1, <1>2 DEF Works, SharesStore, Found
<1> QED
    BY <1>1, <1>3, <1>4, <1>5, <1>6, <1>7

LEMMA AnnounceRewriteInv ==
    ASSUME GuardInv, NEW t \in Thread, AnnounceRewrite(t)
    PROVE  GuardInv'
<1> USE NoneAssumption DEF GuardInv
<1>1. /\ call[t].pc = "rewrite" /\ call[t].op = "rewrite"
      /\ nsRW \in [Namespace -> Lock]
      /\ nsRW[call[t].ns].owner = None /\ nsRW[call[t].ns].pending = None
      /\ nsRW' = [nsRW EXCEPT ![call[t].ns] = Announce(@, t)]
      /\ UNCHANGED <<mu, closed, engines, running, handle>>
    BY DEF AnnounceRewrite, CanAnnounce, CallShape, GuardTypeOK
<1>2. /\ call' \in [Thread -> Busy \cup {Idle}]
      /\ call'[t].pc = "drain" /\ call'[t].op = call[t].op /\ call'[t].ns = call[t].ns
      /\ call[t].ns \in Namespace
      /\ \A u \in Thread : u # t => call'[u] = call[u]
    BY <1>1, CallGoesOn DEF AnnounceRewrite, Busy
<1>3. GuardTypeOK'
    BY <1>1, <1>2, LockTypes DEF GuardTypeOK
<1>4. \A u \in Thread : CallShape(u)'
    BY <1>1, <1>2 DEF CallShape, ExclusiveOp
<1>5. StoreMutex'
    BY <1>1, <1>2 DEF StoreMutex, Knows, SharesStore, InBody, ExclusiveOp
<1>6. \A n \in Namespace : NSMutex(n)'
    BY <1>1, <1>2 DEF NSMutex, Knows, SharesNS, InBody, EngineOp, Announce, Lock
<1>7. \A u \in Thread : Works(u)'
    BY <1>1, <1>2 DEF Works, SharesStore, ExclusiveOp
<1> QED
    BY <1>1, <1>3, <1>4, <1>5, <1>6, <1>7

LEMMA EnterRewriteInv ==
    ASSUME GuardInv, NEW t \in Thread, EnterRewrite(t)
    PROVE  GuardInv'
<1> USE NoneAssumption DEF GuardInv
<1>1. /\ call[t].pc = "drain" /\ call[t].op = "rewrite"
      /\ nsRW \in [Namespace -> Lock]
      /\ nsRW[call[t].ns].pending = t /\ nsRW[call[t].ns].shared = {}
      /\ nsRW' = [nsRW EXCEPT ![call[t].ns] = Enter(@, t)]
      /\ UNCHANGED <<mu, closed, engines, running, handle>>
    BY DEF EnterRewrite, CanEnter, GuardTypeOK
<1>2. /\ call' \in [Thread -> Busy \cup {Idle}]
      /\ call'[t].pc = "body" /\ call'[t].op = call[t].op /\ call'[t].ns = call[t].ns
      /\ call[t].ns \in Namespace
      /\ \A u \in Thread : u # t => call'[u] = call[u]
    BY <1>1, CallGoesOn DEF EnterRewrite, Busy
<1>3. GuardTypeOK'
    BY <1>1, <1>2, LockTypes DEF GuardTypeOK
<1>4. \A u \in Thread : CallShape(u)'
    BY <1>1, <1>2 DEF CallShape, ExclusiveOp
<1>5. StoreMutex'
    BY <1>1, <1>2 DEF StoreMutex, Knows, SharesStore, InBody, ExclusiveOp
<1>6. \A n \in Namespace : NSMutex(n)'
    BY <1>1, <1>2 DEF NSMutex, Knows, SharesNS, InBody, EngineOp, Enter, Lock
<1>7. \A u \in Thread : Works(u)'
    BY <1>1, <1>2 DEF Works, SharesStore, ExclusiveOp
<1> QED
    BY <1>1, <1>3, <1>4, <1>5, <1>6, <1>7

LEMMA EndRewriteInv ==
    ASSUME GuardInv, NEW t \in Thread, EndRewrite(t)
    PROVE  GuardInv'
<1> USE NoneAssumption DEF GuardInv
<1>1. /\ call[t].pc = "body" /\ call[t].op = "rewrite"
      /\ mu \in Lock /\ nsRW \in [Namespace -> Lock]
      /\ mu' = RUnlock(mu, <<t, "call">>)
      /\ nsRW' = [nsRW EXCEPT ![call[t].ns] = Unlock(@)]
      /\ UNCHANGED <<closed, engines, running, handle>>
    BY DEF EndRewrite, GuardTypeOK
<1>2. /\ call' \in [Thread -> Busy \cup {Idle}]
      /\ call'[t].pc = "idle" /\ call'[t].op = None /\ call'[t].ns = None
      /\ call[t].ns \in Namespace
      /\ \A u \in Thread : u # t => call'[u] = call[u]
    BY <1>1, CallEnds DEF EndRewrite, Busy
<1>3. GuardTypeOK'
    BY <1>1, <1>2, LockTypes DEF GuardTypeOK
<1>4. \A u \in Thread : CallShape(u)'
    BY <1>1, <1>2 DEF CallShape
<1>5. StoreMutex'
    BY <1>1, <1>2 DEF StoreMutex, Knows, SharesStore, InBody, ExclusiveOp, RUnlock, Lock
<1>6. ASSUME NEW n \in Namespace PROVE NSMutex(n)'
  <2>1. CASE n = call[t].ns
    <3>1. NSMutex(n) /\ nsRW[n] \in Lock /\ nsRW'[n] = Unlock(nsRW[n])
        BY <1>1, <2>1
    <3>2. nsRW[n].owner = t /\ nsRW[n].shared = {} /\ nsRW[n].pending = None
        BY <1>1, <2>1, <3>1 DEF NSMutex, InBody
    <3>3. /\ nsRW'[n].shared = nsRW[n].waiting /\ nsRW'[n].waiting = {}
          /\ nsRW'[n].owner = None /\ nsRW'[n].pending = None
        BY <3>1, <3>2 DEF Unlock, Lock
    <3>4. \A u \in Thread : Knows(nsRW[n], u, SharesNS(u, n), call[u].pc = "ns", handle[u] = n)'
      <4> SUFFICES ASSUME NEW u \in Thread
                   PROVE  Knows(nsRW[n], u, SharesNS(u, n), call[u].pc = "ns", handle[u] = n)'
          OBVIOUS
      <4>1. Knows(nsRW[n], u, SharesNS(u, n), call[u].pc = "ns", handle[u] = n)
          BY <3>1 DEF NSMutex
      <4>2. CASE u = t
          BY <1>1, <1>2, <3>2, <3>3, <4>1, <4>2 DEF Knows, SharesNS, InBody
      <4>3. CASE u # t
          BY <1>1, <1>2, <3>2, <3>3, <4>1, <4>3 DEF Knows, SharesNS, InBody
      <4> QED
          BY <4>2, <4>3
    <3>5. \A u \in Thread : u # t => nsRW[n].owner # u /\ nsRW[n].pending # u
        BY <3>2
    <3> QED
        BY SMTT(30), <1>1, <1>2, <2>1, <3>1, <3>3, <3>4, <3>5 DEF NSMutex, InBody
  <2>2. CASE n # call[t].ns
    <3>1. nsRW'[n] = nsRW[n]
        BY <1>1, <2>2
    <3> QED
        BY <1>1, <1>2, <2>2, <3>1 DEF NSMutex, Knows, SharesNS, InBody, EngineOp
  <2> QED
      BY <2>1, <2>2
<1>7. \A u \in Thread : Works(u)'
    BY <1>1, <1>2 DEF Works, SharesStore, ExclusiveOp
<1> QED
    BY <1>1, <1>3, <1>4, <1>5, <1>6, <1>7

LEMMA AnnounceExclusiveInv ==
    ASSUME GuardInv, NEW t \in Thread, AnnounceExclusive(t)
    PROVE  GuardInv'
<1> USE NoneAssumption DEF GuardInv
<1>1. /\ call[t].pc = "begin" /\ call[t].op \in ExclusiveOp
      /\ mu \in Lock /\ mu.owner = None /\ mu.pending = None
      /\ mu' = Announce(mu, t)
      /\ UNCHANGED <<nsRW, closed, engines, running, handle>>
    BY DEF AnnounceExclusive, CanAnnounce, GuardTypeOK
<1>2. /\ call' \in [Thread -> Busy \cup {Idle}]
      /\ call'[t].pc = "drain" /\ call'[t].op = call[t].op /\ call'[t].ns = call[t].ns
      /\ call[t].ns \in Namespace
      /\ \A u \in Thread : u # t => call'[u] = call[u]
    BY <1>1, CallGoesOn DEF AnnounceExclusive, Busy
<1>3. GuardTypeOK'
    BY <1>1, <1>2, LockTypes DEF GuardTypeOK
<1>4. \A u \in Thread : CallShape(u)'
    BY <1>1, <1>2 DEF CallShape, ExclusiveOp
<1>5. StoreMutex'
    BY <1>1, <1>2 DEF StoreMutex, Knows, SharesStore, InBody, Announce, Lock
<1>6. \A n \in Namespace : NSMutex(n)'
    BY <1>1, <1>2 DEF NSMutex, Knows, SharesNS, InBody, EngineOp, ExclusiveOp
<1>7. \A u \in Thread : Works(u)'
    BY <1>1, <1>2 DEF Works, SharesStore
<1> QED
    BY <1>1, <1>3, <1>4, <1>5, <1>6, <1>7

LEMMA EnterExclusiveInv ==
    ASSUME GuardInv, NEW t \in Thread, EnterExclusive(t)
    PROVE  GuardInv'
<1> USE NoneAssumption DEF GuardInv
<1>1. /\ call[t].pc = "drain" /\ call[t].op \in ExclusiveOp
      /\ mu \in Lock /\ mu.pending = t /\ mu.shared = {}
      /\ mu' = Enter(mu, t)
      /\ UNCHANGED <<nsRW, closed, engines, running, handle>>
    BY DEF EnterExclusive, CanEnter, GuardTypeOK
<1>2. /\ call' \in [Thread -> Busy \cup {Idle}]
      /\ call'[t].pc = "body" /\ call'[t].op = call[t].op /\ call'[t].ns = call[t].ns
      /\ call[t].ns \in Namespace
      /\ \A u \in Thread : u # t => call'[u] = call[u]
    BY <1>1, CallGoesOn DEF EnterExclusive, Busy
<1>3. GuardTypeOK'
    BY <1>1, <1>2, LockTypes DEF GuardTypeOK
<1>4. \A u \in Thread : CallShape(u)'
    BY <1>1, <1>2 DEF CallShape, ExclusiveOp
<1>5. StoreMutex'
    BY <1>1, <1>2 DEF StoreMutex, Knows, SharesStore, InBody, Enter, Lock
<1>6. \A n \in Namespace : NSMutex(n)'
    BY <1>1, <1>2 DEF NSMutex, Knows, SharesNS, InBody, EngineOp, ExclusiveOp
<1>7. \A u \in Thread : Works(u)'
    BY <1>1, <1>2 DEF Works, SharesStore
<1> QED
    BY <1>1, <1>3, <1>4, <1>5, <1>6, <1>7

\* Under the store's exclusive guard nobody works on an engine and no reader is open.
LEMMA Drained ==
    ASSUME GuardInv, NEW t \in Thread, InBody(t, ExclusiveOp)
    PROVE  /\ \A u \in Thread : SharesStore(u) => call[u].pc = "guarded"
           /\ \A u \in Thread : handle[u] = None
<1>1. mu.owner = t /\ mu.shared = {}
    BY NoneAssumption DEF GuardInv, StoreMutex
<1> QED
    BY <1>1 DEF GuardInv, StoreMutex, Knows

\* Close, CreateNamespace and DeleteNamespace.
LEMMA LeaveInv ==
    ASSUME GuardInv, NEW t \in Thread, InBody(t, ExclusiveOp), Leave(t),
           closed' \in BOOLEAN, engines' \subseteq Namespace, running' \subseteq engines',
           ~closed' => running' = engines'
    PROVE  GuardInv'
<1> USE NoneAssumption DEF GuardInv
<1>1. /\ call[t].pc = "body" /\ call[t].op \in ExclusiveOp
      /\ mu \in Lock /\ mu' = Unlock(mu)
      /\ UNCHANGED <<nsRW, handle>>
    BY DEF Leave, GuardTypeOK, InBody
<1>2. /\ call' \in [Thread -> Busy \cup {Idle}]
      /\ call'[t].pc = "idle" /\ call'[t].op = None /\ call'[t].ns = None
      /\ call[t].ns \in Namespace
      /\ \A u \in Thread : u # t => call'[u] = call[u]
    BY <1>1, CallEnds DEF Leave, Busy
<1>3. GuardTypeOK'
    BY <1>1, <1>2, LockTypes DEF GuardTypeOK
<1>4. \A u \in Thread : CallShape(u)'
    BY <1>1, <1>2 DEF CallShape
<1>5. StoreMutex'
  <2>1. mu.owner = t /\ mu.shared = {} /\ mu.pending = None
      BY <1>1 DEF StoreMutex, InBody
  <2>2. mu'.shared = mu.waiting /\ mu'.waiting = {} /\ mu'.owner = None /\ mu'.pending = None
      BY <1>1, <2>1 DEF Unlock, Lock
  <2>3. \A u \in Thread : mu'.owner # u /\ mu'.pending # u
      BY <2>2
  <2>4. \A u \in Thread : /\ ~InBody(u, ExclusiveOp)'
                        /\ ~(call'[u].pc = "drain" /\ call'[u].op \in ExclusiveOp)
      BY <1>1, <1>2, <2>1 DEF StoreMutex, InBody
  <2>5. \A u \in Thread : Knows(mu, u, SharesStore(u), call[u].pc = "guarded", handle[u] # None)'
      BY <1>1, <1>2, <2>1, <2>2 DEF StoreMutex, Knows, SharesStore
  <2> QED
      BY <2>2, <2>3, <2>4, <2>5 DEF StoreMutex
<1>6. \A n \in Namespace : NSMutex(n)'
    BY <1>1, <1>2 DEF NSMutex, Knows, SharesNS, InBody, EngineOp, ExclusiveOp
<1>7. \A u \in Thread : Works(u)'
    BY <1>1, <1>2, Drained DEF Works, SharesStore
<1> QED
    BY <1>3, <1>4, <1>5, <1>6, <1>7

LEMMA StepInv == GuardInv /\ [GuardNext]_vars => GuardInv'
<1> SUFFICES ASSUME GuardInv, [GuardNext]_vars PROVE GuardInv'
    OBVIOUS
<1>1. ASSUME NEW t \in Thread, CloseStore(t) PROVE GuardInv'
    BY <1>1, LeaveInv DEF CloseStore, InBody, ExclusiveOp, GuardInv, GuardTypeOK
<1>2. ASSUME NEW t \in Thread, CreateNamespace(t) PROVE GuardInv'
  <2>1. call[t].ns \in Namespace
      BY <1>2 DEF CreateNamespace, GuardInv, GuardTypeOK, Busy, Idle
  <2> QED
      BY <1>2, <2>1, LeaveInv DEF CreateNamespace, InBody, ExclusiveOp, GuardInv, GuardTypeOK
<1>3. ASSUME NEW t \in Thread, DeleteNamespace(t) PROVE GuardInv'
    BY <1>3, LeaveInv DEF DeleteNamespace, InBody, ExclusiveOp, GuardInv, GuardTypeOK
<1>4. ASSUME NEW t \in Thread, Progress(t) PROVE GuardInv'
    BY <1>1, <1>2, <1>3, <1>4, BeginOpInv, RefuseInv, IndexOpInv, BeginNSOpInv, NSGuardedInv,
       EndOpInv, GetReturnsInv, BeginRewriteInv, EnterRewriteInv, EndRewriteInv,
       EnterExclusiveInv
    DEF Progress
<1>5. CASE UNCHANGED vars
    BY <1>5
    DEF vars, GuardInv, GuardTypeOK, CallShape, StoreMutex, NSMutex, Works, Knows, SharesStore,
        SharesNS, InBody
<1> QED
    BY <1>4, <1>5, CallInv, CloseReaderInv, AnnounceRewriteInv, AnnounceExclusiveInv DEF GuardNext

-----------------------------------------------------------------------------
(* What follows from it                                                    *)

LEMMA NobodyLosesEngine == GuardInv => EnginesStayOpen
<1> SUFFICES ASSUME GuardInv, NEW t \in Thread
             PROVE  /\ InBody(t, EngineOp) => call[t].ns \in running
                    /\ handle[t] # None => handle[t] \in running
                    /\ InBody(t, {"index"}) => ~closed
    BY DEF EnginesStayOpen
<1>1. InBody(t, EngineOp) \/ InBody(t, {"index"}) => SharesStore(t) /\ call[t].pc # "guarded"
    BY DEF InBody, SharesStore, EngineOp, ExclusiveOp
<1> QED
    BY <1>1 DEF GuardInv, Works, InBody, EngineOp

LEMMA RewriterIsAlone == GuardInv => RewriteExclusive
<1> SUFFICES ASSUME GuardInv, NEW t \in Thread, NEW u \in Thread, InBody(t, {"rewrite"})
             PROVE  /\ handle[u] # call[t].ns
                    /\ u # t /\ InBody(u, EngineOp) => call[u].ns # call[t].ns
    BY DEF RewriteExclusive
<1> DEFINE n == call[t].ns
<1>1. n \in Namespace
    BY DEF GuardInv, GuardTypeOK, InBody, Busy, Idle
<1>2. NSMutex(n) /\ nsRW[n].owner = t /\ nsRW[n].shared = {}
    BY <1>1, NoneAssumption DEF GuardInv, NSMutex
<1>3. handle[u] # n
    BY <1>2 DEF NSMutex, Knows
<1>4. ASSUME u # t, InBody(u, EngineOp), call[u].ns = n PROVE FALSE
  <2>1. CASE call[u].op = "rewrite"
      BY <1>2, <1>4, <2>1 DEF NSMutex, InBody
  <2>2. CASE call[u].op # "rewrite"
    <3>1. SharesNS(u, n)
        BY <1>4, <2>2 DEF SharesNS, InBody
    <3> QED
        BY <1>2, <1>4, <3>1 DEF NSMutex, Knows, InBody
  <2> QED
      BY <2>1, <2>2
<1> QED
    BY <1>3, <1>4

\* The types of the mutexes and calls, and that no engine runs that the store
\* has forgotten.
THEOREM GuardTypeCorrect == GuardSpec => []GuardTypeOK
<1>1. GuardInv => GuardTypeOK
    BY DEF GuardInv
<1> QED
    BY <1>1, InitInv, StepInv, PTL DEF GuardSpec

\* Close and DeleteNamespace close no engine that an operation or an open
\* reader still works on, and no index under an index operation.
THEOREM EnginesAreKept == GuardSpec => []EnginesStayOpen
    BY InitInv, StepInv, NobodyLosesEngine, PTL DEF GuardSpec

\* Phase 2 of Compact is alone in its namespace.
THEOREM RewritesAreAlone == GuardSpec => []RewriteExclusive
    BY InitInv, StepInv, RewriterIsAlone, PTL DEF GuardSpec
=============================================================================
