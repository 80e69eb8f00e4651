------------------------ MODULE TransactionPoolProofs ------------------------
(***************************************************************************)
(* For every number of calls and of clients: no client leaks or is shared, *)
(* none returns to the pool with a transaction in progress, nobody commits *)
(* what is not his own, and a transaction that returned is committed.      *)
(***************************************************************************)
EXTENDS TransactionPool, SequenceTheorems, TLAPS

\* The queue ws holds calls that wait, where p says what each does, and each once.
QueueOf(ws, p) ==
  /\ \A i \in 1..Len(ws) : p[ws[i]] = "waiting"
  /\ \A i, j \in 1..Len(ws) : ws[i] = ws[j] => i = j

QueueOrder == QueueOf(waiters, pc)

Clean(cl) == session[cl] = "none" /\ writes[cl] = {}

\* A connection that broke is that of a client which a call is using.
BrokenAreBusy == \A cl \in broken : client[cl] = "busy" /\ Clean(cl)

\* The stages in which a call's client has no transaction in progress.
CleanStages == {"connecting", "begin", "commitAck", "release", "releaseThrown", "exec", "destroy"}

\* A call's client is in use, holds no write but the call's own, and is clean in
\* every stage that may hand it back.
SessionsMatch ==
  \A c \in Calls : held[c] # None =>
    /\ client[held[c]] = IF pc[c] = "connecting" THEN "connecting" ELSE "busy"
    /\ writes[held[c]] \subseteq {c} \cap wrote
    /\ pc[c] \in CleanStages => Clean(held[c])

\* A transaction writes after its BEGIN and is committed by its COMMIT.
History ==
  /\ \A t \in wrote : pc[t] \notin {"new", "waiting", "connecting", "begin"}
  /\ \A t \in committed :
       t \in wrote /\ pc[t] \in {"commitAck", "release", "rollback", "releaseThrown"} \cup Settled

PoolInv ==
  /\ TypeOK /\ ClientsAccountedFor /\ QueueOrder
  /\ IdleClientsAreClean /\ BrokenAreBusy /\ SessionsMatch /\ History

\* Until COMMIT the write of a running transaction is in its session, or lost with
\* its connection, and after it in the database.
Kept(t) ==
  /\ pc[t] \in {"body", "inner", "commit"} =>
       held[t] \in broken \/ (session[held[t]] = "open" /\ t \in writes[held[t]])
  /\ pc[t] \in {"commitAck", "release", "returned"} => t \in committed

\* That is so where no fn swallows an error.
WriteIsKept == \A t \in Txs \cap wrote : Kept(t)

\* What a call may do next, by the kind of call it is.
StageFits(c, s) ==
  /\ s \in {"new", "waiting"} \cup Holding \cup Settled
  /\ c \in Txs => s \notin QueryStages \ TxStages
  /\ c \in Queries => s \notin TxStages \ QueryStages

AfterCommit == {"commitAck", "release", "rollback", "releaseThrown"} \cup Settled

\* What only the pool's own steps change.
PoolStands == UNCHANGED <<held, waiters, client, broken, ending>>

-----------------------------------------------------------------------------
(* The queue.                                                              *)

\* A call that does not wait may do anything but wait, or join.
LEMMA QueueGoto ==
  ASSUME NEW ws \in Seq(Calls), NEW p, p = [x \in Calls |-> p[x]], QueueOf(ws, p),
         NEW c \in Calls, p[c] # "waiting", NEW s
  PROVE  QueueOf(ws, [p EXCEPT ![c] = s])
<1>1. \A i \in 1..Len(ws) : ws[i] \in Calls /\ ws[i] # c
  BY ElementOfSeq DEF QueueOf
<1> QED
  BY <1>1 DEF QueueOf

LEMMA QueueJoin ==
  ASSUME NEW ws \in Seq(Calls), NEW p, p = [x \in Calls |-> p[x]], QueueOf(ws, p),
         NEW c \in Calls, p[c] # "waiting"
  PROVE  Append(ws, c) \in Seq(Calls) /\ QueueOf(Append(ws, c), [p EXCEPT ![c] = "waiting"])
<1> DEFINE vs == Append(ws, c)
           q == [p EXCEPT ![c] = "waiting"]
           n == Len(ws)
<1>1. /\ vs \in Seq(Calls) /\ Len(vs) = n + 1 /\ n \in Nat
      /\ \A i \in 1..n : vs[i] = ws[i]
      /\ vs[n + 1] = c
  BY AppendProperties, LenProperties
<1>2. \A i \in 1..n : ws[i] \in Calls /\ ws[i] # c
  BY ElementOfSeq DEF QueueOf
<1>3. q[c] = "waiting" /\ \A x \in Calls : x # c => q[x] = p[x]
  OBVIOUS
<1>4. QueueOf(ws, p)
  OBVIOUS
<1> SUFFICES QueueOf(vs, q)
  BY <1>1
<1> HIDE DEF vs, q, n
<1>5. n = Len(ws)
  BY DEF n
<1>6. \A i \in 1..(n + 1) : i = n + 1 \/ i \in 1..n
  BY <1>1
<1>7. \A i \in 1..Len(vs) : q[vs[i]] = "waiting"
  BY <1>1, <1>2, <1>3, <1>4, <1>5, <1>6 DEF QueueOf
<1>8. \A i, j \in 1..Len(vs) : vs[i] = vs[j] => i = j
  BY <1>1, <1>2, <1>4, <1>5, <1>6 DEF QueueOf
<1> QED
  BY <1>7, <1>8 DEF QueueOf

\* The oldest waiter leaves.
LEMMA QueueServe ==
  ASSUME NEW ws \in Seq(Calls), NEW p, p = [x \in Calls |-> p[x]], QueueOf(ws, p),
         ws # <<>>, NEW s
  PROVE  /\ Head(ws) \in Calls /\ p[Head(ws)] = "waiting"
         /\ Tail(ws) \in Seq(Calls) /\ QueueOf(Tail(ws), [p EXCEPT ![Head(ws)] = s])
<1> DEFINE h == Head(ws)
           vs == Tail(ws)
           n == Len(ws)
<1>1. /\ h \in Calls /\ h = ws[1] /\ vs \in Seq(Calls) /\ n \in Nat \ {0} /\ Len(vs) = n - 1
      /\ \A i \in 1..Len(vs) : vs[i] = ws[i + 1]
  BY HeadTailProperties, LenProperties, EmptySeq
<1>2. \A i \in 1..n : ws[i] \in Calls
  BY ElementOfSeq
<1>3. QueueOf(ws, p) /\ n = Len(ws)
  OBVIOUS
<1> HIDE DEF h, vs, n
<1>4. p[h] = "waiting" /\ \A i \in 1..n : i # 1 => ws[i] # h
  BY <1>1, <1>3 DEF QueueOf
<1>5. \A i \in 1..Len(vs) : i + 1 \in 1..n /\ i + 1 # 1
  BY <1>1
<1>6. QueueOf(vs, [p EXCEPT ![h] = s])
  BY <1>1, <1>2, <1>3, <1>4, <1>5 DEF QueueOf
<1> QED
  BY <1>1, <1>4, <1>6 DEF h, vs

\* A waiter gives up.
LEMMA QueueLeave ==
  ASSUME NEW ws \in Seq(Calls), NEW p, p = [x \in Calls |-> p[x]], QueueOf(ws, p),
         NEW k \in 1..Len(ws), NEW s
  PROVE  /\ RemoveAt(ws, k) \in Seq(Calls)
         /\ QueueOf(RemoveAt(ws, k), [p EXCEPT ![ws[k]] = s])
<1> DEFINE n == Len(ws)
           a == SubSeq(ws, 1, k - 1)
           b == SubSeq(ws, k + 1, n)
           vs == a \o b
           from == [i \in 1..(n - 1) |-> IF i < k THEN i ELSE i + 1]
<1>1. n \in Nat /\ k \in 1..n /\ \A i \in 1..n : ws[i] \in Calls
  BY LenProperties, ElementOfSeq
<1>2. /\ a \in Seq(Calls) /\ Len(a) = k - 1
      /\ \A i \in 1..(k - 1) : a[i] = ws[i]
  <2>1. k - 1 \in Int /\ \A i \in 1..(k - 1) : ws[i] \in Calls
    BY <1>1
  <2>2. /\ SubSeq(ws, 1, k - 1) \in Seq(Calls)
        /\ Len(SubSeq(ws, 1, k - 1)) = IF 1 <= k - 1 THEN (k - 1) - 1 + 1 ELSE 0
        /\ \A i \in 1..((k - 1) - 1 + 1) : SubSeq(ws, 1, k - 1)[i] = ws[1 + i - 1]
    BY <2>1, SubSeqProperties
  <2> HIDE DEF n
  <2> QED
    BY <2>2, <1>1
<1>3. /\ b \in Seq(Calls) /\ Len(b) = n - k
      /\ \A i \in 1..(n - k) : b[i] = ws[k + i]
  <2>1. k + 1 \in Int /\ n \in Int /\ \A i \in (k + 1)..n : ws[i] \in Calls
    BY <1>1
  <2>2. /\ b \in Seq(Calls)
        /\ Len(b) = IF k + 1 <= n THEN n - (k + 1) + 1 ELSE 0
        /\ \A i \in 1..(n - (k + 1) + 1) : b[i] = ws[(k + 1) + i - 1]
    BY <2>1, SubSeqProperties
  <2> HIDE DEF n, b
  <2>3. Len(b) = n - k
    BY <2>2, <1>1
  <2>4. ASSUME NEW i \in 1..(n - k)
        PROVE  b[i] = ws[k + i]
    <3>1. i \in 1..(n - (k + 1) + 1) /\ (k + 1) + i - 1 = k + i
      BY <1>1
    <3> QED
      BY <3>1, <2>2
  <2> QED
    BY <2>2, <2>3, <2>4
<1>4. RemoveAt(ws, k) = vs
  BY DEF RemoveAt
<1> HIDE DEF a, b
<1>5. /\ vs \in Seq(Calls) /\ Len(vs) = Len(a) + Len(b)
      /\ \A i \in 1..(Len(a) + Len(b)) : vs[i] = IF i <= Len(a) THEN a[i] ELSE b[i - Len(a)]
  BY <1>2, <1>3, ConcatProperties
<1>6. QueueOf(ws, p) /\ n = Len(ws)
  OBVIOUS
<1> HIDE DEF vs, n
<1>7. /\ Len(vs) = n - 1
      /\ \A i \in 1..(n - 1) : from[i] \in 1..n /\ from[i] # k /\ vs[i] = ws[from[i]]
      /\ \A i, j \in 1..(n - 1) : from[i] = from[j] => i = j
  <2>1. Len(vs) = n - 1
    BY <1>1, <1>2, <1>3, <1>5
  <2>2. ASSUME NEW i \in 1..(n - 1)
        PROVE  from[i] \in 1..n /\ from[i] # k /\ vs[i] = ws[from[i]]
    <3>1. CASE i < k
      BY <3>1, <1>1, <1>2, <1>3, <1>5
    <3>2. CASE ~(i < k)
      <4>1. i - (k - 1) \in 1..(n - k) /\ k + (i - (k - 1)) = i + 1 /\ ~(i <= k - 1)
        BY <3>2, <1>1
      <4>2. i \in 1..(Len(a) + Len(b)) /\ Len(a) = k - 1
        BY <1>1, <1>2, <1>3
      <4>3. vs[i] = b[i - (k - 1)]
        BY <4>1, <4>2, <1>5
      <4>4. vs[i] = ws[i + 1]
        BY <4>1, <4>3, <1>3
      <4> QED
        BY <3>2, <4>4, <1>1
    <3> QED
      BY <3>1, <3>2
  <2>3. \A i, j \in 1..(n - 1) : from[i] = from[j] => i = j
    BY <1>1
  <2> QED
    BY <2>1, <2>2, <2>3
<1> HIDE DEF from
<1>8. \A i \in 1..(n - 1) : ws[from[i]] # ws[k]
  BY <1>1, <1>6, <1>7 DEF QueueOf
<1>9. QueueOf(vs, [p EXCEPT ![ws[k]] = s])
  BY <1>1, <1>6, <1>7, <1>8 DEF QueueOf
<1> QED
  BY <1>4, <1>5, <1>9

-----------------------------------------------------------------------------
(* The steps of a call that holds a client.                                *)

\* A call c with a client goes on to stage s, and leaves its session in state x
\* with the writes w.
LEMMA CallStep ==
  ASSUME PoolInv, NEW c \in Calls, NEW s, NEW x \in {"none", "open", "aborted"}, NEW w,
         held[c] # None, pc[c] # "connecting", s \notin {"connecting", "begin"},
         s \in Holding, StageFits(c, s), PoolStands,
         pc' = [pc EXCEPT ![c] = s],
         session' = [session EXCEPT ![held[c]] = x],
         writes' = [writes EXCEPT ![held[c]] = w],
         wrote' \in SUBSET Txs, wrote \subseteq wrote', wrote' \subseteq wrote \cup {c},
         committed \subseteq committed', committed' \subseteq (committed \cup {c}) \cap wrote',
         w \subseteq {c} \cap wrote',
         held[c] \in broken \/ s \in CleanStages => x = "none" /\ w = {},
         c \in committed' => s \in AfterCommit
  PROVE  PoolInv'
<1> USE DEF PoolStands
<1>1. /\ TypeOK /\ ClientsAccountedFor /\ QueueOrder
      /\ IdleClientsAreClean /\ BrokenAreBusy /\ SessionsMatch /\ History
  BY DEF PoolInv
<1>2. /\ pc \in [Calls -> {"new", "waiting"} \cup Holding \cup Settled]
      /\ session \in [Clients -> {"none", "open", "aborted"}]
      /\ writes \in [Clients -> SUBSET Txs] /\ committed \subseteq Txs
      /\ held[c] \in Clients /\ held \in [Calls -> Clients \cup {None}]
      /\ waiters \in Seq(Calls) /\ Txs \subseteq Calls
  BY <1>1 DEF TypeOK, Calls
<1>3. /\ \A d \in Calls : held[d] = held[c] => d = c
      /\ pc[c] \in Holding /\ pc[c] # "waiting"
      /\ client[held[c]] = "busy"
  BY <1>1, <1>2, PoolAssumption DEF ClientsAccountedFor, SessionsMatch, Holding, TxStages, QueryStages
<1>4. TypeOK'
  <2>1. pc' \in [Calls -> {"new", "waiting"} \cup Holding \cup Settled]
    BY <1>2
  <2>2. /\ \A t \in Txs : pc'[t] \notin QueryStages \ TxStages
        /\ \A q \in Queries : pc'[q] \notin TxStages \ QueryStages
    BY <1>1, <1>2 DEF TypeOK, StageFits, Calls
  <2>3. w \subseteq Txs /\ committed' \subseteq Txs
    OBVIOUS
  <2>4. session' \in [Clients -> {"none", "open", "aborted"}] /\ writes' \in [Clients -> SUBSET Txs]
    BY <1>2, <2>3
  <2> QED
    BY <1>1, <2>1, <2>2, <2>3, <2>4 DEF TypeOK
<1>5. ClientsAccountedFor'
  BY <1>1, <1>2, <1>3 DEF ClientsAccountedFor
<1>6. QueueOrder'
  <2>1. \A i \in 1..Len(waiters) : waiters[i] \in Calls /\ waiters[i] # c
    BY <1>1, <1>2, <1>3, ElementOfSeq DEF QueueOrder, QueueOf
  <2> QED
    BY <1>1, <1>2, <2>1 DEF QueueOrder, QueueOf
<1>7. IdleClientsAreClean'
  BY <1>1, <1>2, <1>3 DEF IdleClientsAreClean
<1>8. BrokenAreBusy'
  <2>1. broken \subseteq Clients
    BY <1>1 DEF TypeOK
  <2> QED
    BY <1>1, <1>2, <2>1 DEF BrokenAreBusy, Clean
<1>9. SessionsMatch'
  <2> SUFFICES ASSUME NEW d \in Calls, held[d] # None
               PROVE  /\ client[held[d]] = IF pc'[d] = "connecting" THEN "connecting" ELSE "busy"
                      /\ writes'[held[d]] \subseteq {d} \cap wrote'
                      /\ pc'[d] \in CleanStages => Clean(held[d])'
    BY DEF SessionsMatch
  <2>1. CASE d = c
    BY <2>1, <1>2, <1>3 DEF Clean
  <2>2. CASE d # c
    <3>1. held[d] # held[c] /\ held[d] \in Clients /\ pc'[d] = pc[d]
      BY <2>2, <1>2, <1>3
    <3>2. session'[held[d]] = session[held[d]] /\ writes'[held[d]] = writes[held[d]]
      BY <3>1, <1>2
    <3> QED
      BY <3>1, <3>2, <1>1 DEF SessionsMatch, Clean
  <2> QED
    BY <2>1, <2>2
<1>10. History'
  <2> SUFFICES /\ \A t \in wrote' : pc'[t] \notin {"new", "waiting", "connecting", "begin"}
               /\ \A t \in committed' : t \in wrote' /\ pc'[t] \in AfterCommit
    BY DEF History, AfterCommit
  <2>1. s \notin {"new", "waiting"}
    BY DEF Holding, TxStages, QueryStages
  <2>2. \A t \in Txs : t # c => pc'[t] = pc[t]
    BY <1>2
  <2> QED
    BY <2>1, <2>2, <1>1, <1>2 DEF History, AfterCommit
<1> QED
  BY <1>4, <1>5, <1>6, <1>7, <1>8, <1>9, <1>10 DEF PoolInv

\* The same for a statement that leaves no write in the session.
LEMMA SessionStep ==
  ASSUME PoolInv, NEW c \in Calls, NEW s, NEW x \in {"none", "open", "aborted"},
         held[c] # None, pc[c] # "connecting", s \notin {"connecting", "begin"},
         s \in Holding, StageFits(c, s), PoolStands,
         pc' = [pc EXCEPT ![c] = s],
         session' = [session EXCEPT ![held[c]] = x],
         writes' = [writes EXCEPT ![held[c]] = {}],
         UNCHANGED <<wrote, committed>>,
         held[c] \in broken \/ s \in CleanStages => x = "none",
         c \in committed => s \in AfterCommit
  PROVE  PoolInv'
<1>1. wrote' = wrote /\ committed' = committed /\ wrote \in SUBSET Txs /\ committed \subseteq wrote
  BY DEF PoolInv, TypeOK, History
<1>2. /\ wrote' \in SUBSET Txs /\ wrote \subseteq wrote' /\ wrote' \subseteq wrote \cup {c}
      /\ committed \subseteq committed' /\ committed' \subseteq (committed \cup {c}) \cap wrote'
      /\ {} \subseteq {c} \cap wrote'
      /\ (c \in committed' => s \in AfterCommit)
  BY <1>1
<1>3. held[c] \in broken \/ s \in CleanStages => x = "none" /\ {} = {}
  OBVIOUS
<1> DEFINE w == {}
<1>4. /\ writes' = [writes EXCEPT ![held[c]] = w] /\ w \subseteq {c} \cap wrote'
      /\ (held[c] \in broken \/ s \in CleanStages => x = "none" /\ w = {})
  BY <1>2, <1>3
<1> HIDE DEF w
<1> QED
  BY <1>2, <1>4, CallStep

\* The same for a step that leaves the server alone.
LEMMA GotoStep ==
  ASSUME PoolInv, NEW c \in Calls, NEW s,
         held[c] # None, pc[c] # "connecting", s \notin {"connecting", "begin"},
         s \in Holding, StageFits(c, s), PoolStands, UNCHANGED <<serverVars, wrote>>,
         pc' = [pc EXCEPT ![c] = s],
         s \in CleanStages => Clean(held[c]),
         c \in committed => s \in AfterCommit
  PROVE  PoolInv'
<1> DEFINE x == session[held[c]]
           w == writes[held[c]]
<1>1. /\ TypeOK /\ held[c] \in Clients /\ broken \subseteq Clients
      /\ session \in [Clients -> {"none", "open", "aborted"}]
      /\ writes \in [Clients -> SUBSET Txs]
  BY DEF PoolInv, TypeOK, Calls
<1>2. x \in {"none", "open", "aborted"} /\ w \subseteq {c} \cap wrote
  BY <1>1 DEF PoolInv, SessionsMatch
<1>3. session' = [session EXCEPT ![held[c]] = x] /\ writes' = [writes EXCEPT ![held[c]] = w]
  BY <1>1 DEF serverVars
<1>4. held[c] \in broken \/ s \in CleanStages => x = "none" /\ w = {}
  BY <1>1 DEF PoolInv, BrokenAreBusy, Clean
<1>5. wrote' = wrote /\ committed' = committed /\ wrote \in SUBSET Txs /\ committed \subseteq wrote
  BY <1>1 DEF serverVars, TypeOK, PoolInv, History
<1> HIDE DEF x, w
<1> QED
  BY <1>2, <1>3, <1>4, <1>5, CallStep

\* Who holds a client, seen from the stage.
LEMMA StageHolds ==
  ASSUME PoolInv, NEW c \in Calls, pc[c] \in Holding
  PROVE  /\ held[c] \in Clients /\ held[c] # None
         /\ \A d \in Calls : held[d] = held[c] => d = c
         /\ client[held[c]] = IF pc[c] = "connecting" THEN "connecting" ELSE "busy"
         /\ pc[c] \in CleanStages => Clean(held[c])
         /\ writes[held[c]] \subseteq {c} \cap wrote
         /\ held[c] \in broken => Clean(held[c])
<1>1. held[c] \in Clients /\ held[c] # None
  BY DEF PoolInv, TypeOK, ClientsAccountedFor
<1> QED
  BY <1>1 DEF PoolInv, ClientsAccountedFor, SessionsMatch, BrokenAreBusy

LEMMA BeginStep ==
  ASSUME PoolInv, NEW c \in Txs, Begin(c)
  PROVE  PoolInv'
<1> DEFINE s == IF Usable(c) THEN "body" ELSE "rollback"
           x == IF Usable(c) THEN "open" ELSE "none"
<1>1. c \in Calls /\ pc[c] = "begin" /\ pc[c] \in Holding
  BY DEF Begin, Calls, Holding, TxStages
<1>2. held[c] \in Clients /\ held[c] # None /\ Clean(held[c])
  BY <1>1, StageHolds DEF CleanStages
<1>3. /\ session' = [session EXCEPT ![held[c]] = x]
      /\ writes' = [writes EXCEPT ![held[c]] = {}]
  BY <1>2 DEF Begin, Clean, PoolInv, TypeOK
<1>4. /\ s \in Holding /\ StageFits(c, s) /\ s \notin CleanStages
      /\ s \notin {"connecting", "begin"}
  BY PoolAssumption DEF StageFits, Holding, TxStages, QueryStages, CleanStages
<1>5. /\ pc' = [pc EXCEPT ![c] = s] /\ wrote' = wrote /\ committed' = committed /\ PoolStands
      /\ (held[c] \in broken => x = "none")
  BY DEF Begin, Goto, poolVars, PoolStands, Usable
<1>6. c \notin committed /\ pc[c] # "connecting" /\ x \in {"none", "open", "aborted"}
  BY <1>1 DEF PoolInv, History, Settled
<1> HIDE DEF s, x
<1> QED
  BY <1>1, <1>2, <1>3, <1>4, <1>5, <1>6, SessionStep

LEMMA WriteStep ==
  ASSUME PoolInv, NEW c \in Txs, Write(c)
  PROVE  PoolInv'
<1> DEFINE w == writes[held[c]] \cup {c}
<1>1. c \in Calls /\ pc[c] = "body" /\ pc[c] \in Holding /\ held[c] \notin broken
  BY DEF Write, Usable, Calls, Holding, TxStages
<1>2. /\ held[c] \in Clients /\ held[c] # None /\ writes[held[c]] \subseteq {c} \cap wrote
  BY <1>1, StageHolds
<1>3. /\ session' = [session EXCEPT ![held[c]] = "open"]
      /\ writes' = [writes EXCEPT ![held[c]] = w] /\ wrote' = wrote \cup {c}
      /\ pc' = [pc EXCEPT ![c] = "body"] /\ committed' = committed /\ PoolStands
  BY <1>1, <1>2 DEF Write, PoolInv, TypeOK, callVars, poolVars, PoolStands
<1>4. /\ "body" \in Holding /\ StageFits(c, "body") /\ "body" \notin CleanStages
  BY PoolAssumption DEF StageFits, Holding, TxStages, QueryStages, CleanStages
<1>5. wrote \in SUBSET Txs /\ committed \subseteq wrote /\ c \notin committed
  BY <1>1 DEF PoolInv, TypeOK, History, Settled
<1>6. /\ w \subseteq {c} \cap wrote'
      /\ wrote' \in SUBSET Txs /\ wrote \subseteq wrote' /\ wrote' \subseteq wrote \cup {c}
      /\ committed \subseteq committed' /\ committed' \subseteq (committed \cup {c}) \cap wrote'
      /\ c \notin committed' /\ pc[c] # "connecting"
      /\ "open" \in {"none", "open", "aborted"} /\ "body" \notin {"connecting", "begin"}
  BY <1>1, <1>2, <1>3, <1>5
<1> HIDE DEF w
<1> QED
  BY <1>1, <1>2, <1>3, <1>4, <1>5, <1>6, CallStep

LEMMA StatementFailsStep ==
  ASSUME PoolInv, NEW c \in Txs, StatementFails(c)
  PROVE  PoolInv'
<1>1. c \in Calls /\ pc[c] = "body" /\ pc[c] \in Holding /\ held[c] \notin broken
  BY DEF StatementFails, Usable, Calls, Holding, TxStages
<1>2. held[c] \in Clients /\ held[c] # None
  BY <1>1, StageHolds
<1>3. PICK s \in {"body", "rollback"} : pc' = [pc EXCEPT ![c] = s]
  BY <1>1 DEF StatementFails, Goto, PoolInv, TypeOK
<1>4. /\ session' = [session EXCEPT ![held[c]] = "aborted"]
      /\ writes' = [writes EXCEPT ![held[c]] = {}]
      /\ wrote' = wrote /\ committed' = committed /\ PoolStands
  BY DEF StatementFails, poolVars, PoolStands
<1>5. /\ s \in Holding /\ StageFits(c, s) /\ s \notin CleanStages
      /\ s \notin {"connecting", "begin"}
  BY PoolAssumption DEF StageFits, Holding, TxStages, QueryStages, CleanStages
<1>6. c \notin committed /\ pc[c] # "connecting" /\ "aborted" \in {"none", "open", "aborted"}
  BY <1>1 DEF PoolInv, History, Settled
<1> QED
  BY <1>1, <1>2, <1>3, <1>4, <1>5, <1>6, SessionStep

\* fn ends, or goes on after a query that it awaited.
LEMMA BodyStep ==
  ASSUME PoolInv, NEW c \in Txs, InnerSettles(c) \/ BodyThrows(c) \/ BodyReturns(c)
  PROVE  PoolInv'
<1>1. PICK s \in {"body", "rollback", "commit"} : pc' = [pc EXCEPT ![c] = s]
  BY DEF InnerSettles, BodyThrows, BodyReturns, Goto
<1>2. /\ c \in Calls /\ pc[c] \in {"body", "inner"} /\ PoolStands
      /\ UNCHANGED <<serverVars, wrote>>
  BY DEF InnerSettles, BodyThrows, BodyReturns, Calls, PoolStands, poolVars
<1>3. held[c] # None /\ c \notin committed
  BY <1>2, StageHolds DEF Holding, TxStages, PoolInv, History, Settled
<1>4. /\ s \in Holding /\ StageFits(c, s) /\ s \notin CleanStages
      /\ s \notin {"connecting", "begin"} /\ pc[c] # "connecting"
  BY <1>2, PoolAssumption DEF StageFits, Holding, TxStages, QueryStages, CleanStages
<1> QED
  BY <1>1, <1>2, <1>3, <1>4, GotoStep

LEMMA CommitStep ==
  ASSUME PoolInv, NEW c \in Txs, Commit(c)
  PROVE  PoolInv'
<1>1. c \in Calls /\ pc[c] = "commit" /\ pc[c] \in Holding
  BY DEF Commit, Calls, Holding, TxStages
<1>2. /\ held[c] \in Clients /\ held[c] # None /\ writes[held[c]] \subseteq {c} \cap wrote
      /\ wrote \in SUBSET Txs /\ committed \subseteq wrote
  BY <1>1, StageHolds DEF PoolInv, TypeOK, History
<1>3. /\ \A s \in {"commitAck", "rollback"} :
           s \in Holding /\ StageFits(c, s) /\ s \in AfterCommit /\ s \notin {"connecting", "begin"}
      /\ "rollback" \notin CleanStages
  BY PoolAssumption DEF StageFits, Holding, TxStages, QueryStages, CleanStages, AfterCommit
<1>4. CASE Usable(c)
  <2>1. /\ pc' = [pc EXCEPT ![c] = "commitAck"]
        /\ session' = [session EXCEPT ![held[c]] = "none"]
        /\ writes' = [writes EXCEPT ![held[c]] = {}]
        /\ wrote' = wrote /\ PoolStands
        /\ committed' = committed \cup (IF session[held[c]] = "open" THEN writes[held[c]] ELSE {})
    BY <1>4 DEF Commit, Goto, poolVars, PoolStands
  <2> DEFINE w == {}
  <2>2. /\ committed \subseteq committed' /\ committed' \subseteq (committed \cup {c}) \cap wrote'
        /\ wrote' \in SUBSET Txs /\ wrote \subseteq wrote' /\ wrote' \subseteq wrote \cup {c}
    BY <1>2, <2>1
  <2>3. /\ writes' = [writes EXCEPT ![held[c]] = w] /\ w \subseteq {c} \cap wrote' /\ w = {}
        /\ "none" \in {"none", "open", "aborted"} /\ pc[c] # "connecting"
    BY <1>1, <2>1
  <2> HIDE DEF w
  <2> QED
    BY <1>1, <1>2, <1>3, <2>1, <2>2, <2>3, CallStep
<1>5. CASE ~Usable(c)
  <2>1. pc' = [pc EXCEPT ![c] = "rollback"] /\ PoolStands /\ UNCHANGED <<serverVars, wrote>>
    BY <1>5 DEF Commit, Goto, poolVars, PoolStands
  <2> QED
    BY <1>1, <1>2, <1>3, <2>1, GotoStep
<1> QED
  BY <1>4, <1>5

LEMMA CommitAckStep ==
  ASSUME PoolInv, NEW c \in Txs, CommitAck(c)
  PROVE  PoolInv'
<1>1. PICK s \in {"release", "rollback"} : pc' = [pc EXCEPT ![c] = s]
  BY DEF CommitAck, Goto
<1>2. /\ c \in Calls /\ pc[c] = "commitAck" /\ PoolStands /\ UNCHANGED <<serverVars, wrote>>
      /\ pc[c] \in Holding
  BY DEF CommitAck, Calls, PoolStands, poolVars, Holding, TxStages
<1>3. held[c] # None /\ Clean(held[c])
  BY <1>2, StageHolds DEF CleanStages
<1>4. /\ s \in Holding /\ StageFits(c, s) /\ s \in AfterCommit /\ s \notin {"connecting", "begin"}
  BY PoolAssumption DEF StageFits, Holding, TxStages, QueryStages, AfterCommit
<1> QED
  BY <1>1, <1>2, <1>3, <1>4, GotoStep

LEMMA RollbackStep ==
  ASSUME PoolInv, NEW c \in Txs, Rollback(c)
  PROVE  PoolInv'
<1>1. /\ c \in Calls /\ pc[c] = "rollback" /\ pc[c] \in Holding /\ PoolStands
      /\ pc' = [pc EXCEPT ![c] = "releaseThrown"] /\ wrote' = wrote /\ committed' = committed
  BY DEF Rollback, Goto, poolVars, PoolStands, Calls, Holding, TxStages
<1>2. /\ held[c] \in Clients /\ held[c] # None /\ (held[c] \in broken => Clean(held[c]))
  BY <1>1, StageHolds
<1>3. /\ session' = [session EXCEPT ![held[c]] = "none"]
      /\ writes' = [writes EXCEPT ![held[c]] = {}]
  BY <1>2 DEF Rollback, Usable, Clean, PoolInv, TypeOK
<1>4. "releaseThrown" \in Holding /\ StageFits(c, "releaseThrown") /\ "releaseThrown" \in AfterCommit
  BY PoolAssumption DEF StageFits, Holding, TxStages, QueryStages, AfterCommit
<1>5. /\ pc[c] # "connecting" /\ "releaseThrown" \notin {"connecting", "begin"}
      /\ "none" \in {"none", "open", "aborted"}
  BY <1>1
<1> QED
  BY <1>1, <1>2, <1>3, <1>4, <1>5, SessionStep

LEMMA ExecStep ==
  ASSUME PoolInv, NEW c \in Queries, Exec(c)
  PROVE  PoolInv'
<1>1. PICK s \in {"release", "destroy"} : pc' = [pc EXCEPT ![c] = s]
  BY DEF Exec, Goto
<1>2. /\ c \in Calls /\ pc[c] = "exec" /\ PoolStands /\ UNCHANGED <<serverVars, wrote>>
      /\ pc[c] \in Holding
  BY DEF Exec, Calls, PoolStands, poolVars, Holding, QueryStages
<1>3. held[c] # None /\ Clean(held[c])
  BY <1>2, StageHolds DEF CleanStages
<1>4. s \in Holding /\ StageFits(c, s) /\ s \notin {"connecting", "begin"} /\ c \notin committed
  BY PoolAssumption DEF StageFits, Holding, TxStages, QueryStages, PoolInv, TypeOK
<1> QED
  BY <1>1, <1>2, <1>3, <1>4, GotoStep

-----------------------------------------------------------------------------
(* Getting a client and giving it back.                                    *)

\* A call without a client comes to a stage without one: whatever the queue and
\* its stage become, the rest is as it was.
LEMMA ClientlessStep ==
  ASSUME PoolInv, NEW c \in Calls, NEW s \in {"waiting"} \cup Settled,
         held[c] = None, pc' = [pc EXCEPT ![c] = s],
         UNCHANGED <<held, client, broken, serverVars, wrote, ending>>,
         waiters' \in Seq(Calls), QueueOrder',
         c \notin wrote
  PROVE  PoolInv'
<1>1. /\ TypeOK /\ ClientsAccountedFor
      /\ IdleClientsAreClean /\ BrokenAreBusy /\ SessionsMatch /\ History
  BY DEF PoolInv
<1>2. /\ pc \in [Calls -> {"new", "waiting"} \cup Holding \cup Settled]
      /\ s \notin Holding /\ s \notin TxStages \cup QueryStages /\ Txs \subseteq Calls
      /\ Queries \subseteq Calls
  BY <1>1 DEF TypeOK, Holding, TxStages, QueryStages, Settled, Calls
<1>3. TypeOK'
  <2>1. pc' \in [Calls -> {"new", "waiting"} \cup Holding \cup Settled]
    BY <1>2
  <2>2. /\ \A t \in Txs : pc'[t] \notin QueryStages \ TxStages
        /\ \A q \in Queries : pc'[q] \notin TxStages \ QueryStages
    BY <1>1, <1>2 DEF TypeOK
  <2> QED
    BY <1>1, <2>1, <2>2 DEF TypeOK, serverVars
<1>4. ClientsAccountedFor'
  BY <1>1, <1>2 DEF ClientsAccountedFor
<1>5. IdleClientsAreClean' /\ BrokenAreBusy'
  BY <1>1 DEF IdleClientsAreClean, BrokenAreBusy, Clean, serverVars
<1>6. SessionsMatch'
  BY <1>1, <1>2 DEF SessionsMatch, Clean, serverVars
<1>7. History'
  BY <1>1, <1>2 DEF History, serverVars, TypeOK
<1> QED
  BY <1>3, <1>4, <1>5, <1>6, <1>7 DEF PoolInv

\* The function that says where the calls are, as the queue lemmas want it.
LEMMA PcIsFunction ==
  ASSUME PoolInv
  PROVE  pc = [x \in Calls |-> pc[x]] /\ waiters \in Seq(Calls) /\ QueueOf(waiters, pc)
BY DEF PoolInv, TypeOK, QueueOrder

LEMMA ConnectStep ==
  ASSUME PoolInv, NEW c \in Calls, Connect(c)
  PROVE  PoolInv'
<1>1. /\ pc[c] = "new" /\ UNCHANGED <<held, client, broken, serverVars, wrote, ending>>
      /\ pc[c] \notin Holding /\ pc[c] # "waiting" /\ held[c] = None
  <2>1. pc[c] = "new" /\ UNCHANGED <<held, client, broken, serverVars, wrote, ending>>
    BY DEF Connect
  <2> QED
    BY <2>1 DEF PoolInv, ClientsAccountedFor, Holding, TxStages, QueryStages
<1>2. c \notin wrote
  BY <1>1 DEF PoolInv, History
<1>3. CASE ending
  <2>1. pc' = [pc EXCEPT ![c] = "thrown"] /\ waiters' = waiters
    BY <1>3 DEF Connect, Goto
  <2>2. QueueOrder' /\ waiters' \in Seq(Calls)
    BY <1>1, <2>1, PcIsFunction, QueueGoto DEF QueueOrder
  <2> QED
    BY <1>1, <1>2, <2>1, <2>2, ClientlessStep DEF Settled
<1>4. CASE ~ending
  <2>1. pc' = [pc EXCEPT ![c] = "waiting"] /\ waiters' = Append(waiters, c)
    BY <1>4 DEF Connect, Goto
  <2>2. QueueOrder' /\ waiters' \in Seq(Calls)
    BY <1>1, <2>1, PcIsFunction, QueueJoin DEF QueueOrder
  <2> QED
    BY <1>1, <1>2, <2>1, <2>2, ClientlessStep
<1> QED
  BY <1>3, <1>4

LEMMA WaitTimeoutStep ==
  ASSUME PoolInv, NEW c \in Calls, WaitTimeout(c)
  PROVE  PoolInv'
<1>1. /\ pc[c] = "waiting" /\ UNCHANGED <<held, client, broken, serverVars, wrote, ending>>
      /\ pc' = [pc EXCEPT ![c] = "thrown"]
  BY DEF WaitTimeout, Goto
<1>2. held[c] = None /\ c \notin wrote
  BY <1>1 DEF PoolInv, ClientsAccountedFor, Holding, TxStages, QueryStages, History
<1>3. PICK i \in 1..Len(waiters) : waiters[i] = c /\ waiters' = RemoveAt(waiters, i)
  BY DEF WaitTimeout
<1>4. QueueOrder' /\ waiters' \in Seq(Calls)
  BY <1>1, <1>3, PcIsFunction, QueueLeave DEF QueueOrder
<1> QED
  BY <1>1, <1>2, <1>4, ClientlessStep DEF Settled

\* fn goes to wait for a query, and the query goes to the pool: two steps of two calls.
LEMMA AwaitInnerStep ==
  ASSUME PoolInv, NEW c \in Txs, AwaitInner(c)
  PROVE  PoolInv'
<1> DEFINE q == Inner[c]
           s == IF ending THEN "thrown" ELSE "waiting"
           p == [pc EXCEPT ![c] = "inner"]
<1>1. /\ pc[c] = "body" /\ q # None /\ pc[q] = "new"
      /\ pc' = [pc EXCEPT ![c] = "inner", ![q] = s]
      /\ waiters' = IF ending THEN waiters ELSE Append(waiters, q)
      /\ UNCHANGED <<held, client, broken, serverVars, wrote, ending>>
  BY DEF AwaitInner
<1>2. c \in Calls /\ q \in Queries /\ q \in Calls /\ q # c /\ q \notin Txs
  BY <1>1, PoolAssumption DEF Calls
<1>3. /\ TypeOK /\ ClientsAccountedFor /\ QueueOrder
      /\ IdleClientsAreClean /\ BrokenAreBusy /\ SessionsMatch /\ History
  BY DEF PoolInv
<1>4. /\ pc \in [Calls -> {"new", "waiting"} \cup Holding \cup Settled]
      /\ {"inner", "body"} \subseteq Holding /\ "new" \notin Holding /\ s \notin Holding
      /\ s \in {"waiting"} \cup Settled
      /\ s \notin TxStages \cup QueryStages /\ "inner" \notin QueryStages
      /\ Txs \subseteq Calls /\ Queries \subseteq Calls
  BY <1>3 DEF TypeOK, Holding, TxStages, QueryStages, Settled, Calls
<1>5. /\ p = [x \in Calls |-> p[x]] /\ pc' = [p EXCEPT ![q] = s] /\ p[q] = "new" /\ p[c] = "inner"
      /\ \A x \in Calls : pc'[x] = IF x = c THEN "inner" ELSE IF x = q THEN s ELSE pc[x]
  BY <1>1, <1>2, <1>4
<1>6. QueueOf(waiters, p)
  BY <1>1, <1>2, PcIsFunction, QueueGoto
<1>7. QueueOrder' /\ waiters' \in Seq(Calls)
  <2>1. p[q] # "waiting" /\ waiters \in Seq(Calls)
    BY <1>5, PcIsFunction
  <2> HIDE DEF p, q
  <2>2. QueueOf(waiters, [p EXCEPT ![q] = "thrown"])
    BY <1>2, <1>5, <1>6, <2>1, QueueGoto
  <2>3. Append(waiters, q) \in Seq(Calls) /\ QueueOf(Append(waiters, q), [p EXCEPT ![q] = "waiting"])
    BY <1>2, <1>5, <1>6, <2>1, QueueJoin
  <2> QED
    BY <1>1, <1>5, <2>1, <2>2, <2>3 DEF QueueOrder
<1> HIDE DEF s, p, q
<1>8. held[q] = None
  BY <1>1, <1>2, <1>3, <1>4 DEF ClientsAccountedFor
<1>9. TypeOK'
  <2>1. pc' \in [Calls -> {"new", "waiting"} \cup Holding \cup Settled]
    BY <1>1, <1>4
  <2>2. /\ \A t \in Txs : pc'[t] \notin QueryStages \ TxStages
        /\ \A x \in Queries : pc'[x] \notin TxStages \ QueryStages
    BY <1>2, <1>3, <1>4, <1>5, PoolAssumption DEF TypeOK
  <2> QED
    BY <1>1, <1>3, <1>7, <2>1, <2>2 DEF TypeOK, serverVars
<1>10. ClientsAccountedFor'
  <2>1. \A x \in Calls : held[x] # None <=> pc'[x] \in Holding
    BY <1>1, <1>3, <1>4, <1>5, <1>8 DEF ClientsAccountedFor
  <2> QED
    BY <1>1, <1>3, <2>1 DEF ClientsAccountedFor
<1>11. IdleClientsAreClean' /\ BrokenAreBusy'
  BY <1>1, <1>3 DEF IdleClientsAreClean, BrokenAreBusy, Clean, serverVars
<1>12. SessionsMatch'
  BY <1>1, <1>3, <1>5, <1>8 DEF SessionsMatch, CleanStages, Clean, serverVars
<1>13. History'
  <2>1. c \notin committed /\ q \notin wrote /\ wrote \subseteq Txs /\ committed \subseteq Txs
    BY <1>1, <1>2, <1>3 DEF History, Settled, TypeOK
  <2> QED
    BY <1>1, <1>3, <1>4, <1>5, <2>1 DEF History, serverVars
<1> QED
  BY <1>7, <1>9, <1>10, <1>11, <1>12, <1>13 DEF PoolInv

\* The oldest waiter gets a slot, which is clean whether it is new or idle.
LEMMA ServeStep ==
  ASSUME PoolInv, NEW cl \in Clients, ServeIdle(cl) \/ ServeNew(cl)
  PROVE  PoolInv'
<1> DEFINE h == Head(waiters)
           s == IF client[cl] = "idle" THEN FirstStage(h) ELSE "connecting"
           u == IF client[cl] = "idle" THEN "busy" ELSE "connecting"
<1>1. /\ waiters # <<>> /\ client[cl] \in {"idle", "absent"}
      /\ pc' = [pc EXCEPT ![h] = s] /\ held' = [held EXCEPT ![h] = cl]
      /\ client' = [client EXCEPT ![cl] = u] /\ waiters' = Tail(waiters)
      /\ UNCHANGED <<broken, serverVars, wrote, ending>>
  BY DEF ServeIdle, ServeNew, Goto
<1>2. /\ h \in Calls /\ pc[h] = "waiting" /\ waiters' \in Seq(Calls) /\ QueueOrder'
  <2>1. QueueOf(waiters', [pc EXCEPT ![h] = s])
    BY <1>1, PcIsFunction, QueueServe
  <2> QED
    BY <1>1, <2>1, PcIsFunction, QueueServe DEF QueueOrder
<1>3. /\ s \in {"begin", "exec", "connecting"} /\ s \in Holding /\ s \in CleanStages
      /\ (h \in Txs => s \notin QueryStages) /\ (h \in Queries => s \notin TxStages)
      /\ "waiting" \notin Holding /\ (s = "connecting" <=> u = "connecting")
      /\ u \in {"busy", "connecting"}
      /\ Txs \subseteq Calls /\ Queries \subseteq Calls
  BY PoolAssumption DEF FirstStage, Holding, TxStages, QueryStages, CleanStages, Calls
<1>4. /\ TypeOK /\ ClientsAccountedFor
      /\ IdleClientsAreClean /\ BrokenAreBusy /\ SessionsMatch /\ History
  BY DEF PoolInv
<1>5. /\ pc \in [Calls -> {"new", "waiting"} \cup Holding \cup Settled]
      /\ held \in [Calls -> Clients \cup {None}] /\ cl # None
      /\ client \in [Clients -> {"absent", "connecting", "busy", "idle"}]
  BY <1>4, PoolAssumption DEF TypeOK
<1> HIDE DEF h, s, u
<1>6. held[h] = None /\ \A c \in Calls : held[c] # cl
  BY <1>1, <1>2, <1>3, <1>4 DEF ClientsAccountedFor
<1>7. /\ \A c \in Calls : held'[c] = IF c = h THEN cl ELSE held[c]
      /\ \A c \in Calls : pc'[c] = IF c = h THEN s ELSE pc[c]
      /\ \A k \in Clients : client'[k] = IF k = cl THEN u ELSE client[k]
  BY <1>1, <1>2, <1>5
<1>8. TypeOK'
  <2>1. pc' \in [Calls -> {"new", "waiting"} \cup Holding \cup Settled]
    BY <1>1, <1>3, <1>5
  <2>2. /\ \A t \in Txs : pc'[t] \notin QueryStages \ TxStages
        /\ \A x \in Queries : pc'[x] \notin TxStages \ QueryStages
    BY <1>3, <1>4, <1>7 DEF TypeOK
  <2>3. held' \in [Calls -> Clients \cup {None}]
    BY <1>1, <1>5
  <2>4. client' \in [Clients -> {"absent", "connecting", "busy", "idle"}]
    BY <1>1, <1>3, <1>5
  <2> QED
    BY <1>1, <1>2, <1>4, <2>1, <2>2, <2>3, <2>4 DEF TypeOK, serverVars
<1>9. ClientsAccountedFor'
  <2>1. ASSUME NEW k \in Clients
        PROVE  client'[k] \in {"connecting", "busy"} <=> \E c \in Calls : held'[c] = k
    <3>1. CASE k = cl
      BY <3>1, <1>2, <1>3, <1>7
    <3>2. CASE k # cl
      <4>1. client'[k] = client[k] /\ \A c \in Calls : held'[c] = k <=> held[c] = k
        BY <3>2, <1>6, <1>7, PoolAssumption
      <4> QED
        BY <4>1, <1>4 DEF ClientsAccountedFor
    <3> QED
      BY <3>1, <3>2
  <2>2. \A c, d \in Calls : held'[c] = held'[d] => c = d \/ held'[c] = None
    BY <1>4, <1>6, <1>7 DEF ClientsAccountedFor
  <2>3. \A c \in Calls : held'[c] # None <=> pc'[c] \in Holding
    BY <1>3, <1>4, <1>5, <1>7 DEF ClientsAccountedFor
  <2> QED
    BY <2>1, <2>2, <2>3 DEF ClientsAccountedFor
<1>10. Clean(cl) /\ cl \notin broken
  BY <1>1, <1>4 DEF IdleClientsAreClean, BrokenAreBusy, Clean
<1>11. IdleClientsAreClean' /\ BrokenAreBusy'
  BY <1>1, <1>4, <1>7, <1>10 DEF IdleClientsAreClean, BrokenAreBusy, Clean, serverVars, TypeOK
<1>12. SessionsMatch'
  <2> SUFFICES ASSUME NEW c \in Calls, held'[c] # None
               PROVE  /\ client'[held'[c]] = IF pc'[c] = "connecting" THEN "connecting" ELSE "busy"
                      /\ writes[held'[c]] \subseteq {c} \cap wrote
                      /\ pc'[c] \in CleanStages => session[held'[c]] = "none" /\ writes[held'[c]] = {}
    BY <1>1 DEF SessionsMatch, Clean, serverVars
  <2>1. CASE c = h
    BY <2>1, <1>3, <1>7, <1>10 DEF Clean
  <2>2. CASE c # h
    <3>1. held'[c] = held[c] /\ pc'[c] = pc[c] /\ held[c] \in Clients /\ held[c] # cl
      BY <2>2, <1>5, <1>6, <1>7
    <3> QED
      BY <3>1, <1>4, <1>7 DEF SessionsMatch, Clean
  <2> QED
    BY <2>1, <2>2
<1>13. History'
  <2>1. h \notin wrote /\ h \notin committed
    BY <1>2, <1>4 DEF History
  <2> QED
    BY <2>1, <1>1, <1>4, <1>7 DEF History, serverVars, TypeOK, Calls
<1> QED
  BY <1>2, <1>8, <1>9, <1>11, <1>12, <1>13 DEF PoolInv

\* A call settles and its clean client goes back, or away.
LEMMA GiveBackStep ==
  ASSUME PoolInv, NEW c \in Calls, pc[c] \in Holding, pc[c] \in CleanStages,
         NEW s \in Settled, NEW u \in {"absent", "idle"},
         pc' = [pc EXCEPT ![c] = s], held' = [held EXCEPT ![c] = None],
         client' = [client EXCEPT ![held[c]] = u], broken' = broken \ {held[c]},
         UNCHANGED <<waiters, serverVars, wrote, ending>>
  PROVE  PoolInv'
<1> DEFINE cl == held[c]
<1>1. /\ cl \in Clients /\ cl # None /\ Clean(cl)
      /\ \A d \in Calls : held[d] = cl => d = c
  BY StageHolds
<1>2. /\ TypeOK /\ ClientsAccountedFor /\ QueueOrder
      /\ IdleClientsAreClean /\ BrokenAreBusy /\ SessionsMatch /\ History
  BY DEF PoolInv
<1>3. /\ pc \in [Calls -> {"new", "waiting"} \cup Holding \cup Settled]
      /\ held \in [Calls -> Clients \cup {None}]
      /\ client \in [Clients -> {"absent", "connecting", "busy", "idle"}]
      /\ s \notin Holding /\ s \notin TxStages \cup QueryStages /\ pc[c] # "waiting"
      /\ Txs \subseteq Calls /\ Queries \subseteq Calls
      /\ s \notin {"new", "waiting", "connecting", "begin"}
  BY <1>2 DEF TypeOK, Calls, Settled, Holding, TxStages, QueryStages
<1> HIDE DEF cl
<1>4. /\ \A d \in Calls : held'[d] = IF d = c THEN None ELSE held[d]
      /\ \A d \in Calls : pc'[d] = IF d = c THEN s ELSE pc[d]
      /\ \A k \in Clients : client'[k] = IF k = cl THEN u ELSE client[k]
      /\ broken' = broken \ {cl}
      /\ UNCHANGED <<session, writes, committed, wrote>>
  BY <1>3 DEF cl, serverVars
<1>5. TypeOK'
  <2>1. pc' \in [Calls -> {"new", "waiting"} \cup Holding \cup Settled]
    BY <1>3
  <2>2. /\ \A t \in Txs : pc'[t] \notin QueryStages \ TxStages
        /\ \A q \in Queries : pc'[q] \notin TxStages \ QueryStages
    BY <1>2, <1>3, <1>4 DEF TypeOK
  <2>3. /\ held' \in [Calls -> Clients \cup {None}]
        /\ client' \in [Clients -> {"absent", "connecting", "busy", "idle"}]
    BY <1>3
  <2> QED
    BY <1>2, <1>4, <2>1, <2>2, <2>3 DEF TypeOK
<1>6. ClientsAccountedFor'
  <2>1. ASSUME NEW k \in Clients
        PROVE  client'[k] \in {"connecting", "busy"} <=> \E d \in Calls : held'[d] = k
    <3>1. CASE k = cl
      BY <3>1, <1>1, <1>4
    <3>2. CASE k # cl
      <4>1. \A d \in Calls : held'[d] = k <=> held[d] = k
        BY <3>2, <1>1, <1>4, PoolAssumption DEF cl
      <4> QED
        BY <3>2, <4>1, <1>2, <1>4 DEF ClientsAccountedFor
    <3> QED
      BY <3>1, <3>2
  <2>2. \A d, e \in Calls : held'[d] = held'[e] => d = e \/ held'[d] = None
    BY <1>2, <1>4 DEF ClientsAccountedFor
  <2>3. \A d \in Calls : held'[d] # None <=> pc'[d] \in Holding
    BY <1>2, <1>3, <1>4 DEF ClientsAccountedFor
  <2> QED
    BY <2>1, <2>2, <2>3 DEF ClientsAccountedFor
<1>7. QueueOrder'
  BY <1>3, PcIsFunction, QueueGoto DEF QueueOrder
<1>8. IdleClientsAreClean' /\ BrokenAreBusy'
  BY <1>1, <1>2, <1>4 DEF IdleClientsAreClean, BrokenAreBusy, Clean, TypeOK
<1>9. SessionsMatch'
  <2> SUFFICES ASSUME NEW d \in Calls, held'[d] # None
               PROVE  /\ client'[held'[d]] = IF pc'[d] = "connecting" THEN "connecting" ELSE "busy"
                      /\ writes[held'[d]] \subseteq {d} \cap wrote
                      /\ pc'[d] \in CleanStages => Clean(held'[d])
    BY <1>4 DEF SessionsMatch, Clean
  <2>1. d # c /\ held'[d] = held[d] /\ pc'[d] = pc[d] /\ held[d] \in Clients /\ held[d] # cl
    BY <1>1, <1>3, <1>4
  <2> QED
    BY <2>1, <1>2, <1>4 DEF SessionsMatch, Clean
<1>10. History'
  BY <1>2, <1>3, <1>4 DEF History, TypeOK
<1> QED
  BY <1>5, <1>6, <1>7, <1>8, <1>9, <1>10 DEF PoolInv

LEMMA ConnectFailsStep ==
  ASSUME PoolInv, NEW c \in Calls, ConnectFails(c)
  PROVE  PoolInv'
<1>1. pc[c] = "connecting" /\ pc[c] \in Holding /\ pc[c] \in CleanStages
  BY DEF ConnectFails, Holding, CleanStages
<1>2. held[c] \notin broken
  BY <1>1, StageHolds DEF PoolInv, BrokenAreBusy
<1>3. /\ pc' = [pc EXCEPT ![c] = "thrown"] /\ held' = [held EXCEPT ![c] = None]
      /\ client' = [client EXCEPT ![held[c]] = "absent"] /\ broken' = broken \ {held[c]}
      /\ UNCHANGED <<waiters, serverVars, wrote, ending>>
  BY <1>2 DEF ConnectFails, Goto
<1> QED
  BY <1>1, <1>3, GiveBackStep DEF Settled

\* What release() does to a clean client.
LEMMA ReleaseStep ==
  ASSUME PoolInv, NEW c \in Calls, pc[c] \in Holding, pc[c] \in CleanStages,
         NEW destroy, Release(c, destroy), NEW s \in Settled,
         pc' = [pc EXCEPT ![c] = s], UNCHANGED <<waiters, ending, committed, wrote>>
  PROVE  PoolInv'
<1>1. held[c] \in Clients /\ Clean(held[c])
  BY StageHolds
<1>2. /\ session \in [Clients -> {"none", "open", "aborted"}]
      /\ writes \in [Clients -> SUBSET Txs]
  BY DEF PoolInv, TypeOK
<1>3. session' = session /\ writes' = writes
  BY <1>1, <1>2 DEF Release, Clean
<1>4. PICK u \in {"absent", "idle"} : client' = [client EXCEPT ![held[c]] = u]
  BY DEF Release
<1>5. held' = [held EXCEPT ![c] = None] /\ broken' = broken \ {held[c]}
  BY DEF Release
<1> QED
  BY <1>3, <1>4, <1>5, GiveBackStep DEF serverVars

LEMMA TxReleaseStep ==
  ASSUME PoolInv, NEW c \in Txs, TxRelease(c)
  PROVE  PoolInv'
<1>1. c \in Calls /\ pc[c] \in Holding /\ pc[c] \in CleanStages
  BY DEF TxRelease, Calls, Holding, TxStages, CleanStages
<1>2. PICK s \in Settled : pc' = [pc EXCEPT ![c] = s]
  BY DEF TxRelease, Goto, Settled
<1>3. Release(c, FALSE) /\ UNCHANGED <<waiters, ending, committed, wrote>>
  BY DEF TxRelease
<1> QED
  BY <1>1, <1>2, <1>3, ReleaseStep

LEMMA QueryReleaseStep ==
  ASSUME PoolInv, NEW c \in Queries, QueryRelease(c)
  PROVE  PoolInv'
<1>1. c \in Calls /\ pc[c] \in Holding /\ pc[c] \in CleanStages
  BY DEF QueryRelease, Calls, Holding, QueryStages, CleanStages
<1>2. PICK s \in Settled : pc' = [pc EXCEPT ![c] = s]
  BY DEF QueryRelease, Goto, Settled
<1>3. Release(c, pc[c] = "destroy") /\ UNCHANGED <<waiters, ending, committed, wrote>>
  BY DEF QueryRelease
<1> QED
  BY <1>1, <1>2, <1>3, ReleaseStep

LEMMA ConnectOkStep ==
  ASSUME PoolInv, NEW c \in Calls, ConnectOk(c)
  PROVE  PoolInv'
<1> DEFINE s == FirstStage(c)
           cl == held[c]
<1>1. /\ pc[c] = "connecting" /\ pc' = [pc EXCEPT ![c] = s] /\ pc[c] \in Holding
      /\ client' = [client EXCEPT ![cl] = "busy"] /\ pc[c] # "waiting"
      /\ UNCHANGED <<held, waiters, broken, session, writes, committed, wrote, ending>>
  BY DEF ConnectOk, Goto, Holding, serverVars
<1>2. /\ s \in {"begin", "exec"} /\ s \in Holding /\ s \in CleanStages
      /\ (c \in Txs => s \notin QueryStages) /\ (c \in Queries => s \notin TxStages)
      /\ Txs \subseteq Calls /\ Queries \subseteq Calls
  BY PoolAssumption DEF FirstStage, Holding, TxStages, QueryStages, CleanStages, Calls
<1>3. /\ TypeOK /\ ClientsAccountedFor
      /\ IdleClientsAreClean /\ BrokenAreBusy /\ SessionsMatch /\ History
  BY DEF PoolInv
<1>4. /\ pc \in [Calls -> {"new", "waiting"} \cup Holding \cup Settled]
      /\ client \in [Clients -> {"absent", "connecting", "busy", "idle"}]
      /\ cl \in Clients /\ Clean(cl) /\ client[cl] = "connecting" /\ cl # None
      /\ \A d \in Calls : held[d] = cl => d = c
  BY <1>1, <1>3, StageHolds DEF TypeOK, CleanStages
<1> HIDE DEF s, cl
<1>5. /\ \A d \in Calls : pc'[d] = IF d = c THEN s ELSE pc[d]
      /\ \A k \in Clients : client'[k] = IF k = cl THEN "busy" ELSE client[k]
  BY <1>1, <1>4
<1>6. TypeOK'
  <2>1. pc' \in [Calls -> {"new", "waiting"} \cup Holding \cup Settled]
    BY <1>1, <1>2, <1>4
  <2>2. /\ \A t \in Txs : pc'[t] \notin QueryStages \ TxStages
        /\ \A q \in Queries : pc'[q] \notin TxStages \ QueryStages
    BY <1>2, <1>3, <1>5 DEF TypeOK
  <2>3. client' \in [Clients -> {"absent", "connecting", "busy", "idle"}]
    BY <1>1, <1>4
  <2> QED
    BY <1>1, <1>3, <2>1, <2>2, <2>3 DEF TypeOK
<1>7. ClientsAccountedFor'
  BY <1>1, <1>2, <1>3, <1>4, <1>5 DEF ClientsAccountedFor
<1>8. QueueOrder'
  BY <1>1, PcIsFunction, QueueGoto DEF QueueOrder
<1>9. IdleClientsAreClean' /\ BrokenAreBusy'
  BY <1>1, <1>3, <1>4, <1>5 DEF IdleClientsAreClean, BrokenAreBusy, Clean, TypeOK
<1>10. SessionsMatch'
  <2> SUFFICES ASSUME NEW d \in Calls, held[d] # None
               PROVE  /\ client'[held[d]] = IF pc'[d] = "connecting" THEN "connecting" ELSE "busy"
                      /\ writes[held[d]] \subseteq {d} \cap wrote
                      /\ pc'[d] \in CleanStages => Clean(held[d])
    BY <1>1 DEF SessionsMatch, Clean
  <2>1. CASE d = c
    BY <2>1, <1>2, <1>3, <1>4, <1>5 DEF SessionsMatch, cl
  <2>2. CASE d # c
    <3>1. pc'[d] = pc[d] /\ held[d] # cl /\ held[d] \in Clients
      BY <2>2, <1>3, <1>4, <1>5 DEF TypeOK
    <3> QED
      BY <3>1, <1>3, <1>5 DEF SessionsMatch, Clean
  <2> QED
    BY <2>1, <2>2
<1>11. History'
  <2>1. c \notin wrote /\ c \notin committed
    BY <1>1, <1>3 DEF History
  <2> QED
    BY <2>1, <1>1, <1>3, <1>5 DEF History, TypeOK, Calls
<1> QED
  BY <1>6, <1>7, <1>8, <1>9, <1>10, <1>11 DEF PoolInv

-----------------------------------------------------------------------------
(* The environment.                                                        *)

LEMMA BreakStep ==
  ASSUME PoolInv, NEW cl \in Clients, Break(cl)
  PROVE  PoolInv'
<1>1. /\ client[cl] = "busy" /\ broken' = broken \cup {cl}
      /\ session' = [session EXCEPT ![cl] = "none"]
      /\ writes' = [writes EXCEPT ![cl] = {}]
      /\ UNCHANGED <<pc, held, waiters, client, committed, wrote, ending>>
  BY DEF Break, callVars
<1>2. /\ TypeOK /\ ClientsAccountedFor /\ QueueOrder
      /\ IdleClientsAreClean /\ BrokenAreBusy /\ SessionsMatch /\ History
  BY DEF PoolInv
<1>3. /\ session \in [Clients -> {"none", "open", "aborted"}]
      /\ writes \in [Clients -> SUBSET Txs]
  BY <1>2 DEF TypeOK
<1>4. \A k \in Clients : /\ session'[k] = IF k = cl THEN "none" ELSE session[k]
                         /\ writes'[k] = IF k = cl THEN {} ELSE writes[k]
  BY <1>1, <1>3
<1>5. TypeOK'
  BY <1>1, <1>2, <1>3 DEF TypeOK
<1>6. ClientsAccountedFor' /\ QueueOrder' /\ History'
  BY <1>1, <1>2 DEF ClientsAccountedFor, QueueOrder, History
<1>7. IdleClientsAreClean' /\ BrokenAreBusy'
  BY <1>1, <1>2, <1>4 DEF IdleClientsAreClean, BrokenAreBusy, Clean, TypeOK
<1>8. SessionsMatch'
  BY <1>1, <1>2, <1>4 DEF SessionsMatch, Clean, TypeOK
<1> QED
  BY <1>5, <1>6, <1>7, <1>8 DEF PoolInv

\* Idle clients are clean, so that nothing is lost when they go.
LEMMA IdleGoStep ==
  ASSUME PoolInv, NEW cl, (BreakIdle(cl) /\ cl \in Clients) \/ End
  PROVE  PoolInv' /\ UNCHANGED <<callVars, waiters, broken, serverVars, wrote>>
<1>1. /\ TypeOK /\ ClientsAccountedFor /\ QueueOrder
      /\ IdleClientsAreClean /\ BrokenAreBusy /\ SessionsMatch /\ History
  BY DEF PoolInv
<1>2. /\ session \in [Clients -> {"none", "open", "aborted"}]
      /\ writes \in [Clients -> SUBSET Txs]
      /\ client \in [Clients -> {"absent", "connecting", "busy", "idle"}]
  BY <1>1 DEF TypeOK
<1>3. \A k \in Clients : client[k] = "idle" => session[k] = "none" /\ writes[k] = {}
  BY <1>1 DEF IdleClientsAreClean
<1>4. /\ session' = session /\ writes' = writes /\ ending' \in {ending, TRUE}
      /\ client' \in [Clients -> {"absent", "connecting", "busy", "idle"}]
      /\ \A k \in Clients : client'[k] = client[k] \/ (client[k] = "idle" /\ client'[k] = "absent")
      /\ UNCHANGED <<pc, held, waiters, broken, committed, wrote>>
  <2>1. CASE BreakIdle(cl) /\ cl \in Clients
    BY <2>1, <1>2, <1>3 DEF BreakIdle, callVars
  <2>2. CASE End
    BY <2>2, <1>2, <1>3 DEF End, callVars
  <2> QED
    BY <2>1, <2>2
<1>5. TypeOK'
  BY <1>1, <1>4 DEF TypeOK
<1>6. QueueOrder' /\ History'
  BY <1>1, <1>4 DEF QueueOrder, History
<1>7. ClientsAccountedFor'
  BY <1>1, <1>4 DEF ClientsAccountedFor
<1>8. IdleClientsAreClean' /\ BrokenAreBusy'
  BY <1>1, <1>4 DEF IdleClientsAreClean, BrokenAreBusy, Clean, TypeOK
<1>9. SessionsMatch'
  <2> SUFFICES ASSUME NEW c \in Calls, held[c] # None
               PROVE  client'[held[c]] = client[held[c]]
    BY <1>1, <1>4 DEF SessionsMatch, Clean
  <2>1. held[c] \in Clients /\ client[held[c]] # "idle"
    BY <1>1 DEF TypeOK, SessionsMatch
  <2> QED
    BY <2>1, <1>4
<1> QED
  BY <1>4, <1>5, <1>6, <1>7, <1>8, <1>9 DEF PoolInv, callVars, serverVars

-----------------------------------------------------------------------------
(* The invariant, and the steps that commit or roll back.                  *)

LEMMA InitPoolInv == Init => PoolInv /\ WriteIsKept
<1> SUFFICES ASSUME Init PROVE PoolInv /\ WriteIsKept
  OBVIOUS
<1> USE DEF Init
<1>1. /\ "new" \notin Holding /\ waiters \in Seq(Calls) /\ Len(waiters) = 0
      /\ Txs \subseteq Calls /\ Queries \subseteq Calls
  BY EmptySeq DEF Holding, TxStages, QueryStages, Calls
<1>2. TypeOK
  BY <1>1 DEF TypeOK, TxStages, QueryStages
<1>3. ClientsAccountedFor
  BY <1>1, PoolAssumption DEF ClientsAccountedFor
<1>4. QueueOrder
  BY <1>1 DEF QueueOrder, QueueOf
<1>5. IdleClientsAreClean /\ BrokenAreBusy /\ SessionsMatch /\ History /\ WriteIsKept
  BY DEF IdleClientsAreClean, BrokenAreBusy, SessionsMatch, History, WriteIsKept
<1> QED
  BY <1>2, <1>3, <1>4, <1>5 DEF PoolInv

LEMMA NextPoolInv == PoolInv /\ [Next]_vars => PoolInv'
<1> SUFFICES ASSUME PoolInv, [Next]_vars PROVE PoolInv'
  OBVIOUS
<1>1. CASE UNCHANGED vars
  BY <1>1 DEF vars, callVars, poolVars, serverVars, PoolInv, TypeOK, ClientsAccountedFor,
              QueueOrder, QueueOf, IdleClientsAreClean, BrokenAreBusy, SessionsMatch, History,
              Clean
<1>2. ASSUME NEW c \in Calls, Connect(c) \/ PoolStep(c)
      PROVE  PoolInv'
  BY <1>2, ConnectStep, ConnectOkStep, ConnectFailsStep, WaitTimeoutStep DEF PoolStep
<1>3. ASSUME NEW c \in Txs, TxStep(c)
      PROVE  PoolInv'
  BY <1>3, BeginStep, WriteStep, StatementFailsStep, AwaitInnerStep, BodyStep, CommitStep,
     CommitAckStep, RollbackStep, TxReleaseStep DEF TxStep
<1>4. ASSUME NEW c \in Queries, QueryStep(c)
      PROVE  PoolInv'
  BY <1>4, ExecStep, QueryReleaseStep DEF QueryStep
<1>5. ASSUME NEW cl \in Clients, ServeIdle(cl) \/ ServeNew(cl) \/ Break(cl) \/ BreakIdle(cl)
      PROVE  PoolInv'
  BY <1>5, ServeStep, BreakStep, IdleGoStep
<1>6. CASE End
  BY <1>6, IdleGoStep
<1> QED
  BY <1>1, <1>2, <1>3, <1>4, <1>5, <1>6 DEF Next

\* A transaction that the step does not concern keeps its write.
LEMMA KeptFrame ==
  ASSUME PoolInv, NEW t \in Txs, Kept(t), pc'[t] = pc[t], committed \subseteq committed',
         pc[t] \in Holding => held'[t] = held[t],
         pc[t] \in Holding /\ held[t] \in broken => held[t] \in broken',
         pc[t] \in Holding => \/ held[t] \in broken'
                              \/ /\ session'[held[t]] = session[held[t]]
                                 /\ writes'[held[t]] = writes[held[t]]
  PROVE  Kept(t)'
<1>1. {"body", "inner", "commit"} \subseteq Holding
  BY DEF Holding, TxStages
<1> QED
  BY <1>1 DEF Kept

\* A step of call c alone, which leaves the client of every other call as it was.
Local(c) ==
  /\ \A d \in Calls : d # c => pc'[d] = pc[d] /\ held'[d] = held[d]
  /\ \A k \in Clients : k # held[c] => /\ session'[k] = session[k] /\ writes'[k] = writes[k]
                                       /\ (k \in broken => k \in broken')
  /\ committed \subseteq committed' /\ wrote' \subseteq wrote \cup {c}

LEMMA LocalKept ==
  ASSUME PoolInv, WriteIsKept, NEW c \in Calls, Local(c),
         c \in Txs /\ c \in wrote' => Kept(c)'
  PROVE  WriteIsKept'
<1> SUFFICES ASSUME NEW t \in Txs, t \in wrote', t # c
             PROVE  Kept(t)'
  BY DEF WriteIsKept
<1>1. t \in wrote /\ t \in Calls /\ Kept(t) /\ pc'[t] = pc[t] /\ held'[t] = held[t]
  BY DEF Local, WriteIsKept, Calls
<1>2. pc[t] \in Holding => held[t] \in Clients /\ held[t] # held[c]
  BY <1>1, StageHolds
<1> QED
  BY <1>1, <1>2, KeptFrame DEF Local

LEMMA StepsAreLocal ==
  ASSUME PoolInv, NEW c \in Calls
  PROVE  /\ Connect(c) \/ ConnectOk(c) \/ ConnectFails(c) \/ WaitTimeout(c) => Local(c)
         /\ Begin(c) \/ Write(c) \/ StatementFails(c) => Local(c)
         /\ InnerSettles(c) \/ BodyThrows(c) \/ BodyReturns(c) => Local(c)
         /\ Commit(c) \/ CommitAck(c) \/ Rollback(c) \/ Exec(c) => Local(c)
         /\ TxRelease(c) \/ QueryRelease(c) => Local(c)
<1>1. /\ pc \in [Calls -> {"new", "waiting"} \cup Holding \cup Settled]
      /\ held \in [Calls -> Clients \cup {None}]
      /\ session \in [Clients -> {"none", "open", "aborted"}]
      /\ writes \in [Clients -> SUBSET Txs]
  BY DEF PoolInv, TypeOK
<1> USE DEF callVars, poolVars, serverVars, Goto
<1>2. Connect(c) \/ ConnectOk(c) \/ ConnectFails(c) \/ WaitTimeout(c) => Local(c)
  BY <1>1 DEF Local, Connect, ConnectOk, ConnectFails, WaitTimeout
<1>3. Begin(c) => Local(c)
  BY <1>1 DEF Local, Begin
<1>4. Write(c) \/ StatementFails(c) => Local(c)
  BY <1>1 DEF Local, Write, StatementFails
<1>5. InnerSettles(c) \/ BodyThrows(c) \/ BodyReturns(c) => Local(c)
  BY <1>1 DEF Local, InnerSettles, BodyThrows, BodyReturns
<1>6. Commit(c) => Local(c)
  BY <1>1 DEF Local, Commit
<1>7. CommitAck(c) \/ Rollback(c) \/ Exec(c) => Local(c)
  BY <1>1 DEF Local, CommitAck, Rollback, Exec
<1>8. TxRelease(c) \/ QueryRelease(c) => Local(c)
  BY <1>1 DEF Local, TxRelease, QueryRelease, Release
<1> QED
  BY <1>2, <1>3, <1>4, <1>5, <1>6, <1>7, <1>8

\* What the step of a transaction does to its own write.
LEMMA OwnWriteKept ==
  ASSUME PoolInv, WriteIsKept, ~Swallows, NEW c \in Txs, c \in wrote',
         \/ Connect(c) \/ PoolStep(c)
         \/ Begin(c) \/ Write(c) \/ StatementFails(c)
         \/ InnerSettles(c) \/ BodyThrows(c) \/ BodyReturns(c)
         \/ Commit(c) \/ CommitAck(c) \/ Rollback(c) \/ TxRelease(c)
  PROVE  Kept(c)'
<1>1. /\ pc \in [Calls -> {"new", "waiting"} \cup Holding \cup Settled] /\ c \in Calls
      /\ session \in [Clients -> {"none", "open", "aborted"}]
      /\ writes \in [Clients -> SUBSET Txs]
  BY DEF PoolInv, TypeOK, Calls
<1>2. /\ c \in wrote => Kept(c) /\ pc[c] \notin {"new", "waiting", "connecting", "begin"}
      /\ pc[c] \in Holding => held[c] \in Clients
  BY <1>1, StageHolds DEF WriteIsKept, PoolInv, History
<1> USE DEF Goto, callVars, poolVars, serverVars
<1>3. ASSUME pc'[c] \notin {"body", "inner", "commit", "commitAck", "release", "returned"}
      PROVE  Kept(c)'
  BY <1>3 DEF Kept
<1>4. CASE Connect(c) \/ PoolStep(c) \/ Begin(c)
  BY <1>2, <1>4 DEF Connect, PoolStep, ConnectOk, ConnectFails, WaitTimeout, Begin
<1>5. CASE Write(c)
  <2>1. pc[c] = "body" /\ pc[c] \in Holding
    BY <1>5 DEF Write, Holding, TxStages
  <2> QED
    BY <1>1, <1>2, <1>5, <2>1 DEF Write, Usable, Kept
<1>6. CASE StatementFails(c) \/ BodyThrows(c) \/ Rollback(c)
  <2>1. pc'[c] \in {"rollback", "releaseThrown"}
    BY <1>1, <1>6 DEF StatementFails, BodyThrows, Rollback
  <2> QED
    BY <2>1, <1>3
<1>7. CASE InnerSettles(c) \/ BodyReturns(c)
  <2>1. /\ pc'[c] \in {"body", "commit", "rollback"} /\ pc[c] \in {"body", "inner"}
        /\ UNCHANGED <<held, broken, session, writes, committed, wrote>>
    BY <1>1, <1>7 DEF InnerSettles, BodyReturns
  <2> QED
    BY <1>2, <2>1 DEF Kept
<1>8. CASE Commit(c)
  BY <1>1, <1>2, <1>8 DEF Commit, Usable, Kept
<1>9. CASE CommitAck(c)
  BY <1>1, <1>2, <1>9 DEF CommitAck, Kept
<1>10. CASE TxRelease(c)
  BY <1>1, <1>2, <1>10 DEF TxRelease, Kept
<1> QED
  BY <1>4, <1>5, <1>6, <1>7, <1>8, <1>9, <1>10

LEMMA NextWriteIsKept ==
  ASSUME ~Swallows
  PROVE  PoolInv /\ WriteIsKept /\ [Next]_vars => WriteIsKept'
<1> SUFFICES ASSUME PoolInv, WriteIsKept, [Next]_vars PROVE WriteIsKept'
  OBVIOUS
<1>1. CASE UNCHANGED vars
  BY <1>1 DEF vars, callVars, poolVars, serverVars, WriteIsKept, Kept
<1>2. ASSUME NEW c \in Calls, Connect(c) \/ PoolStep(c)
      PROVE  WriteIsKept'
  BY <1>2, StepsAreLocal, LocalKept, OwnWriteKept DEF PoolStep
<1>3. ASSUME NEW c \in Txs, AwaitInner(c)
      PROVE  WriteIsKept'
  <2>1. /\ c \in Calls /\ pc[c] = "body" /\ Inner[c] \in Queries
        /\ pc' = [pc EXCEPT ![c] = "inner", ![Inner[c]] = IF ending THEN "thrown" ELSE "waiting"]
        /\ UNCHANGED <<held, broken, session, writes, committed, wrote>>
    BY <1>3, PoolAssumption DEF AwaitInner, Calls, serverVars
  <2>2. ASSUME NEW t \in Txs
        PROVE  t # Inner[c] /\ pc'[t] = IF t = c THEN "inner" ELSE pc[t]
    BY <2>1, PoolAssumption DEF PoolInv, TypeOK, Calls
  <2>3. ASSUME NEW t \in Txs, t \in wrote
        PROVE  Kept(t)'
    <3>1. Kept(t) /\ pc'[t] = IF t = c THEN "inner" ELSE pc[t]
      BY <2>2, <2>3 DEF WriteIsKept
    <3>2. UNCHANGED <<held, broken, session, writes, committed>>
      BY <2>1
    <3>3. CASE t = c
      BY <2>1, <3>1, <3>2, <3>3 DEF Kept
    <3>4. CASE t # c
      BY <3>1, <3>2, <3>4, KeptFrame
    <3> QED
      BY <3>3, <3>4
  <2> QED
    BY <2>1, <2>3 DEF WriteIsKept
<1>4. ASSUME NEW c \in Txs, TxStep(c), ~AwaitInner(c)
      PROVE  WriteIsKept'
  <2>1. c \in Calls
    BY DEF Calls
  <2> QED
    BY <1>4, <2>1, StepsAreLocal, LocalKept, OwnWriteKept DEF TxStep
<1>5. ASSUME NEW c \in Queries, QueryStep(c)
      PROVE  WriteIsKept'
  <2>1. c \in Calls /\ c \notin Txs
    BY PoolAssumption DEF Calls
  <2> QED
    BY <1>5, <2>1, StepsAreLocal, LocalKept DEF QueryStep
<1>6. ASSUME NEW cl \in Clients, ServeIdle(cl) \/ ServeNew(cl)
      PROVE  WriteIsKept'
  <2> DEFINE h == Head(waiters)
  <2>1. h \in Calls /\ pc[h] = "waiting"
    BY <1>6, PcIsFunction, QueueServe DEF ServeIdle, ServeNew
  <2>2. Local(h) /\ wrote' = wrote
    BY <1>6, <2>1 DEF ServeIdle, ServeNew, Goto, Local, serverVars, PoolInv, TypeOK
  <2>3. h \notin wrote
    BY <2>1 DEF PoolInv, History
  <2> QED
    BY <2>1, <2>2, <2>3, LocalKept
<1>7. ASSUME NEW cl \in Clients, Break(cl)
      PROVE  WriteIsKept'
  <2> SUFFICES ASSUME NEW t \in Txs, t \in wrote
               PROVE  Kept(t)'
    BY <1>7 DEF Break, WriteIsKept
  <2>1. /\ Kept(t) /\ t \in Calls
        /\ session \in [Clients -> {"none", "open", "aborted"}]
        /\ writes \in [Clients -> SUBSET Txs]
    BY DEF WriteIsKept, PoolInv, TypeOK, Calls
  <2>2. /\ pc'[t] = pc[t] /\ held'[t] = held[t] /\ committed' = committed
        /\ broken' = broken \cup {cl}
        /\ \A k \in Clients : k # cl => session'[k] = session[k] /\ writes'[k] = writes[k]
    BY <1>7, <2>1 DEF Break, callVars
  <2>3. pc[t] \in Holding => held[t] \in Clients
    BY <2>1, StageHolds
  <2> QED
    BY <2>1, <2>2, <2>3, KeptFrame
<1>8. ASSUME NEW cl \in Clients, BreakIdle(cl)
      PROVE  WriteIsKept'
  BY <1>8, IdleGoStep DEF WriteIsKept, Kept, callVars, serverVars
<1>9. CASE End
  BY <1>9, IdleGoStep DEF WriteIsKept, Kept, callVars, serverVars
<1> QED
  BY <1>1, <1>2, <1>3, <1>4, <1>5, <1>6, <1>7, <1>8, <1>9 DEF Next

\* One step commits by COMMIT and the owner's write alone, and sends a committed
\* transaction to the error path only where the answer was lost.
CommitIsOwn ==
  \A t \in committed' \ committed : pc[t] = "commit" /\ pc'[t] = "commitAck" /\ t \in wrote

ThrowIsInDoubt ==
  \A t \in committed : pc[t] # "rollback" /\ pc'[t] = "rollback"
    => pc[t] = "commitAck" /\ held[t] \in broken

LEMMA StepsCommitOwn == PoolInv /\ [Next]_vars => CommitIsOwn
<1> SUFFICES ASSUME PoolInv, [Next]_vars, committed' # committed PROVE CommitIsOwn
  BY DEF CommitIsOwn
<1>1. PICK c \in Txs : Commit(c)
  <2>1. ASSUME NEW c \in Calls, Connect(c) \/ PoolStep(c)
        PROVE  FALSE
    BY <2>1 DEF Connect, PoolStep, ConnectOk, ConnectFails, WaitTimeout, serverVars
  <2>2. ASSUME NEW c \in Queries, QueryStep(c)
        PROVE  FALSE
    BY <2>2 DEF QueryStep, Exec, QueryRelease, serverVars
  <2>3. ASSUME NEW cl \in Clients, ServeIdle(cl) \/ ServeNew(cl) \/ Break(cl) \/ BreakIdle(cl)
        PROVE  FALSE
    BY <2>3 DEF ServeIdle, ServeNew, Break, BreakIdle, serverVars
  <2>4. ~End /\ ~UNCHANGED vars
    BY DEF End, vars, serverVars
  <2>5. ASSUME NEW c \in Txs, TxStep(c)
        PROVE  Commit(c)
    BY <2>5 DEF TxStep, Begin, Write, StatementFails, AwaitInner, InnerSettles, BodyThrows,
                BodyReturns, CommitAck, Rollback, TxRelease, serverVars
  <2> QED
    BY <2>1, <2>2, <2>3, <2>4, <2>5 DEF Next
<1>2. /\ c \in Calls /\ pc[c] = "commit" /\ pc[c] \in Holding
      /\ pc \in [Calls -> {"new", "waiting"} \cup Holding \cup Settled]
  BY <1>1 DEF Commit, Calls, Holding, TxStages, PoolInv, TypeOK
<1>3. writes[held[c]] \subseteq {c} \cap wrote
  BY <1>2, StageHolds
<1> QED
  BY <1>1, <1>2, <1>3 DEF Commit, Goto, CommitIsOwn, serverVars

LEMMA StepsThrowInDoubt == PoolInv /\ [Next]_vars => ThrowIsInDoubt
<1> SUFFICES ASSUME PoolInv, [Next]_vars, NEW t \in committed, pc[t] # "rollback",
                    pc'[t] = "rollback"
             PROVE  pc[t] = "commitAck" /\ held[t] \in broken
  BY DEF ThrowIsInDoubt
<1>1. /\ t \in Txs /\ t \in Calls /\ pc[t] \in AfterCommit
      /\ pc \in [Calls -> {"new", "waiting"} \cup Holding \cup Settled]
  BY DEF PoolInv, TypeOK, History, AfterCommit, Calls
<1> USE DEF Goto, callVars, AfterCommit, Settled
<1>2. ASSUME NEW c \in Calls, Connect(c) \/ PoolStep(c)
      PROVE  FALSE
  BY <1>1, <1>2 DEF Connect, PoolStep, ConnectOk, ConnectFails, WaitTimeout, FirstStage
<1>3. ASSUME NEW c \in Queries, QueryStep(c)
      PROVE  FALSE
  BY <1>1, <1>3 DEF QueryStep, Exec, QueryRelease
<1>4. ASSUME NEW cl \in Clients, ServeIdle(cl) \/ ServeNew(cl) \/ Break(cl) \/ BreakIdle(cl)
      PROVE  FALSE
  BY <1>1, <1>4 DEF ServeIdle, ServeNew, Break, BreakIdle, FirstStage
<1>5. ~End /\ ~UNCHANGED vars
  BY DEF End, vars
<1>6. ASSUME NEW c \in Txs, Begin(c) \/ Write(c) \/ StatementFails(c) \/ AwaitInner(c)
      PROVE  FALSE
  BY <1>1, <1>6 DEF Begin, Write, StatementFails, AwaitInner
<1>7. ASSUME NEW c \in Txs, InnerSettles(c) \/ BodyThrows(c) \/ BodyReturns(c)
      PROVE  FALSE
  BY <1>1, <1>7 DEF InnerSettles, BodyThrows, BodyReturns
<1>8. ASSUME NEW c \in Txs, Commit(c) \/ Rollback(c) \/ TxRelease(c)
      PROVE  FALSE
  BY <1>1, <1>8 DEF Commit, Rollback, TxRelease
<1>9. ASSUME NEW c \in Txs, CommitAck(c)
      PROVE  pc[t] = "commitAck" /\ held[t] \in broken
  BY <1>1, <1>9 DEF CommitAck, Usable
<1> QED
  BY <1>2, <1>3, <1>4, <1>5, <1>6, <1>7, <1>8, <1>9 DEF Next, TxStep

\* A call settles once, and none becomes new again.
SettledStays ==
  \A c \in Calls : /\ pc[c] \in Settled => pc'[c] = pc[c]
                   /\ pc[c] # "new" => pc'[c] # "new"

LEMMA StepsKeepSettled == PoolInv /\ [Next]_vars => SettledStays
<1> SUFFICES ASSUME PoolInv, [Next]_vars PROVE SettledStays
  OBVIOUS
<1>1. /\ pc \in [Calls -> {"new", "waiting"} \cup Holding \cup Settled]
      /\ "new" \notin Settled
  BY DEF PoolInv, TypeOK, Settled
<1>2. ASSUME NEW c \in Calls, Local(c), pc[c] \notin Settled, pc'[c] # "new"
      PROVE  SettledStays
  BY <1>2 DEF Local, SettledStays
<1> USE DEF Goto, callVars
<1>3. ASSUME NEW c \in Calls, Connect(c) \/ PoolStep(c)
      PROVE  SettledStays
  <2>1. pc[c] \notin Settled /\ pc'[c] # "new"
    BY <1>1, <1>3 DEF Connect, PoolStep, ConnectOk, ConnectFails, WaitTimeout, FirstStage, Settled
  <2> QED
    BY <1>2, <1>3, <2>1, StepsAreLocal DEF PoolStep
<1>4. ASSUME NEW c \in Txs, AwaitInner(c)
      PROVE  SettledStays
  BY <1>1, <1>4 DEF AwaitInner, SettledStays, Settled
<1>5. ASSUME NEW c \in Txs, TxStep(c), ~AwaitInner(c)
      PROVE  SettledStays
  <2>1. c \in Calls
    BY DEF Calls
  <2>2. pc[c] \notin Settled /\ pc'[c] # "new"
    <3>1. CASE Begin(c) \/ Write(c) \/ StatementFails(c) \/ InnerSettles(c)
      BY <1>1, <2>1, <3>1 DEF Begin, Write, StatementFails, InnerSettles, Settled
    <3>2. CASE BodyThrows(c) \/ BodyReturns(c) \/ Commit(c) \/ CommitAck(c)
      BY <1>1, <2>1, <3>2 DEF BodyThrows, BodyReturns, Commit, CommitAck, Settled
    <3>3. CASE Rollback(c) \/ TxRelease(c)
      BY <1>1, <2>1, <3>3 DEF Rollback, TxRelease, Settled
    <3> QED
      BY <1>5, <3>1, <3>2, <3>3 DEF TxStep
  <2> QED
    BY <1>2, <1>5, <2>1, <2>2, StepsAreLocal DEF TxStep
<1>6. ASSUME NEW c \in Queries, QueryStep(c)
      PROVE  SettledStays
  <2>1. c \in Calls
    BY DEF Calls
  <2>2. pc[c] \notin Settled /\ pc'[c] # "new"
    BY <1>1, <1>6, <2>1 DEF QueryStep, Exec, QueryRelease, Settled
  <2> QED
    BY <1>2, <1>6, <2>1, <2>2, StepsAreLocal DEF QueryStep
<1>7. ASSUME NEW cl \in Clients, ServeIdle(cl) \/ ServeNew(cl)
      PROVE  SettledStays
  <2> DEFINE h == Head(waiters)
  <2>1. h \in Calls /\ pc[h] = "waiting"
    BY <1>7, PcIsFunction, QueueServe DEF ServeIdle, ServeNew
  <2> QED
    BY <1>1, <1>7, <2>1 DEF ServeIdle, ServeNew, FirstStage, SettledStays, Settled
<1>8. ASSUME pc' = pc
      PROVE  SettledStays
  BY <1>8 DEF SettledStays
<1>9. (\E cl \in Clients : Break(cl) \/ BreakIdle(cl)) \/ End \/ UNCHANGED vars => pc' = pc
  BY DEF Break, BreakIdle, End, vars
<1> QED
  BY <1>3, <1>4, <1>5, <1>6, <1>7, <1>8, <1>9 DEF Next

-----------------------------------------------------------------------------
(* The theorems.                                                           *)

LEMMA AlwaysPoolInv == Spec => []PoolInv
BY InitPoolInv, NextPoolInv, PTL DEF Spec

\* Every variable keeps its type.
THEOREM PoolTypeOK == Spec => []TypeOK
BY AlwaysPoolInv, PTL DEF PoolInv

\* However many calls there are and however they end, no client leaks or is shared.
THEOREM NoClientLeaks == Spec => []ClientsAccountedFor
BY AlwaysPoolInv, PTL DEF PoolInv

\* No client returns to the pool with a transaction in progress.
THEOREM IdleClientsStayClean == Spec => []IdleClientsAreClean
BY AlwaysPoolInv, PTL DEF PoolInv

\* Where no fn swallows a statement's error, a transaction that returned is committed.
THEOREM ReturnMeansCommitted ==
  ASSUME ~Swallows
  PROVE  Spec => []CommitsOnReturn
<1>1. PoolInv /\ WriteIsKept /\ [Next]_vars => PoolInv' /\ WriteIsKept'
  BY NextPoolInv, NextWriteIsKept
<1>2. WriteIsKept => CommitsOnReturn
  BY DEF WriteIsKept, Kept, CommitsOnReturn
<1> QED
  BY InitPoolInv, <1>1, <1>2, PTL DEF Spec

\* No call commits what another left behind on a client.
THEOREM OnlyOwnersCommit == Spec => CommittedOnlyByOwner
<1>1. Spec => [][CommitIsOwn]_vars
  BY AlwaysPoolInv, StepsCommitOwn, PTL DEF Spec
<1> QED
  BY <1>1 DEF CommitIsOwn, CommittedOnlyByOwner

\* A committed transaction throws only if its connection broke under the answer.
THEOREM ThrowsOnlyInDoubt == Spec => ThrowAfterCommitOnlyInDoubt
<1>1. Spec => [][ThrowIsInDoubt]_vars
  BY AlwaysPoolInv, StepsThrowInDoubt, PTL DEF Spec
<1> QED
  BY <1>1 DEF ThrowIsInDoubt, ThrowAfterCommitOnlyInDoubt
=============================================================================
