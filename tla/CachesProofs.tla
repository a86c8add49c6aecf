----------------------------- MODULE CachesProofs -----------------------------
(***************************************************************************)
(* What TLAPS proves of Caches, for any number of users, any choice of the *)
(* operations they use and any number of changes.                          *)
(***************************************************************************)
EXTENDS Caches, TLAPS

USE DEF Goto, reading, writing

-----------------------------------------------------------------------------
(* The operations.                                                         *)

LEMMA KeyFacts ==
  /\ \A u \in Users : {Wallet(u), Profile(u), History(u)} \subseteq Keys
  /\ {Banks, Rates} \subseteq Keys
  /\ \A u \in Users : /\ Wallet(u)[2] = u /\ Profile(u)[2] = u /\ History(u)[2] = u
                      /\ History(u)[1] = "tx_history"
  /\ Rates[2] = All /\ Banks[2] = All /\ All \notin Users
BY CachesAssumption DEF Keys, Wallet, Profile, History, Banks, Rates

Lists(s, k) == \E i \in DOMAIN s : s[i] = k

\* What the money movements and their evictions are about.
LEMMA MoveFacts ==
  ASSUME NEW u \in Users
  PROVE  /\ Moves(u) \subseteq Keys
         /\ <<>> \in Seq(Keys) /\ <<Wallet(u)>> \in Seq(Keys)
         /\ <<Profile(u)>> \in Seq(Keys) /\ Lists(<<Profile(u)>>, Profile(u))
         /\ Lists(<<Wallet(u)>>, Wallet(u))
         /\ <<Wallet(u), History(u)>> \in Seq(Keys)
         /\ Lists(<<Wallet(u), History(u)>>, Wallet(u))
         /\ \A k \in Moves(u) : k[1] # "tx_history" => k = Wallet(u)
BY KeyFacts DEF Moves, Lists

LEMMA SentFacts ==
  ASSUME NEW u \in Users, NEW v \in Users
  PROVE  /\ <<Wallet(u), Wallet(v), History(u)>> \in Seq(Keys)
         /\ Lists(<<Wallet(u), Wallet(v), History(u)>>, Wallet(u))
BY KeyFacts DEF Lists

\* The entries a write of o makes stale, of the user who asked for it and
\* where somebody reads them.
Own(o) == {k \in o.writes : k[2] = o.by /\ k[1] # "tx_history"}

\* A user reads its own entries or shared ones, and its writes delete, before
\* the commit or after, each of its own entries they make stale.
Proper(o) ==
  /\ o.by \in Processes /\ o.writes \subseteq Keys
  /\ o.before \in Seq(Keys) /\ o.after \in Seq(Keys)
  /\ o.key # Nothing => /\ o.by \in Users /\ o.key \in Keys
                        /\ o.key[2] \in {o.by, All}
  /\ o.key = Nothing /\ o.by \in Users =>
       \A k \in Own(o) : Lists(o.before, k) \/ Lists(o.after, k)

LEMMA WriteIsProper ==
  ASSUME NEW p \in Processes, NEW w, w \subseteq Keys,
         NEW b \in Seq(Keys), NEW a \in Seq(Keys),
         p \in Users => \A k \in w : k[2] = p /\ k[1] # "tx_history" =>
                          Lists(b, k) \/ Lists(a, k)
  PROVE  Proper(Write(p, w, b, a))
BY DEF Proper, Own, Write

LEMMA OperationsAreProper == \A o \in Operation : Proper(o)
<1> SUFFICES ASSUME NEW o \in Operation PROVE Proper(o)
  OBVIOUS
<1>0. Worker \in Processes /\ Worker \notin Users /\ Users \subseteq Processes
  BY CachesAssumption DEF Processes
<1>1. ASSUME NEW u \in Users,
             NEW k \in {Wallet(u), Profile(u), History(u), Banks, Rates},
             o = Read(u, k)
      PROVE  Proper(o)
  BY <1>1, KeyFacts, CachesAssumption DEF Proper, Read, Processes
<1>2. ASSUME NEW u \in Users, o \in {FundWallet(u), VerifyAndCredit(u)}
      PROVE  Proper(o)
  BY <1>0, <1>2, MoveFacts, WriteIsProper DEF FundWallet, VerifyAndCredit
<1>3. ASSUME NEW u \in Users, o \in {SwapFunds(u), WithdrawFunds(u)}
      PROVE  Proper(o)
  BY <1>0, <1>3, MoveFacts, WriteIsProper DEF SwapFunds, WithdrawFunds
<1>4. ASSUME NEW u \in Users, o = SetTransactionPin(u) PROVE Proper(o)
  <2>1. {Profile(u)} \subseteq Keys
    BY KeyFacts
  <2> QED BY <1>0, <1>4, <2>1, MoveFacts, WriteIsProper DEF SetTransactionPin
<1>5. ASSUME NEW u \in Users, NEW v \in Users \ {u}, o = TransferFunds(u, v)
      PROVE  Proper(o)
  <2> DEFINE w == Moves(u) \cup Moves(v)
             a == <<Wallet(u), Wallet(v), History(u)>>
  <2>1. \A k \in Moves(u) \cup Moves(v) :
          k[2] = u /\ k[1] # "tx_history" => k = Wallet(u)
    BY MoveFacts, KeyFacts
  <2>2. w \subseteq Keys
    BY MoveFacts
  <2>3. a \in Seq(Keys) /\ <<>> \in Seq(Keys) /\ Lists(a, Wallet(u))
    BY SentFacts, MoveFacts
  <2>4. o = Write(u, w, <<>>, a)
    BY <1>5 DEF TransferFunds
  <2>5. \A k \in w : k[2] = u /\ k[1] # "tx_history" => Lists(a, k)
    BY <2>1, <2>3
  <2> HIDE DEF w, a
  <2> QED BY <1>0, <2>2, <2>3, <2>4, <2>5, WriteIsProper
<1>6. ASSUME NEW u \in Users,
             o \in {ChargeSuccess(u), TransferSuccess(u), TransferFailed(u)}
      PROVE  Proper(o)
  <2>1. {History(u)} \subseteq Keys
    BY KeyFacts
  <2>2. PICK w \in {Moves(u), {History(u)}}, b \in {<<>>, <<Wallet(u), History(u)>>} :
          o = Write(Worker, w, b, <<>>)
    BY <1>6 DEF ChargeSuccess, TransferSuccess, TransferFailed
  <2>3. w \subseteq Keys
    BY <2>1, MoveFacts
  <2>4. b \in Seq(Keys) /\ <<>> \in Seq(Keys)
    BY MoveFacts
  <2> QED BY <1>0, <2>2, <2>3, <2>4, WriteIsProper
<1>7. ASSUME NEW k \in {Banks, Rates}, o = Elsewhere(k) PROVE Proper(o)
  <2>1. {k} \subseteq Keys /\ <<>> \in Seq(Keys)
    BY KeyFacts
  <2> QED BY <1>0, <1>7, <2>1, WriteIsProper DEF Elsewhere
<1>8. ASSUME NEW u \in Users, o \in OperationOf(u) PROVE Proper(o)
  BY <1>1, <1>2, <1>3, <1>4, <1>5, <1>6, <1>8 DEF OperationOf
<1> QED BY <1>7, <1>8 DEF Operation

-----------------------------------------------------------------------------
(* Type correctness.                                                       *)

\* A read has the key of an entry, a write has none, and what a write of the
\* menu deletes is known.
Routed ==
  /\ \A o \in menu : Proper(o)
  /\ \A p \in Processes :
       /\ pc[p] \in {"get", "load", "fill", "told"} => op[p].key # Nothing
       /\ pc[p] \in {"before", "commit", "after"} => op[p].key = Nothing
       /\ pc[p] = "commit" => todo[p] = <<>>

LEMMA TypeInit == Init => TypeOK /\ Routed
<1> SUFFICES ASSUME Init PROVE TypeOK /\ Routed
  OBVIOUS
<1>1. 0 \in Version /\ <<>> \in Seq(Keys)
  BY CachesAssumption DEF Version
<1>2. \A o \in menu : Proper(o)
  BY OperationsAreProper, CachesAssumption DEF Init
<1> QED BY <1>1, <1>2 DEF Init, TypeOK, Routed

\* A commit brings the data of some entries one version on, and never beyond
\* the bound.
LEMMA ChangesFacts ==
  ASSUME TypeOK, NEW o, CanChange(o)
  PROVE  /\ Changes(o) \in [Keys -> Version]
         /\ \A k \in Keys : data[k] <= Changes(o)[k]
BY CachesAssumption DEF TypeOK, Changes, CanChange, Version

LEMMA RestType ==
  ASSUME TypeOK, Routed, NEW p \in Processes, Rest(p),
         menu' = menu, data' \in [Keys -> Version],
         cache' \in [Keys -> Version \cup {Miss}], owed' \in [Keys -> Version]
  PROVE  (TypeOK /\ Routed)'
<1>1. 0 \in Version /\ <<>> \in Seq(Keys)
  BY CachesAssumption DEF Version
<1> QED BY <1>1 DEF Rest, TypeOK, Routed

LEMMA TypeStep == TypeOK /\ Routed /\ [Next]_vars => (TypeOK /\ Routed)'
<1> SUFFICES ASSUME TypeOK, Routed, [Next]_vars PROVE (TypeOK /\ Routed)'
  OBVIOUS
<1>0. \A p \in Processes : pc[p] \in {"get", "load", "fill", "told"} => op[p].key \in Keys
  BY DEF TypeOK, Routed, Proper
<1>1. ASSUME NEW p \in Processes, NEW o \in menu, BeginRead(p, o)
      PROVE  (TypeOK /\ Routed)'
  <2>1. o.key \in Keys
    BY <1>1 DEF BeginRead, Routed, Proper
  <2> QED BY <1>1, <2>1 DEF BeginRead, TypeOK, Routed
<1>2. ASSUME NEW p \in Processes, NEW o \in menu, BeginWrite(p, o)
      PROVE  (TypeOK /\ Routed)'
  <2>1. o.before \in Seq(Keys)
    BY DEF Routed, Proper
  <2> QED BY <1>2, <2>1 DEF BeginWrite, TypeOK, Routed
<1>3. ASSUME NEW p \in Processes, Hit(p) PROVE (TypeOK /\ Routed)'
  <2>1. cache[op[p].key] \in Version
    BY <1>0, <1>3 DEF Hit, TypeOK
  <2> QED BY <1>3, <2>1 DEF Hit, TypeOK, Routed
<1>4. ASSUME NEW p \in Processes, NoHit(p) PROVE (TypeOK /\ Routed)'
  BY <1>4 DEF NoHit, TypeOK, Routed
<1>5. ASSUME NEW p \in Processes, Load(p) PROVE (TypeOK /\ Routed)'
  <2>1. data[op[p].key] \in Version
    BY <1>0, <1>5 DEF Load, TypeOK
  <2> QED BY <1>5, <2>1 DEF Load, TypeOK, Routed
<1>6. ASSUME NEW p \in Processes, Fill(p) PROVE (TypeOK /\ Routed)'
  <2>1. seen[p] \in Version
    BY <1>6 DEF Fill, TypeOK
  <2>2. cache' \in [Keys -> Version \cup {Miss}]
    BY <1>6, <2>1 DEF Fill, TypeOK
  <2> QED BY <1>6, <2>1, <2>2 DEF Fill, TypeOK, Routed
<1>7. ASSUME NEW p \in Processes, Evict(p) PROVE (TypeOK /\ Routed)'
  <2>1. Head(todo[p]) \in Keys /\ Tail(todo[p]) \in Seq(Keys)
    BY <1>7 DEF Evict, TypeOK
  <2>2. todo' \in [Processes -> Seq(Keys)]
    <3>1. todo' = [todo EXCEPT ![p] = Tail(todo[p])] /\ todo \in [Processes -> Seq(Keys)]
      BY <1>7 DEF Evict, TypeOK
    <3> QED BY <2>1, <3>1
  <2>3. cache' \in [Keys -> Version \cup {Miss}]
          /\ missed' \in [Processes -> SUBSET Keys]
    <3> DEFINE h == Head(todo[p])
    <3>1. h \in Keys
      BY <2>1
    <3>2. \/ cache' = [cache EXCEPT ![h] = Miss] /\ missed' = missed
          \/ missed' = [missed EXCEPT ![p] = missed[p] \cup {h}] /\ cache' = cache
      BY <1>7 DEF Evict, TypeOK
    <3> HIDE DEF h
    <3>3. missed[p] \cup {h} \in SUBSET Keys
      BY <3>1 DEF TypeOK
    <3>4. CASE missed' = missed
      BY <3>1, <3>2, <3>4 DEF TypeOK
    <3>5. CASE cache' = cache /\ missed' = [missed EXCEPT ![p] = missed[p] \cup {h}]
      BY <3>3, <3>5 DEF TypeOK
    <3> QED BY <3>2, <3>4, <3>5
  <2>4. \A q \in Processes : pc[q] = "commit" => todo'[q] = todo[q]
    BY <1>7 DEF Evict, TypeOK
  <2> QED BY <1>7, <2>2, <2>3, <2>4 DEF Evict, TypeOK, Routed
<1>8. ASSUME NEW p \in Processes, Evicted(p) PROVE (TypeOK /\ Routed)'
  BY <1>8 DEF Evicted, TypeOK, Routed
<1>9. ASSUME NEW p \in Processes, Commit(p) PROVE (TypeOK /\ Routed)'
  <2>1. op[p].after \in Seq(Keys)
    BY <1>9 DEF Commit, TypeOK, Routed, Proper
  <2>2. data' \in [Keys -> Version]
    BY <1>9, ChangesFacts DEF Commit
  <2> QED BY <1>9, <2>1, <2>2 DEF Commit, TypeOK, Routed
<1>10. ASSUME NEW p \in Processes, CommitNothing(p) PROVE (TypeOK /\ Routed)'
  <2>1. op[p].after \in Seq(Keys)
    BY <1>10 DEF CommitNothing, TypeOK, Routed, Proper
  <2> QED BY <1>10, <2>1 DEF CommitNothing, TypeOK, Routed
<1>11. ASSUME NEW p \in Processes, Succeed(p) PROVE (TypeOK /\ Routed)'
  <2>1. owed' \in [Keys -> Version]
    BY <1>11 DEF Succeed, TypeOK
  <2> QED BY <1>11, <2>1, RestType DEF Succeed, TypeOK
<1>12. ASSUME NEW p \in Processes, CommitUnnoticed(p) PROVE (TypeOK /\ Routed)'
  BY <1>12, ChangesFacts, RestType DEF CommitUnnoticed, TypeOK
<1>13. ASSUME NEW p \in Processes, Done(p) \/ Fail(p) PROVE (TypeOK /\ Routed)'
  BY <1>13, RestType DEF Done, Fail, TypeOK
<1>14. ASSUME NEW k \in Keys, Expire(k) PROVE (TypeOK /\ Routed)'
  BY <1>14 DEF Expire, TypeOK, Routed
<1>15. CASE Crash
  <2>1. 0 \in Version /\ <<>> \in Seq(Keys)
    BY CachesAssumption DEF Version
  <2> QED BY <1>15, <2>1 DEF Crash, TypeOK, Routed
<1>16. CASE UNCHANGED vars
  BY <1>16 DEF vars, TypeOK, Routed
<1> QED BY <1>1, <1>2, <1>3, <1>4, <1>5, <1>6, <1>7, <1>8, <1>9, <1>10, <1>11,
           <1>12, <1>13, <1>14, <1>15, <1>16
        DEF Next, Step

\* The variables keep their types: in particular nobody is told a version of
\* an entry that is empty.
THEOREM TypeCorrect == Spec => []TypeOK
BY TypeInit, TypeStep, PTL DEF Spec

-----------------------------------------------------------------------------
(* Histories.                                                              *)

\* A read of a history always comes to the data: its version is at least the
\* one there was when it began.
HistoryLoads ==
  \A p \in Users :
    /\ pc[p] \in {"get", "load"} => asked[p] <= data[op[p].key]
    /\ pc[p] \in {"fill", "told"} /\ op[p].key[1] = "tx_history" =>
         asked[p] <= seen[p]

LEMMA HistoryStep ==
  TypeOK /\ Routed /\ HistoryLoads /\ [Next]_vars => HistoryLoads'
<1> SUFFICES ASSUME TypeOK, Routed, HistoryLoads, [Next]_vars PROVE HistoryLoads'
  OBVIOUS
<1> USE DEF HistoryLoads
<1>0. /\ \A p \in Processes : pc[p] \in {"get", "load"} => op[p].key \in Keys
      /\ \A k \in Keys : data[k] \in Int
      /\ \A p \in Processes : asked[p] \in Int
      /\ Users \subseteq Processes
  BY CachesAssumption DEF TypeOK, Routed, Proper, Version, Processes
<1>a. ASSUME NEW p \in Processes, Rest(p), \A k \in Keys : data[k] <= data'[k],
             data' \in [Keys -> Version]
      PROVE  HistoryLoads'
  <2> SUFFICES ASSUME NEW q \in Users
               PROVE  /\ pc'[q] \in {"get", "load"} => asked'[q] <= data'[op'[q].key]
                      /\ pc'[q] \in {"fill", "told"} /\ op'[q].key[1] = "tx_history" =>
                           asked'[q] <= seen'[q]
    OBVIOUS
  <2>1. q = p => pc'[q] = "idle"
    BY <1>0, <1>a DEF Rest, TypeOK
  <2>2. q # p => pc'[q] = pc[q] /\ op'[q] = op[q] /\ asked'[q] = asked[q]
                   /\ seen'[q] = seen[q]
    BY <1>0, <1>a DEF Rest, TypeOK
  <2>3. \A k \in Keys : data'[k] \in Int
    BY <1>a, CachesAssumption DEF Version
  <2>4. pc[q] \in {"get", "load"} => asked[q] <= data'[op[q].key]
    BY <1>0, <1>a, <2>3
  <2> QED BY <2>1, <2>2, <2>4
<1>1. ASSUME NEW p \in Processes, NEW o \in menu, BeginRead(p, o)
      PROVE  HistoryLoads'
  <2>1. o.key \in Keys /\ data[o.key] \in Int
    BY <1>0, <1>1 DEF BeginRead, Routed, Proper
  <2> QED BY <1>0, <1>1, <2>1 DEF BeginRead, TypeOK
<1>2. ASSUME NEW p \in Processes, NEW o \in menu, BeginWrite(p, o)
      PROVE  HistoryLoads'
  BY <1>0, <1>2 DEF BeginWrite, TypeOK
<1>3. ASSUME NEW p \in Processes, Hit(p) PROVE HistoryLoads'
  BY <1>0, <1>3 DEF Hit, Decodable, TypeOK
<1>4. ASSUME NEW p \in Processes, NoHit(p) PROVE HistoryLoads'
  BY <1>0, <1>4 DEF NoHit, TypeOK
<1>4a. ASSUME NEW p \in Processes, Evicted(p) PROVE HistoryLoads'
  BY <1>0, <1>4a DEF Evicted, TypeOK
<1>5. ASSUME NEW p \in Processes, Load(p) PROVE HistoryLoads'
  BY <1>0, <1>5 DEF Load, TypeOK
<1>6. ASSUME NEW p \in Processes, Fill(p) PROVE HistoryLoads'
  BY <1>0, <1>6 DEF Fill, TypeOK
<1>7. ASSUME NEW p \in Processes, Evict(p) PROVE HistoryLoads'
  BY <1>0, <1>7 DEF Evict, TypeOK
<1>7a. ASSUME NEW p \in Processes, CommitNothing(p) PROVE HistoryLoads'
  BY <1>0, <1>7a DEF CommitNothing, TypeOK
<1>8. ASSUME NEW p \in Processes, Commit(p) PROVE HistoryLoads'
  <2>1. /\ \A k \in Keys : data[k] <= data'[k] /\ data'[k] \in Int
        /\ pc[p] = "commit" /\ pc' = [pc EXCEPT ![p] = "after"]
        /\ UNCHANGED <<op, seen, asked>>
    BY <1>8, ChangesFacts, CachesAssumption DEF Commit, Version
  <2> QED BY <1>0, <2>1 DEF TypeOK
<1>9. ASSUME NEW p \in Processes,
             Succeed(p) \/ CommitUnnoticed(p) \/ Done(p) \/ Fail(p)
      PROVE  HistoryLoads'
  <2>1. Rest(p) /\ \A k \in Keys : data[k] <= data'[k]
    BY <1>0, <1>9, ChangesFacts DEF Succeed, CommitUnnoticed, Done, Fail
  <2>2. data' \in [Keys -> Version]
    BY <1>9, ChangesFacts DEF Succeed, CommitUnnoticed, Done, Fail, TypeOK
  <2> QED BY <1>a, <2>1, <2>2
<1>10. ASSUME NEW k \in Keys, Expire(k) PROVE HistoryLoads'
  BY <1>10 DEF Expire
<1>11. CASE Crash
  BY <1>0, <1>11 DEF Crash
<1>12. CASE UNCHANGED vars
  BY <1>12 DEF vars
<1> QED BY <1>1, <1>2, <1>3, <1>4, <1>4a, <1>5, <1>6, <1>7, <1>7a, <1>8, <1>9, <1>10, <1>11, <1>12
        DEF Next, Step

\* A history is never older than the request for it: GetTransactionHistory
\* cannot decode the entry it has stored, so that it always loads.
THEOREM HistoriesAreCurrent == Spec => []HistoryIsCurrent
<1>1. Init => HistoryLoads
  BY DEF Init, HistoryLoads, Processes
<1>2. TypeOK /\ HistoryLoads => HistoryIsCurrent
  <2> SUFFICES ASSUME TypeOK, HistoryLoads, NEW p \in Users, pc[p] = "told",
                      op[p].key[1] = "tx_history"
               PROVE  seen[p] >= asked[p]
    BY DEF HistoryIsCurrent
  <2>1. asked[p] <= seen[p] /\ asked[p] \in Int /\ seen[p] \in Int
    BY CachesAssumption DEF HistoryLoads, TypeOK, Version, Processes
  <2> QED BY <2>1
<1> QED BY <1>1, <1>2, HistoryStep, TypeInit, TypeStep, PTL DEF Spec

-----------------------------------------------------------------------------
(* What a client can count on.                                             *)

\* What u can count on is in the data, and, where a read can use the entry k
\* of u, in the entry and in what u has read from it.
Fresh(u, k) ==
  /\ owed[k] <= data[k]
  /\ k[1] # "tx_history" /\ cache[k] # Miss => owed[k] <= cache[k]
  /\ pc[u] \in {"fill", "told"} /\ op[u].key = k => owed[k] <= seen[u]

\* An entry that u's write makes stale is empty, or still to be deleted: u is
\* the only one who fills it, and has something else to do.
Cleared(u, k) ==
  k \in Own(op[u]) \ missed[u] =>
    /\ pc[u] = "before" /\ Lists(op[u].before, k) => cache[k] = Miss \/ Lists(todo[u], k)
    /\ pc[u] = "commit" /\ Lists(op[u].before, k) => cache[k] = Miss
    /\ pc[u] = "after" => cache[k] = Miss \/ Lists(todo[u], k)

Dependable ==
  \A u \in Users : \A k \in Keys : k[2] = u => Fresh(u, k) /\ Cleared(u, k)

LEMMA TailLists ==
  ASSUME NEW s \in Seq(Keys), s # <<>>, NEW k, Lists(s, k)
  PROVE  k = Head(s) \/ Lists(Tail(s), k)
<1>1. PICK i \in DOMAIN s : s[i] = k
  BY DEF Lists
<1>2. CASE i = 1
  BY <1>1, <1>2
<1>3. CASE i # 1
  <2>1. i - 1 \in DOMAIN Tail(s) /\ Tail(s)[i - 1] = s[i]
    BY <1>1, <1>3
  <2> QED BY <1>1, <2>1 DEF Lists
<1> QED BY <1>2, <1>3

LEMMA DependableStep ==
  TypeOK /\ Routed /\ Dependable /\ [Next]_vars => Dependable'
<1> SUFFICES ASSUME TypeOK, Routed, Dependable, [Next]_vars,
                    NEW u \in Users, NEW k \in Keys, k[2] = u
             PROVE  Fresh(u, k)' /\ Cleared(u, k)'
  BY DEF Dependable
<1>0. /\ u \in Processes /\ u # All /\ k # Rates /\ u # Worker
      /\ data[k] \in Int /\ owed[k] \in Int
      /\ Fresh(u, k) /\ Cleared(u, k)
  <2>1. u \in Processes /\ u # All /\ k # Rates /\ u # Worker
    BY KeyFacts, CachesAssumption DEF Processes
  <2>2. data[k] \in Int /\ owed[k] \in Int
    BY CachesAssumption DEF TypeOK, Version
  <2>3. Fresh(u, k) /\ Cleared(u, k)
    BY DEF Dependable
  <2> QED BY <2>1, <2>2, <2>3
\* Who reads entry k is u.
<1>b. ASSUME NEW p \in Processes, pc[p] \in {"get", "load", "fill", "told"},
             op[p].key = k
      PROVE  p = u
  <2>1. op[p].by = p /\ Proper(op[p]) /\ op[p].key # Nothing
    BY <1>b DEF TypeOK, Routed
  <2> QED BY <1>0, <1>b, <2>1 DEF Proper
\* p forgets what it was doing; nobody but u itself changes what u counts on.
<1>a. ASSUME NEW p \in Processes, Rest(p), cache' = cache,
             data'[k] \in Int, data[k] <= data'[k],
             owed'[k] = owed[k]
      PROVE  Fresh(u, k)' /\ Cleared(u, k)'
  <2>1. CASE p = u
    <3>1. pc'[u] = "idle"
      BY <1>0, <1>a, <2>1 DEF Rest, TypeOK
    <3> QED BY <1>0, <1>a, <3>1 DEF Fresh, Cleared
  <2>2. CASE p # u
    <3>1. /\ pc'[u] = pc[u] /\ op'[u] = op[u] /\ todo'[u] = todo[u]
          /\ seen'[u] = seen[u] /\ missed'[u] = missed[u]
      BY <1>0, <1>a, <2>2 DEF Rest, TypeOK
    <3>2. Own(op'[u]) = Own(op[u])
      BY <3>1
    <3> QED BY <1>0, <1>a, <3>1, <3>2 DEF Fresh, Cleared, Own
  <2> QED BY <2>1, <2>2
<1>1. ASSUME NEW p \in Processes, NEW o \in menu, BeginRead(p, o)
      PROVE  Fresh(u, k)' /\ Cleared(u, k)'
  BY <1>0, <1>1 DEF BeginRead, Fresh, Cleared, Own, TypeOK
<1>2. ASSUME NEW p \in Processes, NEW o \in menu, BeginWrite(p, o)
      PROVE  Fresh(u, k)' /\ Cleared(u, k)'
  BY <1>0, <1>2 DEF BeginWrite, Fresh, Cleared, Own, TypeOK
<1>3. ASSUME NEW p \in Processes, Hit(p) PROVE Fresh(u, k)' /\ Cleared(u, k)'
  <2>1. Fresh(u, k)'
    BY <1>0, <1>b, <1>3 DEF Hit, Decodable, Fresh, TypeOK
  <2>2. Cleared(u, k)'
    BY <1>0, <1>3 DEF Hit, Cleared, Own, TypeOK
  <2> QED BY <2>1, <2>2
<1>4. ASSUME NEW p \in Processes, NoHit(p) PROVE Fresh(u, k)' /\ Cleared(u, k)'
  BY <1>0, <1>4 DEF NoHit, Fresh, Cleared, Own, TypeOK
<1>5. ASSUME NEW p \in Processes, Load(p) PROVE Fresh(u, k)' /\ Cleared(u, k)'
  BY <1>0, <1>5 DEF Load, Fresh, Cleared, Own, TypeOK
<1>6. ASSUME NEW p \in Processes, Fill(p) PROVE Fresh(u, k)' /\ Cleared(u, k)'
  <2>1. CASE op[p].key = k
    <3>1. p = u /\ seen[u] \in Version /\ owed[k] <= seen[u]
      BY <1>0, <1>b, <1>6, <2>1 DEF Fill, Fresh, TypeOK
    <3>2. /\ cache'[k] = seen[u] \/ cache'[k] = cache[k]
          /\ pc'[u] = "told" /\ UNCHANGED <<data, op, seen, owed>>
      BY <1>0, <1>6, <2>1, <3>1 DEF Fill, TypeOK
    <3> QED BY <1>0, <3>1, <3>2 DEF Fresh, Cleared
  <2>2. CASE op[p].key # k
    <3>1. /\ cache'[k] = cache[k] /\ UNCHANGED <<data, op, seen, owed, todo, missed>>
          /\ pc'[u] = pc[u] \/ (pc[u] = "fill" /\ pc'[u] = "told")
      BY <1>0, <1>6, <2>2 DEF Fill, TypeOK
    <3> QED BY <1>0, <3>1 DEF Fresh, Cleared, Own
  <2> QED BY <2>1, <2>2
<1>7. ASSUME NEW p \in Processes, Evict(p) PROVE Fresh(u, k)' /\ Cleared(u, k)'
  <2> DEFINE h == Head(todo[p])
  <2>1. /\ UNCHANGED <<data, pc, op, seen, owed>>
        /\ todo[p] # <<>> /\ todo[p] \in Seq(Keys) /\ h \in Keys
        /\ todo'[p] = Tail(todo[p])
        /\ \A q \in Processes : q # p => todo'[q] = todo[q] /\ missed'[q] = missed[q]
        /\ cache'[k] = cache[k] \/ cache'[k] = Miss
        /\ missed[p] \subseteq missed'[p]
        /\ h = k => cache'[k] = Miss \/ k \in missed'[p]
    BY <1>7 DEF Evict, TypeOK
  <2>2. Fresh(u, k)'
    BY <1>0, <2>1 DEF Fresh
  <2>3. CASE p # u
    <3>1. todo'[u] = todo[u] /\ missed'[u] = missed[u]
      BY <1>0, <2>1, <2>3
    <3> QED BY <1>0, <2>1, <2>2, <3>1 DEF Cleared, Own
  <2>4. CASE p = u
    <3>1. Lists(todo[u], k) => h = k \/ Lists(todo'[u], k)
      BY <2>1, <2>4, TailLists
    <3>2. pc[u] # "commit"
      BY <1>7, <2>4 DEF Evict
    <3> QED BY <1>0, <2>1, <2>2, <2>4, <3>1, <3>2 DEF Cleared, Own
  <2> QED BY <2>3, <2>4
<1>8. ASSUME NEW p \in Processes, Evicted(p) PROVE Fresh(u, k)' /\ Cleared(u, k)'
  <2>1. p = u => ~ Lists(todo[u], k)
    BY <1>8 DEF Evicted, Lists
  <2> QED BY <1>0, <1>8, <2>1 DEF Evicted, Fresh, Cleared, Own, TypeOK
<1>9. ASSUME NEW p \in Processes, Commit(p) \/ CommitNothing(p)
      PROVE  Fresh(u, k)' /\ Cleared(u, k)'
  <2>1. /\ data[k] <= data'[k] /\ data'[k] \in Int
        /\ UNCHANGED <<cache, op, seen, missed, owed>>
        /\ pc[p] = "commit" /\ pc'[p] = "after" /\ todo'[p] = op[p].after
        /\ \A q \in Processes : q # p => pc'[q] = pc[q] /\ todo'[q] = todo[q]
    <3>1. CASE Commit(p)
      <4>1. /\ data' \in [Keys -> Version] /\ data[k] <= data'[k]
        BY <3>1, ChangesFacts DEF Commit
      <4>2. data[k] <= data'[k] /\ data'[k] \in Int
        BY <4>1, CachesAssumption DEF Version
      <4> QED BY <3>1, <4>2 DEF Commit, TypeOK
    <3>2. CASE CommitNothing(p)
      BY <1>0, <3>2 DEF CommitNothing, TypeOK
    <3> QED BY <1>9, <3>1, <3>2
  <2>2. Fresh(u, k)'
    BY <1>0, <2>1 DEF Fresh
  <2>3. k \in Own(op[p]) /\ p = u => Lists(op[p].before, k) \/ Lists(op[p].after, k)
    BY <1>0, <2>1 DEF TypeOK, Routed, Proper
  <2>4. Cleared(u, k)'
    BY <1>0, <2>1, <2>3 DEF Cleared, Own
  <2> QED BY <2>2, <2>4
<1>10. ASSUME NEW p \in Processes, Succeed(p) PROVE Fresh(u, k)' /\ Cleared(u, k)'
  <2>1. /\ Rest(p) /\ cache' = cache /\ data' = data
        /\ owed'[k] = IF k \in op[p].writes \ missed[p] /\ u = p
                      THEN data[k] ELSE owed[k]
        /\ pc[p] = "after" /\ todo[p] = <<>>
    BY <1>10 DEF Succeed, TypeOK
  <2>2. CASE p = u
    <3>1. pc'[u] = "idle"
      BY <1>0, <2>1, <2>2 DEF Rest, TypeOK
    <3>2. ~ Lists(todo[u], k) /\ op[u].by = u
      BY <2>1, <2>2, <1>0 DEF Lists, TypeOK
    <3>3. k \in op[p].writes \ missed[p] /\ k[1] # "tx_history" => cache[k] = Miss
      BY <1>0, <2>1, <2>2, <3>2 DEF Cleared, Own
    <3> QED BY <1>0, <2>1, <2>2, <3>1, <3>3 DEF Fresh, Cleared
  <2>3. CASE p # u
    BY <1>0, <1>a, <2>1, <2>3
  <2> QED BY <2>2, <2>3
<1>11. ASSUME NEW p \in Processes, CommitUnnoticed(p) \/ Done(p) \/ Fail(p)
       PROVE  Fresh(u, k)' /\ Cleared(u, k)'
  <2>1. /\ Rest(p) /\ UNCHANGED <<cache, owed>>
        /\ data[k] <= data'[k] /\ data'[k] \in Int
    BY <1>0, <1>11, ChangesFacts, CachesAssumption
       DEF CommitUnnoticed, Done, Fail, Version
  <2> QED BY <1>0, <1>a, <2>1
<1>12. ASSUME NEW h \in Keys, Expire(h) PROVE Fresh(u, k)' /\ Cleared(u, k)'
  BY <1>0, <1>12 DEF Expire, Fresh, Cleared, Own, TypeOK
<1>13. CASE Crash
  <2>1. /\ pc'[u] = "idle" /\ cache'[k] = cache[k] /\ UNCHANGED <<data, owed>>
    BY <1>0, <1>13 DEF Crash, TypeOK
  <2> QED BY <1>0, <2>1 DEF Fresh, Cleared
<1>14. CASE UNCHANGED vars
  BY <1>0, <1>14 DEF vars, Fresh, Cleared, Own
<1> QED BY <1>1, <1>2, <1>3, <1>4, <1>5, <1>6, <1>7, <1>8, <1>9, <1>10, <1>11, <1>12,
           <1>13, <1>14
        DEF Next, Step

\* Who was told "success" sees its operation in what it reads, whoever else
\* changes, deletes or expires the same entries.
THEOREM WritesAreRead == Spec => []ReadYourWrites
<1>1. Init => Dependable
  BY CachesAssumption DEF Init, Dependable, Fresh, Cleared, Own, Processes
<1>2. TypeOK /\ Routed /\ Dependable => ReadYourWrites
  <2> SUFFICES ASSUME TypeOK, Routed, Dependable, NEW p \in Users, pc[p] = "told",
                      op[p].key[2] = p
               PROVE  seen[p] >= owed[op[p].key]
    BY DEF ReadYourWrites
  <2>1. p \in Processes /\ op[p].key \in Keys /\ seen[p] \in Int /\ owed[op[p].key] \in Int
    BY CachesAssumption DEF TypeOK, Routed, Proper, Processes, Version
  <2>2. owed[op[p].key] <= seen[p]
    BY <2>1 DEF Dependable, Fresh
  <2> QED BY <2>1, <2>2
<1> QED BY <1>1, <1>2, DependableStep, TypeInit, TypeStep, PTL DEF Spec
=============================================================================
