------------------------------- MODULE Caches -------------------------------
(***************************************************************************)
(* What clients see through the caches.  Wallets, profiles and transaction *)
(* histories are cached in Redis per user, the list of banks once, and the *)
(* exchange rates in a variable of the process.  A read looks into the     *)
(* cache, and on a miss loads the data and stores them with a time to      *)
(* live; a write deletes some of the entries it makes stale, after its     *)
(* commit or before it.  Nothing ties these steps together.                *)
(*                                                                         *)
(* Data are version numbers: data[k] counts the changes of what entry k    *)
(* caches.  A client is a user with one device who waits for each answer   *)
(* before asking again; the worker processes webhooks meanwhile.           *)
(***************************************************************************)
EXTENDS Integers, Sequences, FiniteSets

CONSTANTS Users,
          Worker,      \* the webhook worker
          All,         \* stands for everybody in the keys of shared entries
          Menus,       \* sets of operations: a behaviour uses those of one
          MaxChanges,  \* bound: nothing changes any more after so many commits
          Miss, Nothing

Wallet(u)  == <<"wallet", u>>
Profile(u) == <<"user_profile", u>>
History(u) == <<"tx_history", u>>
Banks      == <<"banks", All>>
Rates      == <<"rates", All>>   \* cachedRates, guarded by ratesMutex

Keys == {Wallet(u) : u \in Users} \cup {Profile(u) : u \in Users}
          \cup {History(u) : u \in Users} \cup {Banks, Rates}

Version == 0 .. MaxChanges

(***************************************************************************)
(* An operation of p reads one entry, or changes the data behind some      *)
(* entries; it deletes the entries in before, one after the other, then    *)
(* commits, then deletes those in after.                                   *)
(***************************************************************************)
Read(p, k) ==
  [by |-> p, key |-> k, writes |-> {}, before |-> <<>>, after |-> <<>>]

Write(p, writes, before, after) ==
  [by |-> p, key |-> Nothing, writes |-> writes, before |-> before,
   after |-> after]

Moves(u) == {Wallet(u), History(u)}

FundWallet(u) == Write(u, Moves(u), <<>>, <<Wallet(u)>>)

SwapFundsKeepsWallet(u) == Write(u, Moves(u), <<>>, <<History(u)>>)

SwapFunds(u) == Write(u, Moves(u), <<>>, <<Wallet(u), History(u)>>)

TransferFunds(u, v) ==
  Write(u, Moves(u) \cup Moves(v), <<>>, <<Wallet(u), Wallet(v), History(u)>>)

WithdrawFunds(u) == Write(u, Moves(u), <<>>, <<Wallet(u), History(u)>>)

\* The entry is only deleted if the payer is found; Evict may fail for that.
VerifyAndCredit(u) == Write(u, Moves(u), <<>>, <<Wallet(u)>>)

SetTransactionPin(u) == Write(u, {Profile(u)}, <<Profile(u)>>, <<>>)

\* Webhooks: of a payment, and of a payout that succeeded or did not.
ChargeSuccess(u)   == Write(Worker, Moves(u), <<Wallet(u), History(u)>>, <<>>)
TransferSuccess(u) == Write(Worker, {History(u)}, <<>>, <<>>)
TransferFailed(u)  == Write(Worker, Moves(u), <<>>, <<>>)

\* The provider of rates or the list of banks changes.
Elsewhere(k) == Write(Worker, {k}, <<>>, <<>>)

\* The operations of a client.  It reads its own entries and the shared ones
\* and moves its own money, or is the one that the worker moves money for.
OperationOf(u) ==
  {Read(u, k) : k \in {Wallet(u), Profile(u), History(u), Banks, Rates}} \cup
  {FundWallet(u), SwapFunds(u), WithdrawFunds(u), VerifyAndCredit(u),
   SetTransactionPin(u),
   ChargeSuccess(u), TransferSuccess(u), TransferFailed(u)} \cup
  {TransferFunds(u, v) : v \in Users \ {u}}

Operation ==
  (UNION {OperationOf(u) : u \in Users}) \cup {Elsewhere(Banks), Elsewhere(Rates)}

ASSUME CachesAssumption ==
  /\ MaxChanges \in Nat
  /\ Miss \notin Version /\ Nothing \notin Keys /\ Nothing \notin Operation
  /\ Worker \notin Users /\ All \notin Users
  /\ \A menu \in Menus : menu \subseteq Operation

VARIABLES data,    \* data[k]: the version of what entry k caches
          cache,   \* cache[k]: the version in the entry, or Miss
          menu,    \* the operations of this behaviour
          pc,      \* pc[p]: where p's operation is
          op,      \* op[p]: the operation p is at
          todo,    \* todo[p]: the entries it has still to delete here
          seen,    \* seen[p]: the version it has read
          asked,   \* asked[p]: the version there was when it began to read
          missed,  \* missed[p]: the deletions that did not come through
          owed     \* owed[k]: the version the user of k can count on

vars == <<data, cache, menu, pc, op, todo, seen, asked, missed, owed>>

Processes == Users \cup {Worker}

TypeOK ==
  /\ data \in [Keys -> Version]
  /\ cache \in [Keys -> Version \cup {Miss}]
  /\ menu \in Menus
  /\ pc \in [Processes ->
               {"idle", "get", "load", "fill", "told",
                "before", "commit", "after"}]
  /\ op \in [Processes -> menu \cup {Nothing}]
  /\ \A p \in Processes : pc[p] # "idle" => op[p] \in menu /\ op[p].by = p
  /\ todo \in [Processes -> Seq(Keys)]
  /\ seen \in [Processes -> Version \cup {Miss}]
  /\ \A p \in Processes : pc[p] \in {"fill", "told"} => seen[p] \in Version
  /\ asked \in [Processes -> Version]
  /\ missed \in [Processes -> SUBSET Keys]
  /\ owed \in [Keys -> Version]

Init ==
  /\ data = [k \in Keys |-> 0]
  /\ cache = [k \in Keys |-> Miss]
  /\ menu \in Menus
  /\ pc = [p \in Processes |-> "idle"]
  /\ op = [p \in Processes |-> Nothing]
  /\ todo = [p \in Processes |-> <<>>]
  /\ seen = [p \in Processes |-> Miss]
  /\ asked = [p \in Processes |-> 0]
  /\ missed = [p \in Processes |-> {}]
  /\ owed = [k \in Keys |-> 0]

Goto(p, from, to) == pc[p] = from /\ pc' = [pc EXCEPT ![p] = to]

\* p forgets what it was doing.
Rest(p) ==
  /\ pc' = [pc EXCEPT ![p] = "idle"]
  /\ op' = [op EXCEPT ![p] = Nothing]
  /\ todo' = [todo EXCEPT ![p] = <<>>]
  /\ seen' = [seen EXCEPT ![p] = Miss]
  /\ asked' = [asked EXCEPT ![p] = 0]
  /\ missed' = [missed EXCEPT ![p] = {}]

reading == <<seen, asked>>
writing == <<todo, missed>>

-----------------------------------------------------------------------------
(* Reads.                                                                  *)

BeginRead(p, o) ==
  /\ o.by = p /\ o.key # Nothing
  /\ Goto(p, "idle", "get")
  /\ op' = [op EXCEPT ![p] = o]
  /\ asked' = [asked EXCEPT ![p] = data[o.key]]
  /\ UNCHANGED <<data, cache, menu, seen, writing, owed>>

DecodableAlways(k) == TRUE

\* GetTransactionHistory decodes the entry, a JSON array of objects, as bytes,
\* which fails: to it the entry is not there.
Decodable(k) == k[1] # "tx_history"

HitAlways(p) ==
  LET k == op[p].key IN
  /\ Goto(p, "get", "told")
  /\ Decodable(k)
  /\ seen' = [seen EXCEPT ![p] = cache[k]]
  /\ UNCHANGED <<data, cache, menu, op, asked, writing, owed>>

Hit(p) ==
  LET k == op[p].key IN
  /\ Goto(p, "get", "told")
  /\ cache[k] # Miss /\ Decodable(k)
  /\ seen' = [seen EXCEPT ![p] = cache[k]]
  /\ UNCHANGED <<data, cache, menu, op, asked, writing, owed>>

\* Nothing there, or, in Redis, the call failed.
NoHit(p) ==
  LET k == op[p].key IN
  /\ Goto(p, "get", "load")
  /\ cache[k] = Miss \/ ~ Decodable(k) \/ k # Rates
  /\ UNCHANGED <<data, cache, menu, op, reading, writing, owed>>

Load(p) ==
  /\ Goto(p, "load", "fill")
  /\ seen' = [seen EXCEPT ![p] = data[op[p].key]]
  /\ UNCHANGED <<data, cache, menu, op, asked, writing, owed>>

\* The entry is overwritten, or Set fails and its error is dropped.  An error
\* document of the rates provider decodes as no rates and empties the entry.
Fill(p) ==
  LET k == op[p].key IN
  /\ Goto(p, "fill", "told")
  /\ \/ cache' = [cache EXCEPT ![k] = seen[p]]
     \/ k # Rates /\ UNCHANGED cache
     \/ k = Rates /\ cache' = [cache EXCEPT ![k] = Miss]
  /\ UNCHANGED <<data, menu, op, reading, writing, owed>>

-----------------------------------------------------------------------------
(* Writes.                                                                 *)

BeginWrite(p, o) ==
  /\ o.by = p /\ o.key = Nothing
  /\ Goto(p, "idle", "before")
  /\ op' = [op EXCEPT ![p] = o]
  /\ todo' = [todo EXCEPT ![p] = o.before]
  /\ UNCHANGED <<data, cache, menu, reading, missed, owed>>

\* Delete the next entry; the error of a failed call is dropped.
Evict(p) ==
  /\ pc[p] \in {"before", "after"} /\ todo[p] # <<>>
  /\ todo' = [todo EXCEPT ![p] = Tail(@)]
  /\ \/ cache' = [cache EXCEPT ![Head(todo[p])] = Miss] /\ UNCHANGED missed
     \/ missed' = [missed EXCEPT ![p] = @ \cup {Head(todo[p])}] /\ UNCHANGED cache
  /\ UNCHANGED <<data, menu, pc, op, reading, owed>>

Evicted(p) ==
  /\ todo[p] = <<>>
  /\ Goto(p, "before", "commit")
  /\ UNCHANGED <<data, cache, menu, op, reading, writing, owed>>

Changes(o) == [k \in Keys |-> IF k \in o.writes THEN data[k] + 1 ELSE data[k]]

CanChange(o) == \A k \in o.writes : data[k] < MaxChanges

Commit(p) ==
  /\ Goto(p, "commit", "after")
  /\ CanChange(op[p])
  /\ data' = Changes(op[p])
  /\ todo' = [todo EXCEPT ![p] = op[p].after]
  /\ UNCHANGED <<cache, menu, op, reading, missed, owed>>

\* The payment was credited before, or the payout is not known: no error, and
\* nothing changes.
CommitNothing(p) ==
  /\ Goto(p, "commit", "after")
  /\ \E u \in Users : op[p] \in {VerifyAndCredit(u), ChargeSuccess(u),
                              TransferSuccess(u), TransferFailed(u)}
  /\ todo' = [todo EXCEPT ![p] = op[p].after]
  /\ UNCHANGED <<data, cache, menu, op, reading, missed, owed>>

\* The answer "success".  From now on the client counts on its own entries to
\* be as new as the data are, unless a deletion did not come through.
Succeed(p) ==
  /\ pc[p] = "after" /\ todo[p] = <<>>
  /\ owed' = [k \in Keys |->
                IF k \in op[p].writes \ missed[p] /\ k[2] = p
                THEN data[k] ELSE owed[k]]
  /\ Rest(p)
  /\ UNCHANGED <<data, cache, menu>>

\* The commit succeeds but its answer is lost: an error is returned and
\* nothing deleted.
CommitUnnoticed(p) ==
  /\ pc[p] = "commit"
  /\ CanChange(op[p])
  /\ data' = Changes(op[p])
  /\ Rest(p)
  /\ UNCHANGED <<cache, menu, owed>>

-----------------------------------------------------------------------------
(* The surroundings.                                                       *)

\* The client looks at what it was told, and may go on.
Done(p) ==
  /\ pc[p] = "told"
  /\ Rest(p)
  /\ UNCHANGED <<data, cache, menu, owed>>

\* A call fails, or the client gives up and the request's context with it.
Fail(p) ==
  /\ pc[p] \in {"get", "load", "fill", "before", "commit", "after"}
  /\ Rest(p)
  /\ UNCHANGED <<data, cache, menu, owed>>

ExpireOthers(k) ==
  /\ cache[k] # Miss /\ k[1] # "user_profile"
  /\ cache' = [cache EXCEPT ![k] = Miss]
  /\ UNCHANGED <<data, menu, pc, op, reading, writing, owed>>

\* The time to live is over: 5, 10 or 30 minutes, an hour, a day.
Expire(k) ==
  /\ cache[k] # Miss
  /\ cache' = [cache EXCEPT ![k] = Miss]
  /\ UNCHANGED <<data, menu, pc, op, reading, writing, owed>>

\* The process is restarted: the requests die, and with them the rates.
Crash ==
  /\ pc' = [p \in Processes |-> "idle"]
  /\ op' = [p \in Processes |-> Nothing]
  /\ todo' = [p \in Processes |-> <<>>]
  /\ seen' = [p \in Processes |-> Miss]
  /\ asked' = [p \in Processes |-> 0]
  /\ missed' = [p \in Processes |-> {}]
  /\ cache' = [cache EXCEPT ![Rates] = Miss]
  /\ UNCHANGED <<data, menu, owed>>

Step(p) ==
  \/ Hit(p) \/ NoHit(p) \/ Load(p) \/ Fill(p)
  \/ Evict(p) \/ Evicted(p) \/ Commit(p) \/ CommitNothing(p) \/ Succeed(p)
  \/ CommitUnnoticed(p) \/ Done(p) \/ Fail(p)

Next ==
  \/ \E p \in Processes : \/ \E o \in menu : BeginRead(p, o) \/ BeginWrite(p, o)
                          \/ Step(p)
  \/ \E k \in Keys : Expire(k)
  \/ Crash

Spec == Init /\ [][Next]_vars

(***************************************************************************)
(* Fairness: every call returns or fails (the handlers' contexts end after *)
(* 60 seconds), and an entry expires unless it is filled again.            *)
(***************************************************************************)
Refill(k) ==
  \E p \in Processes : /\ pc[p] = "fill" /\ op[p].key = k
                        /\ Fill(p) /\ cache'[k] = seen[p]

FairSpec ==
  /\ Spec
  /\ \A p \in Processes : WF_vars(Step(p))
  /\ \A k \in Keys : WF_vars(Expire(k) \/ Refill(k))

-----------------------------------------------------------------------------
(* Properties.                                                             *)

\* A client that was told that its operation succeeded sees it in everything
\* it reads afterwards, whatever other clients and the worker do to the same
\* entries: the entries the handler deletes are those the operation makes
\* stale.  (FundWallet and VerifyAndCredit leave the history's entry, which
\* no read can use.)
ReadYourWrites ==
  \A p \in Users :
    pc[p] = "told" /\ op[p].key[2] = p => seen[p] >= owed[op[p].key]

\* A transaction history is never older than the request for it, although
\* transfers do not delete the receiver's entry, FundWallet and the verify
\* endpoint delete none, and charge.success deletes it before the credit.
HistoryIsCurrent ==
  \A p \in Users :
    pc[p] = "told" /\ op[p].key[1] = "tx_history" => seen[p] >= asked[p]

\* A stale entry does not outlive its time for good: once the data change no
\* more, every entry ends up, and stays, current or empty, although reads
\* that raced with a commit put old data back.
Converges ==
  \A k \in Keys : <>[](cache[k] \in {Miss, data[k]})
=============================================================================
