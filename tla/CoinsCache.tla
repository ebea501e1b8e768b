----------------------------- MODULE CoinsCache -----------------------------
(***************************************************************************)
(* The coin (UTXO) caches: the coin database on disk, the shared cache     *)
(* CoinsDB in front of it, and one CoinsDBSpan (a private CCoinsViewCache  *)
(* over a read-locked CoinsDBView) per thread that connects or disconnects *)
(* a block.  Sources: coins.h, coins.cpp, txdb.h, txdb.cpp, and the way    *)
(* BlockConnector::Connect, ConnectTip, DisconnectTip, FlushStateToDisk    *)
(* and the transaction validator in validation.cpp and txn_validator.cpp   *)
(* use them.                                                               *)
(*                                                                         *)
(* CoinsDB::mMutex is used through what WPUSMutex promises (ReadWriteLock):*)
(* a thread holds it for reading while its span is attached or its view is *)
(* open, and a write request is granted when nobody else reads.  While a   *)
(* request waits no new reader gets in.                                    *)
(*                                                                         *)
(* A script is one unit long and mCacheSizeThreshold counts scripts; the   *)
(* rest of a coin (amount, height, coinbase) is the value in Coin.         *)
(***************************************************************************)
EXTENDS Naturals, FiniteSets

CONSTANTS
    Outpoint,            \* COutPoint
    Coin,                \* the unspent coins an outpoint can hold
    NoCoin,              \* a spent, or missing, coin
    Hash,                \* block hashes
    Null,                \* uint256(), the null hash
    Unknown,             \* the coin set of a block that was never connected
    Span,                \* the threads; each has at most one span or view
    Nobody,              \* cs_main is free
    mCacheSizeThreshold, \* scripts CoinsDB may cache when it reads from disk
    Starts               \* the situations to explore

ASSUME CoinsCacheAssumption ==
    /\ IsFiniteSet(Outpoint)
    /\ mCacheSizeThreshold \in Nat
    /\ NoCoin \notin Coin
    /\ Null \notin Hash
    /\ Nobody \notin Span
    /\ Unknown \notin Hash \cup {Null}
    /\ Unknown \notin [Outpoint -> Coin \cup {NoCoin}]

(***************************************************************************)
(* A situation has the coins each outpoint may hold, the blocks, and the    *)
(* threads that connect blocks; the others only read.                       *)
(***************************************************************************)
VARIABLES
    start,           \* the situation of this behaviour, fixed
    db,              \* coins on disk, always with their script
    dbBestBlock,     \* DB_BEST_BLOCK
    mCache,          \* CoinsDB::mCache
    hashBlock,       \* CoinsDB::hashBlock, read lazily
    mFetchingCoins,  \* outpoints some thread is reading from disk
    csMain,          \* owner of cs_main
    stage,           \* of a thread's span or view
    sCache,          \* CCoinsViewCache::mCache of a thread's span
    sHash,           \* CCoinsViewCache::hashBlock of a thread's span
    fetch,           \* a CoinsDB::GetCoin call that is past its first look
    pending,         \* write requests waiting for mMutex
    utxoAt           \* history: the coin set each connected block stands for

dbVars == <<db, dbBestBlock, mCache, hashBlock, mFetchingCoins>>
spanVars == <<stage, sCache, sHash, fetch>>
vars == <<start, dbVars, csMain, spanVars, pending, utxoAt>>

(***************************************************************************)
(* Cache entries.  kind says what a CoinImpl holds: "full" owns coin and   *)
(* script, "stub" owns the coin without its script, "ref" is a non-owning  *)
(* handle to the coin in CoinsDB::mCache, "none" marks a missing entry.    *)
(***************************************************************************)
Coins == [Outpoint -> Coin \cup {NoCoin}]
NoCoins == [o \in Outpoint |-> NoCoin]
Flag == {"DIRTY", "FRESH"}
Entry == [coin : Coin \cup {NoCoin}, kind : {"none", "ref", "stub", "full"},
          flags : SUBSET Flag]
MkEntry(c, k, f) == [coin |-> c, kind |-> k, flags |-> f]
Absent == MkEntry(NoCoin, "none", {})
EmptyCache == [o \in Outpoint |-> Absent]

Present(e) == e.kind # "none"
IsSpent(e) == e.coin = NoCoin
HasScript(e) == e.kind \in {"ref", "full"}
Dirty(e) == "DIRTY" \in e.flags
Fresh(e) == "FRESH" \in e.flags

\* What a reader of a cache over a coin set sees.
Over(cache, coins) ==
    [o \in Outpoint |-> IF Present(cache[o]) THEN cache[o].coin ELSE coins[o]]

\* The coin set CoinsDB shows to its readers, and its best block.
Committed == Over(mCache, db)
GetBestBlock == IF hashBlock = Null THEN dbBestBlock ELSE hashBlock

\* Scripts held by CoinsDB::mCache (DynamicMemoryUsage).
Scripts(cache) == {o \in Outpoint : cache[o].kind = "full" /\ ~IsSpent(cache[o])}
Usage(cache) == Cardinality(Scripts(cache))

\* Mutant of hasSpaceForScript: the new script is not counted.
hasSpaceForScriptOffByOne == mCacheSizeThreshold >= Usage(mCache)

\* A script read from disk fits under the threshold.
hasSpaceForScript == mCacheSizeThreshold >= Usage(mCache) + 1

NoFetch == [step |-> "none", o |-> Null, had |-> "absent", load |-> "bare", coin |-> NoCoin]

Attached(s) == stage[s] \in {"attached", "reattached"}
ReadLocked(s) == Attached(s) \/ stage[s] = "view"
Fetching(s) == fetch[s].step # "none"
WritePending == \E t \in Span : pending[t] # "none"

\* What the owner of an attached span sees.
View(s) == Over(sCache[s], Committed)

(***************************************************************************)
(* A node starts on an empty coin database or on one a previous run left.  *)
(***************************************************************************)
Init ==
    /\ start \in Starts
    /\ dbBestBlock \in start.hashes \cup {Null}
    /\ db \in Coins /\ \A o \in Outpoint : db[o] \in start.coins[o] \cup {NoCoin}
    /\ dbBestBlock = Null => db = NoCoins
    /\ mCache = EmptyCache
    /\ hashBlock = Null
    /\ mFetchingCoins = {}
    /\ csMain = Nobody
    /\ stage = [s \in Span |-> "none"]
    /\ sCache = [s \in Span |-> EmptyCache]
    /\ sHash = [s \in Span |-> Null]
    /\ fetch = [s \in Span |-> NoFetch]
    /\ pending = [s \in Span |-> "none"]
    /\ utxoAt = [h \in Hash \cup {Null} |->
                    IF h = dbBestBlock THEN db ELSE IF h = Null THEN NoCoins ELSE Unknown]

(***************************************************************************)
(* cs_main.  A thread that validates a block in parallel leaves it with    *)
(* its span attached, and detaches before it comes back for it.            *)
(***************************************************************************)
EnterMain(s) ==
    /\ csMain = Nobody /\ s \in start.connecting
    /\ stage[s] \in {"none", "detached"}
    /\ csMain' = s
    /\ UNCHANGED <<start, dbVars, spanVars, pending, utxoAt>>

LeaveMain(s) ==
    /\ csMain = s
    /\ stage[s] \in {"none", "attached"}
    /\ pending[s] = "none" /\ ~Fetching(s)
    /\ csMain' = Nobody
    /\ UNCHANGED <<start, dbVars, spanVars, pending, utxoAt>>

(***************************************************************************)
(* A span is constructed under cs_main; a read-only CoinsDBView need not   *)
(* be.  Both take the read lock, which a waiting writer keeps closed.      *)
(***************************************************************************)
OpenSpan(s) ==
    /\ csMain = s
    /\ stage[s] = "none"
    /\ ~WritePending
    /\ stage' = [stage EXCEPT ![s] = "attached"]
    /\ UNCHANGED <<start, dbVars, csMain, sCache, sHash, fetch, pending, utxoAt>>

OpenView(s) ==
    /\ csMain # s
    /\ stage[s] = "none"
    /\ ~WritePending
    /\ stage' = [stage EXCEPT ![s] = "view"]
    /\ UNCHANGED <<start, dbVars, csMain, sCache, sHash, fetch, pending, utxoAt>>

CloseView(s) ==
    /\ stage[s] = "view"
    /\ ~Fetching(s)
    /\ stage' = [stage EXCEPT ![s] = "none"]
    /\ UNCHANGED <<start, dbVars, csMain, sCache, sHash, fetch, pending, utxoAt>>

\* The span goes out of scope without a flush: its changes are forgotten.
Destroyed(s) ==
    /\ stage' = [stage EXCEPT ![s] = "none"]
    /\ sCache' = [sCache EXCEPT ![s] = EmptyCache]
    /\ sHash' = [sHash EXCEPT ![s] = Null]

CloseSpan(s) ==
    /\ csMain = s
    /\ stage[s] \in {"attached", "detached", "reattached"}
    /\ pending[s] = "none" /\ ~Fetching(s)
    /\ Destroyed(s)
    /\ UNCHANGED <<start, dbVars, csMain, fetch, pending, utxoAt>>

(***************************************************************************)
(* CCoinsViewCache::GetCoin over CoinsDB::GetCoin.  The span looks into    *)
(* its own cache first; only a coin it does not hold, or holds without the *)
(* script it needs, is asked of CoinsDB.                                   *)
(***************************************************************************)
AsksCoinsDB(s, o, requiresScript) ==
    LET e == sCache[s][o] IN
    ~Present(e) \/ (~IsSpent(e) /\ ~HasScript(e) /\ requiresScript)

\* The span remembers a coin it got: a handle to CoinsDB's coin, or a stub.
Remember(s, o, c, kind) ==
    sCache' = IF stage[s] = "view" \/ Present(sCache[s][o]) THEN sCache
              ELSE [sCache EXCEPT ![s][o] = MkEntry(c, kind, {})]

CanRead(s) == stage[s] \in {"attached", "view"} /\ ~Fetching(s) /\ pending[s] = "none"

\* The first look finds a usable coin in CoinsDB::mCache.
GetCoinFromCache(s, o, requiresScript) ==
    LET e == mCache[o] IN
    /\ CanRead(s)
    /\ AsksCoinsDB(s, o, requiresScript)
    /\ Present(e) /\ ~IsSpent(e)
    /\ HasScript(e) \/ ~requiresScript
    /\ Remember(s, o, e.coin, IF HasScript(e) THEN "ref" ELSE "stub")
    /\ UNCHANGED <<start, dbVars, csMain, stage, sHash, fetch, pending, utxoAt>>

\* The first look finds nothing usable and nobody is reading the coin: this
\* thread will, outside mCoinsViewCacheMtx.  The script is loaded when it is
\* asked for or when it would fit the cache as it is now.
FetchStart(s, o, requiresScript) ==
    LET e == mCache[o] IN
    /\ CanRead(s)
    /\ AsksCoinsDB(s, o, requiresScript)
    /\ ~Present(e) \/ (~IsSpent(e) /\ ~HasScript(e) /\ requiresScript)
    /\ o \notin mFetchingCoins
    /\ mFetchingCoins' = mFetchingCoins \cup {o}
    /\ fetch' = [fetch EXCEPT ![s] =
                    [step |-> "reading", o |-> o,
                     had  |-> IF Present(e) THEN "stub" ELSE "absent",
                     load |-> IF requiresScript \/ mCacheSizeThreshold > Usage(mCache)
                              THEN "script" ELSE "bare",
                     coin |-> NoCoin]]
    /\ UNCHANGED <<start, db, dbBestBlock, mCache, hashBlock, csMain, stage, sCache, sHash,
                   pending, utxoAt>>

DBGetCoin(s) ==
    /\ fetch[s].step = "reading"
    /\ fetch' = [fetch EXCEPT ![s].step = "read", ![s].coin = db[fetch[s].o]]
    /\ UNCHANGED <<start, dbVars, csMain, stage, sCache, sHash, pending, utxoAt>>

\* The coin is put into CoinsDB::mCache, under mCoinsViewCacheMtx again: with
\* its script when there is still room (the reader then gets a handle to it),
\* as a stub otherwise (the reader then owns what it gets).
FetchedInto(f) ==
    IF f.coin = NoCoin THEN mCache
    ELSE IF f.had = "stub"
    THEN IF hasSpaceForScript THEN [mCache EXCEPT ![f.o].coin = f.coin, ![f.o].kind = "full"]
         ELSE mCache
    ELSE [mCache EXCEPT ![f.o] =
             MkEntry(f.coin,
                     IF hasSpaceForScript /\ f.load = "script" THEN "full" ELSE "stub", {})]

FetchFinish(s) ==
    LET f == fetch[s] IN
    /\ f.step = "read"
    /\ mFetchingCoins' = mFetchingCoins \ {f.o}
    /\ mCache' = FetchedInto(f)
    /\ IF f.coin = NoCoin THEN UNCHANGED sCache
       ELSE Remember(s, f.o, f.coin, IF hasSpaceForScript THEN "ref" ELSE "stub")
    /\ fetch' = [fetch EXCEPT ![s] = NoFetch]
    /\ UNCHANGED <<start, db, dbBestBlock, hashBlock, csMain, stage, sHash, pending, utxoAt>>

(***************************************************************************)
(* Changes made through an attached span.  A caller adds a coin without    *)
(* possible_overwrite only where it knows that none exists (transaction    *)
(* identifiers are unique, which Connect checks); SpendCoin acts on a coin *)
(* GetCoin has brought into the span's cache.                              *)
(***************************************************************************)
CanModify(s) == stage[s] = "attached" /\ ~Fetching(s) /\ pending[s] = "none"

AddedFlags(e, possible_overwrite) ==
    e.flags \cup {"DIRTY"}
            \cup (IF ~possible_overwrite /\ ~Dirty(e) THEN {"FRESH"} ELSE {})

AddCoin(s, o, c, possible_overwrite) ==
    LET e == sCache[s][o] IN
    /\ CanModify(s)
    /\ ~possible_overwrite => View(s)[o] = NoCoin
    /\ sCache' = [sCache EXCEPT ![s][o] = MkEntry(c, "full", AddedFlags(e, possible_overwrite))]
    /\ UNCHANGED <<start, dbVars, csMain, stage, sHash, fetch, pending, utxoAt>>

SpentEntry(e) ==
    IF Fresh(e) THEN Absent ELSE MkEntry(NoCoin, "full", e.flags \cup {"DIRTY"})

SpendCoin(s, o) ==
    /\ CanModify(s)
    /\ Present(sCache[s][o])
    /\ sCache' = [sCache EXCEPT ![s][o] = SpentEntry(@)]
    /\ UNCHANGED <<start, dbVars, csMain, stage, sHash, fetch, pending, utxoAt>>

(***************************************************************************)
(* ForceDetach gives the read lock back and remembers the best block;      *)
(* TryReattach takes it again and succeeds when that is still the best     *)
(* block, otherwise the block connection is cancelled.                     *)
(***************************************************************************)
\* Mutant of ForceDetach: the read lock is given back only under cs_main.
ForceDetachUnderMain(s) ==
    /\ csMain = s
    /\ stage[s] = "attached"
    /\ ~Fetching(s) /\ pending[s] = "none"
    /\ stage' = [stage EXCEPT ![s] = "detached"]
    /\ sHash' = [sHash EXCEPT ![s] = GetBestBlock]
    /\ hashBlock' = GetBestBlock
    /\ UNCHANGED <<start, db, dbBestBlock, mCache, mFetchingCoins, csMain, sCache, fetch,
                   pending, utxoAt>>

ForceDetach(s) ==
    /\ csMain # s
    /\ stage[s] = "attached"
    /\ ~Fetching(s)
    /\ stage' = [stage EXCEPT ![s] = "detached"]
    /\ sHash' = [sHash EXCEPT ![s] = GetBestBlock]
    /\ hashBlock' = GetBestBlock
    /\ UNCHANGED <<start, db, dbBestBlock, mCache, mFetchingCoins, csMain, sCache, fetch,
                   pending, utxoAt>>

TryReattach(s) ==
    /\ csMain = s
    /\ stage[s] = "detached"
    /\ ~WritePending
    /\ hashBlock' = GetBestBlock
    /\ IF GetBestBlock = sHash[s]
       THEN /\ stage' = [stage EXCEPT ![s] = "reattached"]
            /\ UNCHANGED <<sCache, sHash>>
       ELSE Destroyed(s)
    /\ UNCHANGED <<start, db, dbBestBlock, mCache, mFetchingCoins, csMain, fetch, pending, utxoAt>>

(***************************************************************************)
(* Writers.  All of them run under cs_main.  SetBestBlock is followed by   *)
(* TryFlush, which is refused when another writer is already waiting.  The *)
(* coin set of a block is the same whenever the block is the best one.     *)
(***************************************************************************)
TryFlush(s, h) ==
    /\ csMain = s
    /\ Attached(s) /\ ~Fetching(s)
    /\ pending[s] = "none"
    /\ utxoAt[h] \in {Unknown, View(s)}
    /\ sHash' = [sHash EXCEPT ![s] = h]
    /\ pending' = [pending EXCEPT ![s] = "tryflush"]
    /\ UNCHANGED <<start, dbVars, csMain, stage, sCache, fetch, utxoAt>>

\* Mutant of BatchWriteEntry: a spent coin the parent does not know is forgotten.
BatchWriteEntryDropsSpent(child, parent) ==
    IF ~Dirty(child) THEN parent
    ELSE IF ~Present(parent)
    THEN IF IsSpent(child) THEN Absent ELSE child
    ELSE IF Fresh(parent) /\ IsSpent(child) THEN Absent
    ELSE MkEntry(child.coin, child.kind, parent.flags \cup {"DIRTY"})

\* CoinsStore::BatchWrite, for one outpoint: the child's entry moves into the
\* parent's cache.
BatchWriteEntry(child, parent) ==
    IF ~Dirty(child) THEN parent
    ELSE IF ~Present(parent)
    THEN IF Fresh(child) /\ IsSpent(child) THEN Absent ELSE child
    ELSE IF Fresh(parent) /\ IsSpent(child) THEN Absent
    ELSE MkEntry(child.coin, child.kind, parent.flags \cup {"DIRTY"})

WriteGranted(s, op) ==
    /\ pending[s] = op
    /\ \A t \in Span \ {s} : ~ReadLocked(t)
    /\ pending' = [pending EXCEPT ![s] = "none"]

BatchWrite(s) ==
    /\ WriteGranted(s, "tryflush")
    /\ mCache' = [o \in Outpoint |-> BatchWriteEntry(sCache[s][o], mCache[o])]
    /\ hashBlock' = sHash[s]
    /\ utxoAt' = [utxoAt EXCEPT ![sHash[s]] = View(s)]
    /\ Destroyed(s)
    /\ UNCHANGED <<start, db, dbBestBlock, mFetchingCoins, csMain, fetch>>

\* Mutant of RequestWrite: a writer does not take cs_main.
RequestWriteWithoutMain(s, op) ==
    /\ stage[s] = "none"
    /\ pending[s] = "none"
    /\ pending' = [pending EXCEPT ![s] = op]
    /\ UNCHANGED <<start, dbVars, csMain, spanVars, utxoAt>>

RequestWrite(s, op) ==
    /\ csMain = s
    /\ stage[s] = "none"
    /\ pending[s] = "none"
    /\ pending' = [pending EXCEPT ![s] = op]
    /\ UNCHANGED <<start, dbVars, csMain, spanVars, utxoAt>>

\* CoinsDB::Flush and DBBatchWrite: dirty entries go to disk and the cache is
\* emptied; nothing is done before a best block is known.
Flush(s) ==
    /\ WriteGranted(s, "flush")
    /\ IF hashBlock = Null THEN UNCHANGED <<db, dbBestBlock, mCache>>
       ELSE /\ db' = [o \in Outpoint |->
                         IF Dirty(mCache[o]) THEN mCache[o].coin ELSE db[o]]
            /\ dbBestBlock' = hashBlock
            /\ mCache' = EmptyCache
    /\ UNCHANGED <<start, hashBlock, mFetchingCoins, csMain, spanVars, utxoAt>>

\* Mutant of Uncache: changed entries are evicted too.
UncacheDirty(s, o) ==
    /\ WriteGranted(s, "uncache")
    /\ mCache' = [mCache EXCEPT ![o] = Absent]
    /\ UNCHANGED <<start, db, dbBestBlock, hashBlock, mFetchingCoins, csMain, spanVars, utxoAt>>

\* CoinsDB::Uncache: an unchanged entry is evicted.
Uncache(s, o) ==
    /\ WriteGranted(s, "uncache")
    /\ mCache' = IF mCache[o].flags = {} THEN [mCache EXCEPT ![o] = Absent] ELSE mCache
    /\ UNCHANGED <<start, db, dbBestBlock, hashBlock, mFetchingCoins, csMain, spanVars, utxoAt>>

\* Outpoints that may hold a coin.
Used == {o \in Outpoint : start.coins[o] # {}}

Fetch(s) ==
    \/ \E o \in Used, requiresScript \in BOOLEAN :
          GetCoinFromCache(s, o, requiresScript) \/ FetchStart(s, o, requiresScript)
    \/ DBGetCoin(s)
    \/ FetchFinish(s)

Write(s) == BatchWrite(s) \/ Flush(s) \/ \E o \in Used : Uncache(s, o)

Next ==
    \E s \in Span :
        \/ EnterMain(s) \/ LeaveMain(s)
        \/ OpenSpan(s) \/ CloseSpan(s) \/ OpenView(s) \/ CloseView(s)
        \/ Fetch(s)
        \/ \E o \in Used, ow \in BOOLEAN :
              \E c \in start.coins[o] : AddCoin(s, o, c, ow)
        \/ \E o \in Used : SpendCoin(s, o)
        \/ ForceDetach(s) \/ TryReattach(s)
        \/ \E h \in start.hashes : TryFlush(s, h)
        \/ \E op \in {"flush", "uncache"} : RequestWrite(s, op)
        \/ Write(s)

Spec == Init /\ [][Next]_vars

(***************************************************************************)
(* Scheduling: a thread that is reading a coin finishes, a granted write   *)
(* happens, a reader eventually closes its view, and a validation that     *)
(* left cs_main comes to its ForceDetach, because a block has finitely     *)
(* many transactions, however often it stops to read a coin.  Nothing is   *)
(* assumed about who gets cs_main.                                         *)
(***************************************************************************)
Fairness ==
    \A s \in Span :
        /\ WF_vars(DBGetCoin(s)) /\ WF_vars(FetchFinish(s))
        /\ WF_vars(Write(s))
        /\ SF_vars(CloseView(s)) /\ SF_vars(ForceDetach(s))

FairSpec == Spec /\ Fairness

\* Every variable has its type: cache entries are well formed at both levels,
\* and a call of GetCoin in progress is in one of its two waits.
TypeOK ==
    /\ db \in Coins
    /\ dbBestBlock \in Hash \cup {Null}
    /\ mCache \in [Outpoint -> Entry]
    /\ hashBlock \in Hash \cup {Null}
    /\ mFetchingCoins \subseteq Outpoint
    /\ csMain \in Span \cup {Nobody}
    /\ stage \in [Span -> {"none", "view", "attached", "detached", "reattached"}]
    /\ sCache \in [Span -> [Outpoint -> Entry]]
    /\ sHash \in [Span -> Hash \cup {Null}]
    /\ fetch \in [Span -> [step : {"none", "reading", "read"}, o : Outpoint \cup {Null},
                           had : {"absent", "stub"}, load : {"script", "bare"},
                           coin : Coin \cup {NoCoin}]]
    /\ pending \in [Span -> {"none", "tryflush", "flush", "uncache"}]
    /\ utxoAt \in [Hash \cup {Null} -> Coins \cup {Unknown}]

HandlesValid(s) ==
    \A o \in Outpoint : sCache[s][o].kind = "ref" =>
        /\ mCache[o].kind = "full"
        /\ mCache[o].coin = sCache[s][o].coin
        /\ ~IsSpent(mCache[o])

\* The handles a span got from GetCoin stay good while it is attached: the
\* CoinsDB entry each points to is there, with its script, and holds that
\* coin, whatever evictions, flushes, script loads and commits other threads
\* perform (CoinsDB::mMutex, txdb.h).
HandlesStayValid == \A s \in Span : stage[s] = "attached" => HandlesValid(s)

\* An entry without DIRTY equals what the layer below holds, at both levels,
\* also after a detached span is attached again.
CleanEntriesCurrent ==
    /\ \A o \in Outpoint : Present(mCache[o]) /\ ~Dirty(mCache[o]) => mCache[o].coin = db[o]
    /\ \A s \in Span, o \in Outpoint :
          Attached(s) /\ Present(sCache[s][o]) /\ ~Dirty(sCache[s][o])
              => sCache[s][o].coin = Committed[o]

\* FRESH is never misapplied: the layer below has no unspent coin, so that
\* dropping a FRESH spent entry loses no deletion and BatchWrite never throws
\* "FRESH flag misapplied".
FreshNeverMisapplied ==
    /\ \A o \in Outpoint : Fresh(mCache[o]) => db[o] = NoCoin
    /\ \A s \in Span, o \in Outpoint :
          Attached(s) /\ Fresh(sCache[s][o]) => Committed[o] = NoCoin

\* Every DIRTY entry owns its coin and, when unspent, its script: DBBatchWrite
\* asserts it before it writes the coin to disk, and BatchWrite may move the
\* entry to a cache that outlives the span.
DirtyEntriesOwnTheirCoin ==
    \A o \in Outpoint :
        /\ Dirty(mCache[o]) => mCache[o].kind = "full"
        /\ \A s \in Span : Dirty(sCache[s][o]) => sCache[s][o].kind = "full"

\* A coin read from disk outside mCoinsViewCacheMtx is still right when it is
\* put into the cache: one thread reads an outpoint, the entry is as the first
\* look found it, the coin read is the one on disk, and a coin that was read
\* without its script finds no room for one (GetCoin's and AddCoin's asserts).
FetchStillRight ==
    \A s \in Span : Fetching(s) =>
        LET f == fetch[s] IN
        /\ ReadLocked(s)
        /\ \A t \in Span \ {s} : fetch[t].o # f.o
        /\ mCache[f.o].kind = IF f.had = "stub" THEN "stub" ELSE "none"
        /\ f.had = "stub" => f.load = "script" /\ db[f.o] # NoCoin
        /\ f.step = "read" => f.coin = db[f.o]
        /\ f.load = "bare" => ~hasSpaceForScript

\* The two cache levels and the disk agree: clean entries, FRESH flags, handles,
\* coins that are being read and coins that will be written.
CachesCoherent ==
    /\ TypeOK
    /\ HandlesStayValid
    /\ CleanEntriesCurrent
    /\ FreshNeverMisapplied
    /\ DirtyEntriesOwnTheirCoin
    /\ FetchStillRight

\* The coins seen through the cache, and those on disk, are those of the best
\* block each claims to be at.
CoinsMatchBestBlock ==
    /\ Committed = utxoAt[GetBestBlock]
    /\ db = utxoAt[dbBestBlock]

\* TryFlush is never refused: "cs_main is used to synchronize the different
\* threads that Flush() or TryFlush() data" (asserted in ConnectTip).
TryFlushNeverRefused ==
    \A s, t \in Span : pending[s] # "none" /\ pending[t] # "none" => s = t

\* A writer that waits under cs_main gets the lock: no thread that holds the
\* read lock ever waits for cs_main.
WritersGetIn == \A s \in Span : (pending[s] # "none") ~> (pending[s] = "none")

\* The caches implement one coin set with snapshots and atomic commits: reads
\* of a span, evictions and flushes to disk change nothing a thread can see.
BaseOf(s) == IF stage[s] \in {"none", "view"} THEN Unknown
             ELSE IF Attached(s) THEN GetBestBlock ELSE sHash[s]
ViewOf(s) == IF stage[s] \in {"none", "view"} THEN NoCoins
             ELSE Over(sCache[s], utxoAt[BaseOf(s)])

Utxo == INSTANCE UtxoSet WITH
    tip <- GetBestBlock,
    base <- [s \in Span |-> BaseOf(s)],
    view <- [s \in Span |-> ViewOf(s)]

\* CoinsDB and its spans together implement one coin set with snapshots and
\* atomic commits: caches, flags, flushes and evictions cannot be observed.
ImplementsUtxoSet == Utxo!Spec
=============================================================================
