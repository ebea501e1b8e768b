--------------------------- MODULE BlockDownload ---------------------------
(* Downloading blocks from peers: net/block_download_tracker.{h,cpp} and the
   handlers of net/net_processing.cpp that drive it.

   Three threads meet in the tracker. The message thread runs the handlers of
   the peers' messages and SendMessages, one at a time. The socket thread
   finalizes the nodes that were disconnected. An activation connects blocks
   and reports each one through BlockChecked, which visits the senders of the
   block one by one and releases the tracker's mutex in between. cs_main is
   held by an activation while it reports (checked # None), by SendMessages, by
   the finalization of a node and by parts of the handlers; the rest of the
   handlers holds the mutex of one CNodeState only and runs between the visits.

   The blocks form one chain, a block is its height; genesis is 0 and is in the
   active chain. Times are abstracted to the outcome of the comparisons made
   with them. The node has left initial block download. *)
EXTENDS Integers, Sequences, FiniteSets, SequencesExt, FiniteSetsExt

CONSTANTS
    Peers,          \* node ids; an id is never used twice
    Height,         \* the blocks are 1..Height
    BLOCK_DOWNLOAD_WINDOW,
    MAX_BLOCKS_IN_TRANSIT_PER_PEER,
    MaxAnnouncing,      \* 3 in the code
    Starts,         \* the situations to start from
    None

Blocks == 1..Height

(* A situation: the peers that will connect, those of them that answer what they
   are asked in time (honest), the headers known, the blocks 1..stored that are on
   disk and not connected yet (a restart), the deliveries recorded of a block
   before it is no longer delivered unasked (a bound), whether peers send compact
   blocks (fProvidesHeaderAndIDs), the setting
   GetBlockDownloadMaxParallelFetch, and what the validation of each block finds:
   "ok", CheckBlock fails ("check"), ConnectBlock fails ("connect"), or "none"
   where the chain has no block. *)

ASSUME BlockDownloadAssumption ==
    /\ Height \in Nat \ {0}
    /\ BLOCK_DOWNLOAD_WINDOW \in Nat \ {0}
    /\ MAX_BLOCKS_IN_TRANSIT_PER_PEER \in Nat \ {0}
    /\ MaxAnnouncing \in Nat \ {0}
    /\ Starts \subseteq [peers : SUBSET Peers, honest : SUBSET Peers, headers : 0..Height,
                         stored : 0..Height, unasked : Nat, compact : BOOLEAN, parallel : Nat \ {0},
                         verdict : [Blocks -> {"ok", "check", "connect", "none"}]]
    /\ \A s \in Starts : s.stored <= s.headers
    /\ None \notin Peers

VARIABLES
    link,       \* peer -> "new", "up", "closing" (out of vNodes), "gone"
    nodeState,  \* peer -> its CNodeState
    mMapBlocksInFlight,     \* block -> the peers it is in flight from, oldest first
    mMapBlockSender,        \* block -> peer -> punish, of its deliveries not yet checked
    mPeersWithValidatedDownloadsCount,
    mNodesAnnouncingHeaderAndIDs,
    bestHeader, \* the headers 1..bestHeader are in mapBlockIndex
    chainTip,   \* the height of chainActive
    status,     \* block -> "header", "data", "failed"
    getdata,    \* block -> peers asked for it outside the tracker, not yet answered
    msg,        \* what the message thread is in the middle of, or None
    checked,    \* the BlockChecked notification in progress, or None
    start,      \* the situation this behaviour started from
    sentBad     \* history: the connected peers that sent a bad block in full

inflight == <<mMapBlocksInFlight, mPeersWithValidatedDownloadsCount>>
chain == <<chainTip, status>>
vars == <<link, nodeState, mMapBlocksInFlight, mMapBlockSender,
          mPeersWithValidatedDownloadsCount, mNodesAnnouncingHeaderAndIDs,
          bestHeader, chainTip, status, getdata, msg, checked, start, sentBad>>

----------------------------------------------------------------------------
(* CNodeState: the part block download uses. fShouldBan tells the ban for an
   invalid block from the ban for a malformed compact block. *)

NewNodeState ==
    [vBlocksInFlight |-> {}, nBlocksInFlight |-> 0,
     nBlocksInFlightValidHeaders |-> 0, stalling |-> FALSE, tooBusy |-> FALSE,
     best |-> 0, lastUnknown |-> 0, lastCommon |-> -1, fShouldBan |-> "no"]

Verdict(b) == start.verdict[b]

BlocksOf(n) == {e.hash : e \in n.vBlocksInFlight}

HasState(p) == link[p] \in {"up", "closing"}

csMainFree == checked = None

\* The tracker and the node states, as one value the calls of a handler pass on.
Tracker == [inFlight |-> mMapBlocksInFlight, node |-> nodeState,
            count |-> mPeersWithValidatedDownloadsCount]

\* Bound by \E, so that TLC evaluates the tracker once.
SetTracker(tracker) ==
    \E T \in {tracker} :
        /\ mMapBlocksInFlight' = T.inFlight
        /\ nodeState' = T.node
        /\ mPeersWithValidatedDownloadsCount' = T.count

IsInFlightFrom(T, b, p) == p \in ToSet(T.inFlight[b])

MarkBlockAsInFlight(T, b, p, partial) ==
    IF IsInFlightFrom(T, b, p) THEN T
    ELSE [T EXCEPT
            !.inFlight[b] = Append(@, p),
            !.node[p].vBlocksInFlight = @ \cup {[hash |-> b, partial |-> partial]},
            !.node[p].nBlocksInFlight = @ + 1,
            !.node[p].nBlocksInFlightValidHeaders = @ + 1,
            !.count = IF T.node[p].nBlocksInFlightValidHeaders = 0 THEN @ + 1 ELSE @]

removeFromBlockMapNL(T, b, p) ==
    IF ~IsInFlightFrom(T, b, p) THEN T
    ELSE [T EXCEPT
            !.inFlight[b] = SelectSeq(@, LAMBDA q: q # p),
            !.node[p].vBlocksInFlight = {e \in @ : e.hash # b},
            !.node[p].nBlocksInFlight = @ - 1,
            !.node[p].nBlocksInFlightValidHeaders = @ - 1,
            !.node[p].stalling = FALSE,
            !.count = IF T.node[p].nBlocksInFlightValidHeaders = 1 THEN @ - 1 ELSE @]

\* Mutant: every sender is to be punished, however it sent the block.
MarkBlockAsReceivedPunish(b, p, punish) ==
    /\ mMapBlockSender' =
         [mMapBlockSender EXCEPT ![b][p] = Append(@, TRUE)]
    /\ SetTracker(removeFromBlockMapNL(Tracker, b, p))

\* The sender is recorded whether or not the block was asked for.
MarkBlockAsReceived(b, p, punish) ==
    /\ mMapBlockSender' =
         [mMapBlockSender EXCEPT ![b][p] = Append(@, punish)]
    /\ SetTracker(removeFromBlockMapNL(Tracker, b, p))

----------------------------------------------------------------------------
(* What a peer is known to have. *)

ProcessBlockAvailability(n, known) ==
    IF n.lastUnknown \in 1..known
    THEN [n EXCEPT !.best = Max({@, n.lastUnknown}), !.lastUnknown = 0]
    ELSE n

UpdateBlockAvailability(n, b, known) ==
    LET m == ProcessBlockAvailability(n, known)
    IN  IF b <= known THEN [m EXCEPT !.best = Max({@, b})]
                      ELSE [m EXCEPT !.lastUnknown = b]

\* AcceptBlockHeader for the headers first+1..b: none is known to be invalid, and
\* a new one does not build on a block that is.
HeadersAcceptable(first, b) ==
    /\ \A a \in (first + 1)..b : status[a] # "failed"
    /\ first \in Blocks /\ first = bestHeader => status[first] # "failed"

\* GetChainTx() # 0: the block and all its ancestors have their data.
HasChainTx(b) == \A a \in 1..b : status[a] = "data"

\* The walk of FindNextBlocksToDownload over the successors of the last common
\* block. slow: the peers whose downloads have aged and that send next to
\* nothing; a peer that left vNodes does not count as a staller.
FetchBlock(acc, b, p, count, windowEnd) ==
    IF b > windowEnd
    THEN [acc EXCEPT !.stop = TRUE,
            !.staller = IF acc.blocks = <<>> /\ acc.waitingfor # p
                        THEN acc.waitingfor ELSE @]
    ELSE [acc EXCEPT !.blocks = Append(@, b), !.stop = Len(acc.blocks) + 1 = count]

\* Mutant: one download more than the limit.
AskAnotherPeerOffByOne(b, p, slow) ==
    LET sources == ToSet(mMapBlocksInFlight[b])
    IN  /\ sources \subseteq slow
        /\ Cardinality({q \in sources : link[q] = "up"}) <= start.parallel
        /\ p \notin sources

AskAnotherPeer(b, p, slow) ==
    LET sources == ToSet(mMapBlocksInFlight[b])
    IN  /\ sources \subseteq slow
        /\ Cardinality({q \in sources : link[q] = "up"}) < start.parallel
        /\ p \notin sources

WalkStep(acc, b, p, count, windowEnd, slow) ==
    CASE acc.stop -> acc
      [] ~acc.stop /\ status[b] = "failed" -> [acc EXCEPT !.stop = TRUE]
      [] ~acc.stop /\ status[b] = "data" ->
            [acc EXCEPT !.common = IF HasChainTx(b) THEN b ELSE @]
      [] ~acc.stop /\ status[b] = "header" /\ mMapBlocksInFlight[b] = <<>> ->
            FetchBlock(acc, b, p, count, windowEnd)
      [] ~acc.stop /\ status[b] = "header" /\ mMapBlocksInFlight[b] # <<>> ->
            IF acc.waitingfor # None THEN acc
            ELSE LET w == [acc EXCEPT !.waitingfor = Head(mMapBlocksInFlight[b])]
                 IN  IF AskAnotherPeer(b, p, slow)
                     THEN FetchBlock(w, b, p, count, windowEnd) ELSE w

FindNextBlocksToDownload(n, p, count, slow) ==
    LET guess   == IF n.lastCommon = -1 THEN Min({n.best, chainTip}) ELSE n.lastCommon
        common  == Min({guess, n.best})
        walk    == [common |-> common, blocks |-> <<>>, waitingfor |-> None,
                    staller |-> None, stop |-> FALSE]
        windowEnd == common + BLOCK_DOWNLOAD_WINDOW
        last    == Min({n.best, windowEnd + 1})
    IN  IF n.best = 0 \/ n.best < chainTip
        THEN [walk EXCEPT !.common = n.lastCommon]
        ELSE FoldLeft(LAMBDA acc, b: WalkStep(acc, b, p, count, windowEnd, slow),
                      walk, [i \in 1..(last - common) |-> common + i])

----------------------------------------------------------------------------
Init ==
    /\ start \in Starts
    /\ link = [p \in Peers |-> IF p \in start.peers THEN "new" ELSE "gone"]
    /\ bestHeader = start.headers
    /\ chainTip = 0
    /\ status = [b \in Blocks |-> IF b <= start.stored THEN "data" ELSE "header"]
    /\ nodeState = [p \in Peers |-> NewNodeState]
    /\ mMapBlocksInFlight = [b \in Blocks |-> <<>>]
    /\ mMapBlockSender = [b \in Blocks |-> [p \in Peers |-> <<>>]]
    /\ mPeersWithValidatedDownloadsCount = 0
    /\ mNodesAnnouncingHeaderAndIDs = <<>>
    /\ getdata = [b \in Blocks |-> {}]
    /\ msg = None /\ checked = None
    /\ sentBad = {}

\* The message thread takes up a message of p. An honest peer only relays
\* blocks that are valid.
Handles(p) == msg = None /\ link[p] = "up"

Relayable(b) == \A a \in 1..b : Verdict(a) = "ok"
Relays(p, b) == Verdict(b) # "none" /\ (p \in start.honest => Relayable(b))

\* Bound: a block nobody asked p for is not delivered on top of start.unasked
\* unchecked deliveries of it.
Deliverable(p, b) ==
    \/ IsInFlightFrom(Tracker, b, p) \/ p \in getdata[b]
    \/ SumFunction([q \in Peers |-> Len(mMapBlockSender[b][q])]) < start.unasked

\* ProcessHeadersMessage under cs_main, for headers that connect to the index
\* and end in b: direct fetch of what is missing between the tip and b. The walk
\* back from b gives up on more than MAX_BLOCKS_IN_TRANSIT_PER_PEER + 1 blocks.
DirectFetch(T, p, b) ==
    LET needed == {a \in (chainTip + 1)..b : status[a] = "header" /\ T.inFlight[a] = <<>>}
        room   == MAX_BLOCKS_IN_TRANSIT_PER_PEER - T.node[p].nBlocksInFlight
        wanted == {a \in needed : Cardinality({c \in needed : c < a}) < room}
        direct == \/ Cardinality(needed) <= MAX_BLOCKS_IN_TRANSIT_PER_PEER
                  \/ /\ Cardinality(needed) = MAX_BLOCKS_IN_TRANSIT_PER_PEER + 1
                     /\ chainTip + 1 \in needed
    IN  IF direct /\ chainTip <= b /\ status[b] # "failed"
        THEN FoldLeft(LAMBDA U, a: MarkBlockAsInFlight(U, a, p, FALSE),
                      T, SetToSortSeq(wanted, LAMBDA x, y: x < y))
        ELSE T

HeadersConnect(p, b, canDirectFetch) ==
    LET known == Max({bestHeader, b})
        T     == [Tracker EXCEPT !.node[p] = UpdateBlockAvailability(@, b, known)]
    IN  /\ bestHeader' = known
        /\ SetTracker(IF canDirectFetch THEN DirectFetch(T, p, b) ELSE T)

----------------------------------------------------------------------------
(* The life of a node: InitializeNode, disconnection, FinalizeNode. *)

InitializeNode(p) ==
    /\ link[p] = "new"
    /\ link' = [link EXCEPT ![p] = "up"]
    /\ UNCHANGED <<nodeState, inflight, mMapBlockSender, mNodesAnnouncingHeaderAndIDs,
                   bestHeader, chain, msg, checked, start, sentBad, getdata>>

Disconnect(p) ==
    /\ link[p] = "up" /\ p \notin start.honest
    /\ link' = [link EXCEPT ![p] = "closing"]
    /\ UNCHANGED <<nodeState, inflight, mMapBlockSender, mNodesAnnouncingHeaderAndIDs,
                   bestHeader, chain, msg, checked, start, sentBad, getdata>>

\* Mutant: the peer's unchecked deliveries are kept.
ClearPeerKeepsSenders(p) ==
    /\ mMapBlocksInFlight' =
         [b \in Blocks |-> SelectSeq(mMapBlocksInFlight[b], LAMBDA q: q # p)]
    /\ mPeersWithValidatedDownloadsCount' =
         IF nodeState[p].nBlocksInFlightValidHeaders # 0
         THEN mPeersWithValidatedDownloadsCount - 1
         ELSE mPeersWithValidatedDownloadsCount
    /\ UNCHANGED mMapBlockSender

\* ClearPeer; the node's entry of mapNodeState goes with it.
ClearPeer(p) ==
    /\ mMapBlocksInFlight' =
         [b \in Blocks |-> IF b \in BlocksOf(nodeState[p])
                           THEN SelectSeq(mMapBlocksInFlight[b], LAMBDA q: q # p)
                           ELSE mMapBlocksInFlight[b]]
    /\ mPeersWithValidatedDownloadsCount' =
         IF nodeState[p].nBlocksInFlightValidHeaders # 0
         THEN mPeersWithValidatedDownloadsCount - 1
         ELSE mPeersWithValidatedDownloadsCount
    /\ mMapBlockSender' =
         [b \in Blocks |-> [mMapBlockSender[b] EXCEPT ![p] = <<>>]]

\* The socket thread deletes the node once no other thread uses it.
FinalizeNode(p) ==
    /\ link[p] = "closing" /\ csMainFree
    /\ ~(msg # None /\ msg.node = p)
    /\ link' = [link EXCEPT ![p] = "gone"]
    /\ nodeState' = [nodeState EXCEPT ![p] = NewNodeState]
    /\ ClearPeer(p)
    /\ sentBad' = sentBad \ {p}
    /\ getdata' = [b \in Blocks |-> getdata[b] \ {p}]
    /\ UNCHANGED <<mNodesAnnouncingHeaderAndIDs, bestHeader, chain, msg, checked, start>>

----------------------------------------------------------------------------
(* The handlers of the message thread. *)

\* headers: first is the block the first header builds on.
ProcessHeadersMessage(p, first, b, canDirectFetch) ==
    /\ Handles(p) /\ csMainFree /\ Relays(p, b)
    /\ \/ /\ first <= bestHeader /\ HeadersAcceptable(first, b)
          /\ HeadersConnect(p, b, canDirectFetch)
       \/ /\ first > bestHeader
          /\ nodeState' = [nodeState EXCEPT ![p] = UpdateBlockAvailability(@, b, bestHeader)]
          /\ UNCHANGED <<bestHeader, inflight>>
    /\ UNCHANGED <<link, mMapBlockSender, mNodesAnnouncingHeaderAndIDs, chain, msg,
                   checked, start, sentBad, getdata>>

\* inv of a block
ProcessInvMessage(p, b) ==
    /\ Handles(p) /\ csMainFree /\ Relays(p, b)
    /\ nodeState' = [nodeState EXCEPT ![p] = UpdateBlockAvailability(@, b, bestHeader)]
    /\ UNCHANGED <<link, inflight, mMapBlockSender, mNodesAnnouncingHeaderAndIDs,
                   bestHeader, chain, msg, checked, start, sentBad, getdata>>

\* A cmpctblock too far ahead is handled as a headers message.
RevertToHeaderProcessing ==
    /\ msg # None /\ msg.step = "headers" /\ csMainFree
    /\ HeadersConnect(msg.node, msg.hash, TRUE)
    /\ msg' = None
    /\ UNCHANGED <<link, mMapBlockSender, mNodesAnnouncingHeaderAndIDs, chain,
                   checked, start, sentBad, getdata>>

\* reject with REJECT_TOOBUSY
PeerTooBusy(p) ==
    /\ Handles(p) /\ p \notin start.honest
    /\ LET T == FoldSet(LAMBDA b, U: removeFromBlockMapNL(U, b, p), Tracker,
                        BlocksOf(nodeState[p]))
       IN  SetTracker([T EXCEPT !.node[p].tooBusy = TRUE])
    /\ UNCHANGED <<link, mMapBlockSender, mNodesAnnouncingHeaderAndIDs, bestHeader,
                   chain, msg, checked, start, sentBad, getdata>>

\* TOOBUSY_RETRY_DELAY has passed: CanSend() holds again.
TooBusyExpires(p) ==
    /\ nodeState[p].tooBusy
    /\ nodeState' = [nodeState EXCEPT ![p].tooBusy = FALSE]
    /\ UNCHANGED <<link, inflight, mMapBlockSender, mNodesAnnouncingHeaderAndIDs,
                   bestHeader, chain, msg, checked, start, sentBad, getdata>>

Process(p, b, force) == [step |-> "process", node |-> p, hash |-> b, force |-> force]

\* block: the sender is to be punished if the block turns out to be invalid.
ProcessBlockMessage(p, b) ==
    /\ Handles(p) /\ Relays(p, b)
    /\ Deliverable(p, b)
    /\ MarkBlockAsReceived(b, p, TRUE)
    /\ msg' = Process(p, b, IsInFlightFrom(Tracker, b, p))
    /\ getdata' = IF IsInFlightFrom(Tracker, b, p) THEN getdata
                  ELSE [getdata EXCEPT ![b] = @ \ {p}]
    /\ sentBad' = IF Relayable(b) THEN sentBad ELSE sentBad \cup {p}
    /\ UNCHANGED <<link, mNodesAnnouncingHeaderAndIDs, bestHeader, chain, checked, start>>

\* blocktxn, as a message or right after a cmpctblock that needs no more
\* transactions; read is the outcome of FillBlock.
HasPartialBlock(p, b) == [hash |-> b, partial |-> TRUE] \in nodeState[p].vBlocksInFlight

ProcessBlockTxnMessage(p, b, read) ==
    /\ \/ Handles(p)
       \/ msg # None /\ msg.step = "blocktxn" /\ msg.node = p /\ msg.hash = b
    /\ HasPartialBlock(p, b)
    /\ \/ /\ read = "invalid" /\ p \notin start.honest
          /\ SetTracker([removeFromBlockMapNL(Tracker, b, p) EXCEPT
                            !.node[p].fShouldBan = "compact"])
          /\ msg' = None
          /\ UNCHANGED mMapBlockSender
       \/ /\ read = "failed"
          /\ msg' = None
          /\ UNCHANGED <<nodeState, inflight, mMapBlockSender>>
       \/ /\ read = "ok"
          /\ MarkBlockAsReceived(b, p, FALSE)
          /\ msg' = Process(p, b, TRUE)
    /\ UNCHANGED <<link, mNodesAnnouncingHeaderAndIDs, bestHeader, chain, checked, start, sentBad, getdata>>

\* cmpctblock; init is the outcome of InitData: the compact block is malformed,
\* collides, lacks transactions of the mempool, or is complete.
CmpctInFlight(p, b, init) ==
    LET T == MarkBlockAsInFlight(Tracker, b, p, FALSE)
        U == [T EXCEPT
                !.node[p].vBlocksInFlight =
                    {e \in @ : e.hash # b} \cup {[hash |-> b, partial |-> TRUE]},
                !.node[p] = UpdateBlockAvailability(@, b, bestHeader')]
    IN  /\ ~HasPartialBlock(p, b)
        /\ SetTracker(IF init = "invalid"
                      THEN [removeFromBlockMapNL(U, b, p) EXCEPT !.node[p].fShouldBan = "compact"]
                      ELSE U)
        /\ msg' = IF init = "complete" THEN [step |-> "blocktxn", node |-> p, hash |-> b]
                                       ELSE None

CmpctNotFetched(p, b) ==
    /\ nodeState' = [nodeState EXCEPT ![p] = UpdateBlockAvailability(@, b, bestHeader')]
    /\ UNCHANGED inflight

\* A block in flight from anyone, for which the mempool is of no use: the sender is
\* asked for it in full. The tracker is not told.
RequestNormally(p, b) ==
    /\ CmpctNotFetched(p, b)
    /\ getdata' = [getdata EXCEPT ![b] = @ \cup {p}]
    /\ msg' = None

ProcessCompactBlockMessage(p, b, init, canDirectFetch) ==
    LET already  == mMapBlocksInFlight[b] # <<>>
        fromPeer == IsInFlightFrom(Tracker, b, p)
        missing  == status[b] = "header"
        better   == b > chainTip
        wanted   == missing /\ better /\ (already \/ canDirectFetch)
        near     == b <= chainTip + 2
        download == \/ ~already /\ nodeState[p].nBlocksInFlight < MAX_BLOCKS_IN_TRANSIT_PER_PEER
                    \/ fromPeer
    IN  /\ Handles(p) /\ csMainFree /\ Relays(p, b) /\ start.compact
        /\ p \in start.honest => init # "invalid"
        /\ b - 1 <= bestHeader /\ HeadersAcceptable(b - 1, b)
        /\ bestHeader' = Max({bestHeader, b})
        /\ \/ /\ wanted /\ near /\ download
              /\ CmpctInFlight(p, b, init) /\ UNCHANGED getdata
           \/ /\ wanted /\ near /\ ~download   \* reconstructed without a round trip
              /\ CmpctNotFetched(p, b) /\ UNCHANGED getdata
              /\ msg' = IF init = "complete" /\ Deliverable(p, b)
                        THEN [step |-> "reconstructed", node |-> p, hash |-> b] ELSE None
           \/ /\ wanted /\ ~near /\ ~already
              /\ CmpctNotFetched(p, b) /\ UNCHANGED getdata
              /\ msg' = [step |-> "headers", node |-> p, hash |-> b]
           \/ /\ missing /\ already /\ (~better \/ ~near)
              /\ RequestNormally(p, b)
           \/ /\ \/ ~missing
                 \/ ~already /\ ~wanted
                 \/ wanted /\ near /\ download /\ HasPartialBlock(p, b)
              /\ CmpctNotFetched(p, b) /\ UNCHANGED getdata
              /\ msg' = None
        /\ UNCHANGED <<link, mMapBlockSender, mNodesAnnouncingHeaderAndIDs, chain,
                       checked, start, sentBad>>

BlockReconstructed ==
    /\ msg # None /\ msg.step = "reconstructed"
    /\ MarkBlockAsReceived(msg.hash, msg.node, FALSE)
    /\ msg' = Process(msg.node, msg.hash, TRUE)
    /\ UNCHANGED <<link, mNodesAnnouncingHeaderAndIDs, bestHeader, chain, checked, start, sentBad, getdata>>

----------------------------------------------------------------------------
(* SendMessages, under cs_main: a ban, a timeout, or the next requests. *)

SendRejectsAndCheckIfBanned(p) ==
    /\ Handles(p) /\ csMainFree
    /\ nodeState[p].fShouldBan # "no"
    /\ nodeState' = [nodeState EXCEPT ![p].fShouldBan = "no"]
    /\ link' = [link EXCEPT ![p] = "closing"]
    /\ UNCHANGED <<inflight, mMapBlockSender, mNodesAnnouncingHeaderAndIDs, bestHeader,
                   chain, msg, checked, start, sentBad, getdata>>

\* Mutant: only a peer that stalls the window is disconnected, not one whose
\* download takes too long.
DetectStallingWindow(p) ==
    /\ Handles(p) /\ csMainFree /\ p \notin start.honest
    /\ nodeState[p].fShouldBan = "no"
    /\ nodeState[p].stalling
    /\ link' = [link EXCEPT ![p] = "closing"]
    /\ UNCHANGED <<nodeState, inflight, mMapBlockSender, mNodesAnnouncingHeaderAndIDs,
                   bestHeader, chain, msg, checked, start, sentBad, getdata>>

\* An honest peer sends its blocks before nStallingSince or nDownloadingSince
\* runs out.
DetectStalling(p) ==
    /\ Handles(p) /\ csMainFree /\ p \notin start.honest
    /\ nodeState[p].fShouldBan = "no"
    /\ nodeState[p].stalling \/ nodeState[p].vBlocksInFlight # {}
    /\ link' = [link EXCEPT ![p] = "closing"]
    /\ UNCHANGED <<nodeState, inflight, mMapBlockSender, mNodesAnnouncingHeaderAndIDs,
                   bestHeader, chain, msg, checked, start, sentBad, getdata>>

SendGetDataBlocks(p, slow) ==
    LET n     == ProcessBlockAvailability(nodeState[p], bestHeader)
        room  == MAX_BLOCKS_IN_TRANSIT_PER_PEER - n.nBlocksInFlight
    IN  /\ Handles(p) /\ csMainFree
        /\ n.fShouldBan = "no" /\ ~n.tooBusy
        /\ room > 0
        /\ UNCHANGED <<link, mMapBlockSender, mNodesAnnouncingHeaderAndIDs, bestHeader,
                       chain, msg, checked, start, sentBad, getdata>>
        /\ \E next \in {FindNextBlocksToDownload(n, p, room, slow)} :
             LET T == FoldLeft(LAMBDA U, b: MarkBlockAsInFlight(U, b, p, FALSE),
                               [Tracker EXCEPT !.node[p] = [n EXCEPT !.lastCommon = next.common]],
                               next.blocks)
             IN  SetTracker(IF T.node[p].nBlocksInFlight = 0 /\ next.staller # None
                            THEN [T EXCEPT !.node[next.staller].stalling = TRUE] ELSE T)

----------------------------------------------------------------------------
(* Accepting, connecting and reporting blocks. *)

\* BlockChecked collects the senders of the block first: how often each sent it.
StartBlockChecked(b, result, by) ==
    checked' = [hash |-> b, result |-> result, by |-> by,
                sources |-> [p \in Peers |-> Len(mMapBlockSender[b][p])]]

\* ProcessNewBlockWithAsyncBestChainActivation, by the message thread. Nothing is
\* reported when the previous block is unknown or invalid. A block that fails
\* CheckBlock is reported and its index entry, if any, left alone. Storing a
\* child of the tip looks up the availability of every node (NewPoWValidBlock).
ProcessNewBlock ==
    LET b        == msg.hash
        prevOk   == b - 1 <= bestHeader /\ ~(b > 1 /\ status[b - 1] = "failed")
        reported == Verdict(b) = "check" \/ status[b] = "failed"
        announce == status[b] = "header" /\ b = chainTip + 1
    IN  /\ msg # None /\ msg.step = "process" /\ csMainFree
        /\ \/ /\ ~prevOk
              /\ msg' = None
              /\ UNCHANGED <<nodeState, bestHeader, status, checked>>
           \/ /\ prevOk /\ reported
              /\ StartBlockChecked(b, IF Verdict(b) = "check" THEN "invalid" ELSE "duplicate",
                                   "message")
              /\ UNCHANGED <<nodeState, bestHeader, status, msg>>
           \/ /\ prevOk /\ ~reported
              /\ bestHeader' = Max({bestHeader, b})
              /\ status' = [status EXCEPT ![b] =
                              IF msg.force \/ b > chainTip THEN "data" ELSE @]
              /\ nodeState' = [p \in Peers |->
                                 IF announce /\ link[p] = "up"
                                 THEN ProcessBlockAvailability(nodeState[p], bestHeader')
                                 ELSE nodeState[p]]
              /\ msg' = None
              /\ UNCHANGED checked
        /\ UNCHANGED <<link, inflight, mMapBlockSender, mNodesAnnouncingHeaderAndIDs,
                       chainTip, start, sentBad, getdata>>

\* ConnectTip, by the activation of the best chain: ConnectBlock and the report.
ConnectTip ==
    /\ csMainFree /\ chainTip < Height /\ status[chainTip + 1] = "data"
    /\ StartBlockChecked(chainTip + 1,
                         IF Verdict(chainTip + 1) = "ok" THEN "valid" ELSE "invalid",
                         "activation")
    /\ UNCHANGED <<link, nodeState, inflight, mMapBlockSender, mNodesAnnouncingHeaderAndIDs,
                   bestHeader, chain, msg, start, sentBad, getdata>>

maybeSetPeerAsAnnouncingHeaderAndIDsNL(p) ==
    LET others == SelectSeq(mNodesAnnouncingHeaderAndIDs, LAMBDA q: q # p)
        known  == p \in ToSet(mNodesAnnouncingHeaderAndIDs)
    IN  mNodesAnnouncingHeaderAndIDs' =
          CASE ~HasState(p) \/ ~start.compact -> mNodesAnnouncingHeaderAndIDs
            [] HasState(p) /\ start.compact /\ known -> Append(others, p)
            [] HasState(p) /\ start.compact /\ ~known /\ link[p] # "up" -> mNodesAnnouncingHeaderAndIDs
            [] HasState(p) /\ start.compact /\ ~known /\ link[p] = "up" ->
                 Append(IF Len(others) >= MaxAnnouncing THEN Tail(others) ELSE others, p)

\* BlockChecked visits a sender, in the order of the map, which is left open here.
\* The condition for announcing asks that the block is still in flight, from
\* another peer, and is the only such block.
OnlyBlockInFlight(b) == {a \in Blocks : mMapBlocksInFlight[a] # <<>>} = {b}

BlockChecked(p) ==
    LET b     == checked.hash
        found == mMapBlockSender[b][p] # <<>>
    IN  /\ checked # None /\ checked.sources[p] > 0
        /\ checked' = [checked EXCEPT !.sources[p] = @ - 1]
        /\ mMapBlockSender' =
             IF found THEN [mMapBlockSender EXCEPT ![b][p] = Tail(@)] ELSE mMapBlockSender
        /\ nodeState' =
             IF found /\ checked.result = "invalid" /\ HasState(p) /\ Head(mMapBlockSender[b][p])
             THEN [nodeState EXCEPT ![p].fShouldBan = "block"] ELSE nodeState
        /\ IF found /\ checked.result = "valid" /\ OnlyBlockInFlight(b)
           THEN maybeSetPeerAsAnnouncingHeaderAndIDsNL(p)
           ELSE UNCHANGED mNodesAnnouncingHeaderAndIDs
        /\ UNCHANGED <<link, inflight, bestHeader, chain, msg, start, sentBad, getdata>>

\* Every sender was visited: the activation moves the tip or marks the block and
\* its stored descendants, the message thread is done with the block.
BlockCheckedDone ==
    LET b == checked.hash
    IN  /\ checked # None /\ \A p \in Peers : checked.sources[p] = 0
        /\ checked' = None
        /\ \/ /\ checked.by = "message"
              /\ msg' = None /\ UNCHANGED chain
           \/ /\ checked.by = "activation" /\ checked.result = "valid"
              /\ chainTip' = b /\ UNCHANGED <<status, msg>>
           \/ /\ checked.by = "activation" /\ checked.result = "invalid"
              /\ status' = [a \in Blocks |->
                              IF a >= b /\ \A c \in b..a : status[c] = "data"
                              THEN "failed" ELSE status[a]]
              /\ UNCHANGED <<chainTip, msg>>
        /\ UNCHANGED <<link, nodeState, inflight, mMapBlockSender,
                       mNodesAnnouncingHeaderAndIDs, bestHeader, start, sentBad, getdata>>

----------------------------------------------------------------------------
Handlers(p) ==
    \/ PeerTooBusy(p)
    \/ \E b \in Blocks :
         \/ ProcessBlockMessage(p, b)
         \/ ProcessInvMessage(p, b)
         \/ \E first \in 0..(b - 1), direct \in BOOLEAN : ProcessHeadersMessage(p, first, b, direct)
         \/ \E read \in {"invalid", "failed", "ok"} : ProcessBlockTxnMessage(p, b, read)
         \/ \E init \in {"invalid", "collision", "missing", "complete"}, direct \in BOOLEAN :
              ProcessCompactBlockMessage(p, b, init, direct)

SendMessages(p) ==
    \/ SendRejectsAndCheckIfBanned(p)
    \/ DetectStalling(p)
    \/ \E slow \in SUBSET {q \in Peers : HasState(q)} : SendGetDataBlocks(p, slow)

Next ==
    \/ \E p \in Peers :
         \/ InitializeNode(p) \/ Disconnect(p) \/ FinalizeNode(p) \/ TooBusyExpires(p)
         \/ Handlers(p)
         \/ SendMessages(p)
    \/ RevertToHeaderProcessing
    \/ BlockReconstructed
    \/ ProcessNewBlock
    \/ ConnectTip
    \/ \E p \in Peers : BlockChecked(p)
    \/ BlockCheckedDone

Spec == Init /\ [][Next]_vars

(* Fairness. The node's own threads do not stop half way. A peer that holds up a
   download runs into its timeout, one that is banned or disconnected goes. An
   honest peer connects, announces its chain, is asked for blocks and sends them:
   the message thread passes over all peers several times per second, while a
   peer that is too busy is left alone for TOOBUSY_RETRY_DELAY (seconds), so that
   every other peer gets its turn in between. *)
HonestHeight == Max({0} \cup {b \in Blocks : Relayable(b)})

Internal ==
    \/ RevertToHeaderProcessing \/ BlockReconstructed \/ ProcessNewBlock \/ ConnectTip
    \/ BlockCheckedDone \/ \E p \in Peers : BlockChecked(p)
    \/ msg # None /\ \E p \in Peers, b \in Blocks : ProcessBlockTxnMessage(p, b, "ok")

Departs(p) ==
    /\ p \in start.peers \ start.honest
    /\ FinalizeNode(p) \/ DetectStalling(p) \/ SendRejectsAndCheckIfBanned(p)

Serves(p) ==
    /\ p \in start.honest
    /\ \/ InitializeNode(p)
       \/ HonestHeight > 0 /\ ProcessHeadersMessage(p, 0, HonestHeight, FALSE)
       \/ \E slow \in SUBSET {q \in Peers : HasState(q)} : SendGetDataBlocks(p, slow)
       \/ \E b \in Blocks :
            /\ b \in BlocksOf(nodeState[p]) \/ p \in getdata[b]
            /\ ProcessBlockMessage(p, b)

Fairness ==
    /\ WF_vars(Internal)
    /\ \A p \in Peers : SF_vars(Departs(p)) /\ SF_vars(Serves(p))

FairSpec == Spec /\ Fairness

----------------------------------------------------------------------------
(* Properties *)

TypeOK ==
    /\ link \in [Peers -> {"new", "up", "closing", "gone"}]
    /\ nodeState \in [Peers ->
         [vBlocksInFlight : SUBSET [hash : Blocks, partial : BOOLEAN],
          nBlocksInFlight : 0..MAX_BLOCKS_IN_TRANSIT_PER_PEER,
          nBlocksInFlightValidHeaders : 0..MAX_BLOCKS_IN_TRANSIT_PER_PEER,
          stalling : BOOLEAN, tooBusy : BOOLEAN, best : 0..Height,
          lastUnknown : 0..Height, lastCommon : -1..Height,
          fShouldBan : {"no", "compact", "block"}]]
    /\ mMapBlocksInFlight \in [Blocks -> Seq(Peers)]
    /\ mMapBlockSender \in [Blocks -> [Peers -> Seq(BOOLEAN)]]
    /\ mPeersWithValidatedDownloadsCount \in 0..Cardinality(Peers)
    /\ mNodesAnnouncingHeaderAndIDs \in Seq(Peers)
    /\ bestHeader \in 0..Height /\ chainTip \in 0..Height
    /\ status \in [Blocks -> {"header", "data", "failed"}]
    /\ getdata \in [Blocks -> SUBSET Peers]
    /\ sentBad \subseteq Peers

(* The tracker's map and the lists and counters of the node states, which are
   updated side by side by the message thread, the socket thread and BlockChecked,
   tell the same story: a block is in flight from a peer exactly when the peer's
   list has it, once; the peer's counters count its list, within
   MAX_BLOCKS_IN_TRANSIT_PER_PEER; mPeersWithValidatedDownloadsCount counts the
   peers with a download. Nothing is kept of a node without a CNodeState, which
   is what the assertions of ClearPeer for the last peer (block_download_tracker.cpp:210),
   of DetectStalling and of SendGetDataBlocks (the staller has a state) rely on. *)
TrackerSound ==
    /\ TypeOK
    /\ \A p \in Peers :
         /\ BlocksOf(nodeState[p]) = {b \in Blocks : p \in ToSet(mMapBlocksInFlight[b])}
         /\ nodeState[p].nBlocksInFlight = Cardinality(nodeState[p].vBlocksInFlight)
         /\ nodeState[p].nBlocksInFlight = Cardinality(BlocksOf(nodeState[p]))
         /\ nodeState[p].nBlocksInFlightValidHeaders = nodeState[p].nBlocksInFlight
         /\ ~HasState(p) => /\ nodeState[p] = NewNodeState
                            /\ \A b \in Blocks : mMapBlockSender[b][p] = <<>>
    /\ \A b \in Blocks : IsInjective(mMapBlocksInFlight[b])
    /\ mPeersWithValidatedDownloadsCount =
         Cardinality({p \in Peers : nodeState[p].vBlocksInFlight # {}})

(* The tracker never has a block in flight from more than the configured number of
   connected peers, although direct fetch, compact blocks and the search for stalled
   downloads decide on their own. A request the tracker does not know of (getdata, the
   answer to a compact block too far ahead of the tip) comes on top of these, and is
   outstanding only to a peer that has announced the block and whose node has not been
   finalized. At most MaxAnnouncing peers, each listed once, are asked to announce with
   compact blocks. *)
ParallelFetchBounded ==
    /\ \A b \in Blocks :
         /\ Cardinality({p \in ToSet(mMapBlocksInFlight[b]) : link[p] = "up"}) <= start.parallel
         /\ \A p \in getdata[b] : HasState(p) /\ b <= nodeState[p].best
    /\ Len(mNodesAnnouncingHeaderAndIDs) <= MaxAnnouncing
    /\ IsInjective(mNodesAnnouncingHeaderAndIDs)

(* What the help of -blockdownloadmaxparallelfetch says (init.cpp:557): the "maximum
   number of parallel requests to different peers we will issue for a block". The
   requests outside the tracker can exceed it. *)
RequestsBounded ==
    \A b \in Blocks :
        Cardinality({p \in ToSet(mMapBlocksInFlight[b]) \cup getdata[b] : link[p] = "up"})
            <= start.parallel

(* A peer is punished for an invalid block only if it sent one in full itself: "BIP
   152 permits peers to relay compact blocks after validating the header only; we
   should not punish peers if the block turns out to be invalid"
   (net_processing.cpp:2743). The verdict arrives later, on another thread, when
   the same block may have come from several peers in both forms. *)
OnlySendersPunished ==
    \A p \in Peers : nodeState[p].fShouldBan = "block" => p \in sentBad

(* With an honest peer connected, the chain it has is downloaded and connected,
   whatever the other peers hold up, refuse, send or drop. *)
ChainArrives ==
    start.honest # {} ~> (chainTip >= HonestHeight)
=============================================================================
