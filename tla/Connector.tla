----------------------------- MODULE Connector -----------------------------
(***************************************************************************)
(* The synchronisation of a node with its peers, package peer: the state   *)
(* machine of the connector, the caches its upstream clients keep of every *)
(* peer, the election of the peer to follow, and the block store, which    *)
(* stores blocks that are broadcast while the connector works.             *)
(*                                                                         *)
(* A block is known by its digest, a tuple of bytes with the most          *)
(* significant first.  A peer is known by the block at its tip: its chain  *)
(* is that block with its ancestors, and its tip may change between any    *)
(* two requests.  Validation of the transactions in a block is the         *)
(* business of Ledger; here every block is valid on top of its parent.     *)
(***************************************************************************)
EXTENDS Integers, Sequences, FiniteSets, FiniteSetsExt, SequencesExt

CONSTANTS
    Peer,
    Block,                   \* the blocks that exist, but for the first
    Genesis,                 \* the first block
    Parent,                  \* PreviousBlock of every header
    Number,                  \* the block number of every header
    None,
    FastSync,                \* the values of the setting fast_sync to consider
    minimumClients,
    samplingLimit,
    forkProtection,
    fetchBlocksPerCycle,
    fastSyncFetchBlocksPerCycle,
    fastSyncPivotBlocks,
    fastSyncSkipPerBlocks,
    Tips,                    \* bound of a run: the tips the peers' chains may have
    Broadcast,               \* bound of a run: the blocks that are broadcast
    MaxFaults                \* bound of a run: disturbances of the network

GenesisBlockNumber == 1
AnyBlock == Block \cup {Genesis}

ASSUME ConnectorAssumption ==
    /\ Genesis \notin Block /\ None \notin AnyBlock
    /\ Parent \in [Block -> AnyBlock]
    /\ Number \in [AnyBlock -> Nat]
    /\ Number[Genesis] = GenesisBlockNumber
    /\ \A b \in Block : Number[b] = Number[Parent[b]] + 1
    /\ FastSync \subseteq BOOLEAN
    /\ minimumClients \in Nat /\ samplingLimit \in Nat
    /\ forkProtection \in Nat /\ fastSyncPivotBlocks \in Nat
    /\ fetchBlocksPerCycle \in Nat \ {0}
    /\ fastSyncFetchBlocksPerCycle \in Nat \ {0}
    /\ fastSyncSkipPerBlocks \in Nat \ {0}
    /\ Tips \subseteq AnyBlock /\ Broadcast \subseteq Block /\ MaxFaults \in Nat

VARIABLES
    stored,    \* pool Blocks: the block stored under every number
    hash,      \* pool BlockHeaderHash: the digest recorded for every number
    unchecked, \* the numbers whose block was stored by fast sync (not in the code)
    conn,      \* connector: state, theClient, height, samples
    loop,      \* startBlockNumber and the local variables of the two loops
    fastSyncEnabled,
    mode,
    upstream,  \* per peer: its connection and what the client has cached
    remote,    \* per peer: the tip of its chain
    queue,     \* the block waiting for the block store
    faults,    \* how often a peer has changed its chain or been lost
    settled    \* the network has come to rest

local == <<stored, hash, unchecked>>
node  == <<conn, loop, fastSyncEnabled, mode>>
network == <<faults, settled>>
vars  == <<local, node, upstream, remote, queue, network>>

Height == Len(stored)

NoLoop == [h |-> 0, height |-> 0, startBlockNumber |-> 0, i |-> 0,
           packed |-> None, next |-> None]

zeroDigest == [i \in DOMAIN Genesis |-> 0]

\* A client is connected once it has registered, and active if its peer has told
\* it its height in the last activeTime.
NewClient == [connected |-> FALSE, active |-> FALSE, height |-> 0,
              digest |-> zeroDigest, localHeight |-> 0]

Init ==
    /\ stored = <<Genesis>>
    /\ hash = <<Genesis>>
    /\ unchecked = {}
    /\ conn = [state |-> "Connecting", theClient |-> None, height |-> 0, samples |-> 0]
    /\ loop = NoLoop
    /\ fastSyncEnabled \in FastSync
    /\ mode = "Resynchronise"
    /\ upstream = [p \in Peer |-> NewClient]
    /\ remote \in [Peer -> Tips]
    /\ queue = None
    /\ faults = 0
    /\ settled = FALSE

-----------------------------------------------------------------------------
(***************************************************************************)
(* Digests and the chains of peers.                                        *)
(***************************************************************************)
\* The loop returns at the first byte that is smaller and goes on past those
\* that are larger.
SmallerDigestThan(digest, target) == \E i \in DOMAIN digest : digest[i] < target[i]

\* The chain that ends with a block.
ChainOf ==
    LET to[b \in AnyBlock] == IF b = Genesis THEN <<b>> ELSE Append(to[Parent[b]], b)
    IN  [b \in AnyBlock |-> to[b]]

\* The reply of a peer that is asked for the block, or the digest, of a number.
Reply(p, n) ==
    IF n \in DOMAIN ChainOf[remote[p]] THEN ChainOf[remote[p]][n] ELSE None

-----------------------------------------------------------------------------
(***************************************************************************)
(* The upstream clients.  The runner of a client asks its peer for its     *)
(* height, and then for its digest of the height this node has.            *)
(***************************************************************************)
\* The panic of StoreIncoming ends the process.
Running == conn.state # "Panicked"

Fault ==
    /\ Running /\ ~settled
    /\ faults < MaxFaults
    /\ faults' = faults + 1
    /\ UNCHANGED settled

Registered(p) == upstream[p].connected

handleConnected(p) ==
    /\ Running
    /\ ~Registered(p)
    /\ upstream' = [upstream EXCEPT ![p].connected = TRUE]
    /\ UNCHANGED <<local, node, remote, queue, network>>

handleDisconnected(p) ==
    /\ Fault
    /\ Registered(p)
    /\ upstream' = [upstream EXCEPT ![p].connected = FALSE]
    /\ UNCHANGED <<local, node, remote, queue>>

\* The connector releases a client between two runs of its state machine.
ResetServer(p) ==
    /\ Fault
    /\ conn.state \in {"Connecting", "HighestBlock", "FetchBlocks", "Sampling"}
    /\ upstream' = [upstream EXCEPT ![p].connected = FALSE, ![p].height = 0]
    /\ UNCHANGED <<local, node, remote, queue>>

\* No answer for longer than activeTime.
Inactive(p) ==
    /\ Fault
    /\ upstream[p].active
    /\ upstream' = [upstream EXCEPT ![p].active = FALSE]
    /\ UNCHANGED <<local, node, remote, queue>>

WithHeight(u, p) == [u EXCEPT !.active = TRUE, !.height = Number[remote[p]]]

WithNoDigest(u, p) == [u EXCEPT !.localHeight = Height]

WithDigest(u, p) ==
    IF Reply(p, Height) = None THEN u
    ELSE [u EXCEPT !.localHeight = Height, !.digest = Reply(p, Height)]

runner(p) ==
    /\ Running
    /\ Registered(p)
    /\ upstream' = [upstream EXCEPT ![p] = WithDigest(WithHeight(@, p), p)]
    /\ UNCHANGED <<local, node, remote, queue, network>>

\* One of the two requests fails; what the other has cached stays as it was.
runnerFails(p) ==
    /\ Fault
    /\ Registered(p)
    /\ \/ upstream' = [upstream EXCEPT ![p] = WithHeight(@, p)]
       \/ upstream' = [upstream EXCEPT ![p] = WithDigest(@, p)]
    /\ UNCHANGED <<local, node, remote, queue>>

-----------------------------------------------------------------------------
(***************************************************************************)
(* The election.  Voters are grouped by the digest they have cached; the   *)
(* groups are visited in any order, and the first voter of a group, in an  *)
(* order that changes with every connection, stands for it.                *)
(***************************************************************************)
Voters ==
    {p \in Peer : /\ upstream[p].connected /\ upstream[p].active
                  /\ upstream[p].height >= Height}

VotesOf(d) == {p \in Voters : upstream[p].digest = d}

VotedDigests == {upstream[p].digest : p \in Voters}

highestNumVotes == Max({Cardinality(VotesOf(d)) : d \in VotedDigests})

\* The digests with the most votes; more than one is a draw.
Leaders == {d \in VotedDigests : Cardinality(VotesOf(d)) = highestNumVotes}

sufficientVotes ==
    highestNumVotes * Cardinality(Leaders) >= (1 + minimumClients) \div 2

smallerDigestWinnerFrom(candidates) ==
    LET Better(elected, target) ==
            IF \/ zeroDigest \in {elected, target}
               \/ SmallerDigestThan(elected, target)
            THEN elected ELSE target
    IN  FoldLeft(Better, Head(candidates), Tail(candidates))

\* Every client that some order of the votes elects.
ElectedCandidates ==
    IF Voters = {} \/ ~sufficientVotes THEN {}
    ELSE UNION {VotesOf(smallerDigestWinnerFrom(order)) : order \in SetToSeqs(Leaders)}

-----------------------------------------------------------------------------
hasSmallerDigestThanLocal(c, localHeight) ==
    /\ upstream[c.theClient].localHeight = localHeight
    /\ SmallerDigestThan(upstream[c.theClient].digest, hash[localHeight])

hasLongerChain(c, localHeight) == c.theClient # None /\ c.height > localHeight + 1

hasBetterChain(c, localHeight) ==
    /\ c.theClient # None
    /\ c.height >= localHeight
    /\ c.height = localHeight => hasSmallerDigestThanLocal(c, localHeight)

isSameChain(c) ==
    /\ c.theClient # None
    /\ c.height = Height
    /\ upstream[c.theClient].digest = hash[Height]

isConnectionEnough == Cardinality({p \in Peer : Registered(p)}) >= minimumClients

\* updateHeightAndClient elects nobody, or the socket of the client it elected is
\* not connected any more when its address is asked for.
ElectionFails == ElectedCandidates = {} \/ ~settled

elected(w) == [conn EXCEPT !.theClient = w, !.height = upstream[w].height]

notElected == [conn EXCEPT !.height = 0]

\* Leave a loop of the state machine for another state.  The variables of the
\* loop are dead from here; startBlockNumber is, since ForkDetect sets it anew.
NextState(s) ==
    /\ conn' = [conn EXCEPT !.state = s]
    /\ loop' = NoLoop

-----------------------------------------------------------------------------
(***************************************************************************)
(* Storing and deleting blocks.  The digest of a block is taken from the   *)
(* next block, when that is given; otherwise from the pool, if the number  *)
(* has been stored already, or computed.                                   *)
(***************************************************************************)
digestOf(b, next) ==
    IF next # None THEN Parent[next]
    ELSE IF Number[b] \in DOMAIN hash THEN hash[Number[b]] ELSE b

validNextHeightFromExpected(expected, b) == Number[b] \in {expected - 1, expected}

AnyBlockLinkage(b) == TRUE

ValidBlockLinkage(b) == Parent[b] = hash[Height]

Acceptable(b, next) ==
    /\ b # Genesis /\ next # Genesis
    /\ validNextHeightFromExpected(Height + 1, b)
    /\ IF next # None THEN validNextHeightFromExpected(Height + 2, next)
                      ELSE ValidBlockLinkage(b)

\* The panic "out of sequence block" at the end of StoreIncoming.
OutOfSequence(b) == Number[b] # Height + 1

Put(b, next) ==
    /\ stored' = Append(stored, b)
    /\ hash' = Append(hash, digestOf(b, next))
    /\ unchecked' = IF next = None THEN unchecked ELSE unchecked \cup {Height + 1}

DeleteKeepsHash(n) ==
    /\ stored' = SubSeq(stored, 1, Min({n - 1, Height}))
    /\ unchecked' = {k \in unchecked : k < n}
    /\ UNCHANGED hash

DeleteOneMore(n) ==
    /\ stored' = SubSeq(stored, 1, Max({1, Min({n - 2, Height})}))
    /\ hash' = SubSeq(hash, 1, Max({1, Min({n - 2, Height})}))
    /\ unchecked' = {k \in unchecked : k < n - 1}

DeleteDownToBlock(n) ==
    /\ stored' = SubSeq(stored, 1, Min({n - 1, Height}))
    /\ hash' = SubSeq(hash, 1, Min({n - 1, Height}))
    /\ unchecked' = {k \in unchecked : k < n}

\* DeleteDownToBlock returns an error before it has deleted a block.
DeleteFails == ~settled /\ UNCHANGED local

-----------------------------------------------------------------------------
(***************************************************************************)
(* The states of the connector.                                            *)
(***************************************************************************)
Connecting ==
    /\ conn.state = "Connecting"
    /\ mode' = "Resynchronise"
    /\ conn' = IF isConnectionEnough THEN [conn EXCEPT !.state = "HighestBlock"] ELSE conn
    /\ UNCHANGED <<local, loop, fastSyncEnabled, upstream, remote, queue, network>>

HighestBlock ==
    /\ conn.state = "HighestBlock"
    /\ \/ \E w \in ElectedCandidates :
             LET c == elected(w)
             IN  conn' = [c EXCEPT !.state =
                             IF hasBetterChain(c, Height) THEN "ForkDetect"
                             ELSE IF isSameChain(c) THEN "Rebuild"
                             ELSE "HighestBlock"]
       \/ /\ ElectionFails
          /\ conn' = [notElected EXCEPT !.state = "Connecting"]
    /\ UNCHANGED <<local, loop, fastSyncEnabled, mode, upstream, remote, queue, network>>

ForkDetect ==
    /\ conn.state = "ForkDetect"
    /\ IF ~hasBetterChain(conn, Height)
       THEN NextState("Rebuild")
       ELSE /\ conn' = [conn EXCEPT !.state = "CheckDigests"]
            /\ loop' = [NoLoop EXCEPT !.h = Height, !.height = Height,
                                     !.startBlockNumber = GenesisBlockNumber + 1]
    /\ UNCHANGED <<local, fastSyncEnabled, mode, upstream, remote, queue, network>>

\* A request to theClient has no answer: an error is returned, and the states
\* that need the answer start again from HighestBlock.
RequestLost == ~settled \/ ~Registered(conn.theClient)

forkUnprotected(h) == FALSE

forkProtected(h) == loop.height - h >= forkProtection

\* One pass of the loop over descending blocks.  It ends at the first block at the
\* latest, which is the same everywhere.
CheckDigests ==
    /\ conn.state = "CheckDigests"
    /\ LET h == loop.h
           d == Reply(conn.theClient, h)
           noDigest == h > Height \/ d = None
       IN  \/ /\ noDigest \/ RequestLost
              /\ NextState("HighestBlock")
              /\ UNCHANGED local
           \/ /\ ~noDigest /\ d = hash[h] /\ forkProtected(h)
              /\ NextState("HighestBlock")
              /\ UNCHANGED local
           \/ /\ ~noDigest /\ d = hash[h] /\ ~forkProtected(h)
              /\ DeleteDownToBlock(h + 1)
              /\ conn' = [conn EXCEPT !.state = "FetchBlocks"]
              /\ loop' = [NoLoop EXCEPT !.startBlockNumber = h + 1]
           \/ /\ ~noDigest /\ d = hash[h] /\ ~forkProtected(h)
              /\ DeleteFails
              /\ NextState("HighestBlock")
           \/ /\ ~noDigest /\ d # hash[h] /\ h > GenesisBlockNumber
              /\ loop' = [loop EXCEPT !.h = h - 1]
              /\ UNCHANGED <<local, conn>>
    /\ UNCHANGED <<fastSyncEnabled, mode, upstream, remote, queue, network>>

pivotPoint ==
    IF conn.height > fastSyncPivotBlocks THEN conn.height - fastSyncPivotBlocks ELSE 0

\* What it was when the present cycle began, loop.i blocks ago.
blocksPerCycle ==
    IF fastSyncEnabled
       /\ pivotPoint >= loop.startBlockNumber - loop.i + fastSyncFetchBlocksPerCycle
    THEN fastSyncFetchBlocksPerCycle ELSE fetchBlocksPerCycle

CycleEnds == loop.i + 1 = blocksPerCycle

\* The head of the loop that fetches blocks, to the first request.
FetchBlocks ==
    /\ conn.state = "FetchBlocks"
    /\ LET n == loop.startBlockNumber
           packed == IF loop.next # None THEN loop.next ELSE Reply(conn.theClient, n)
       IN  \/ n > conn.height /\ NextState("HighestBlock")
           \/ /\ n <= conn.height
              /\ packed = None \/ (loop.next = None /\ RequestLost)
              /\ NextState("HighestBlock")
           \/ /\ n <= conn.height /\ packed # None
              /\ loop' = [loop EXCEPT !.packed = packed, !.next = None]
              /\ conn' = [conn EXCEPT !.state =
                             IF ~fastSyncEnabled THEN "StoreBlock"
                             ELSE IF loop.i > 0 /\ loop.i % fastSyncSkipPerBlocks = 0
                                  THEN "TestBlock" ELSE "FetchNext"]
    /\ UNCHANGED <<local, fastSyncEnabled, mode, upstream, remote, queue, network>>

\* Fast sync compares the digest of a random block among the last ones.
TestBlock ==
    /\ conn.state = "TestBlock"
    /\ \E k \in 0 .. fastSyncSkipPerBlocks - 1 :
         LET h == loop.startBlockNumber - k
             d == Reply(conn.theClient, h)
             noDigest == h > Height \/ d = None
         IN  \/ /\ noDigest \/ RequestLost
                /\ NextState("HighestBlock")
                /\ UNCHANGED <<local, fastSyncEnabled>>
             \/ /\ ~noDigest /\ d = hash[h]
                /\ conn' = [conn EXCEPT !.state = "FetchNext"]
                /\ UNCHANGED <<local, loop, fastSyncEnabled>>
             \/ /\ ~noDigest /\ d # hash[h]
                /\ DeleteDownToBlock(loop.startBlockNumber - loop.i) \/ DeleteFails
                /\ fastSyncEnabled' = FALSE
                /\ NextState("HighestBlock")
    /\ UNCHANGED <<mode, upstream, remote, queue, network>>

\* The next block stays nil when the request for it fails.
FetchNext ==
    /\ conn.state = "FetchNext"
    /\ \E next \in {Reply(conn.theClient, loop.startBlockNumber + 1)}
                     \cup (IF RequestLost THEN {None} ELSE {}) :
           loop' = [loop EXCEPT !.next = next]
    /\ conn' = [conn EXCEPT !.state = "StoreBlock"]
    /\ UNCHANGED <<local, fastSyncEnabled, mode, upstream, remote, queue, network>>

Panicked == conn' = [conn EXCEPT !.state = "Panicked"]

\* The cycle ends after blocksPerCycle blocks, and the state stays.
StoreBlock ==
    /\ conn.state = "StoreBlock"
    /\ LET b == loop.packed
           next == loop.next
       IN  \/ /\ ~Acceptable(b, next)
              /\ NextState("HighestBlock")
              /\ UNCHANGED local
           \/ /\ Acceptable(b, next) /\ OutOfSequence(b)
              /\ Panicked
              /\ UNCHANGED <<local, loop>>
           \/ /\ Acceptable(b, next) /\ ~OutOfSequence(b)
              /\ Put(b, next)
              /\ conn' = [conn EXCEPT !.state = "FetchBlocks"]
              /\ loop' = [loop EXCEPT
                             !.startBlockNumber = @ + 1,
                             !.packed = None,
                             !.i = IF CycleEnds THEN 0 ELSE @ + 1,
                             !.next = IF CycleEnds THEN None ELSE @]
    /\ UNCHANGED <<fastSyncEnabled, mode, upstream, remote, queue, network>>

Rebuild ==
    /\ conn.state = "Rebuild"
    /\ conn' = [conn EXCEPT !.state = "Sampling", !.samples = 0]
    /\ mode' = "Normal"
    /\ UNCHANGED <<local, loop, fastSyncEnabled, upstream, remote, queue, network>>

\* samples counts failed elections while the state stays: Rebuild clears it before
\* the state is entered again, so it is cleared here when the state is left.
Sampling ==
    /\ conn.state = "Sampling"
    /\ \/ /\ ~isConnectionEnough
          /\ conn' = [conn EXCEPT !.state = "Connecting", !.samples = 0]
       \/ /\ isConnectionEnough
          /\ \E w \in ElectedCandidates :
                LET c == elected(w)
                IN  conn' = [c EXCEPT
                                !.samples = 0,
                                !.state = IF hasBetterChain(c, Height) THEN "ForkDetect" ELSE @]
       \/ /\ isConnectionEnough /\ ElectionFails
          /\ conn' = IF conn.samples + 1 > samplingLimit
                     THEN [notElected EXCEPT !.state = "ForkDetect", !.samples = 0]
                     ELSE [notElected EXCEPT !.samples = @ + 1]
    /\ UNCHANGED <<local, loop, fastSyncEnabled, mode, upstream, remote, queue, network>>

runStateMachine ==
    \/ Connecting \/ HighestBlock \/ ForkDetect \/ CheckDigests
    \/ FetchBlocks \/ TestBlock \/ FetchNext \/ StoreBlock
    \/ Rebuild \/ Sampling

-----------------------------------------------------------------------------
(***************************************************************************)
(* The block store.  A block that is broadcast, or mined here, is queued   *)
(* only in normal mode; it is stored whatever the mode is by then.         *)
(***************************************************************************)
processBlock(b) ==
    /\ Running /\ ~settled
    /\ mode = "Normal"
    /\ queue = None
    /\ queue' = b
    /\ UNCHANGED <<local, node, upstream, remote, network>>

blockstoreProcess ==
    /\ Running
    /\ queue # None
    /\ queue' = None
    /\ \/ /\ ~Acceptable(queue, None)
          /\ UNCHANGED <<local, conn>>
       \/ /\ Acceptable(queue, None) /\ OutOfSequence(queue)
          /\ Panicked
          /\ UNCHANGED local
       \/ /\ Acceptable(queue, None) /\ ~OutOfSequence(queue)
          /\ Put(queue, None)
          /\ UNCHANGED conn
    /\ UNCHANGED <<loop, fastSyncEnabled, mode, upstream, remote, network>>

-----------------------------------------------------------------------------
(***************************************************************************)
(* The network: the tips of peers change until, perhaps, all of them agree *)
(* on a chain that no other is as long as.                                 *)
(***************************************************************************)
RemoteChanges(p) ==
    /\ Fault
    /\ \E tip \in Tips \ {remote[p]} : remote' = [remote EXCEPT ![p] = tip]
    /\ UNCHANGED <<local, node, upstream, queue>>

Settle ==
    /\ Running /\ ~settled
    /\ queue = None
    /\ \E tip \in Block :
          /\ \A p \in Peer : remote[p] = tip
          /\ \A b \in Block \ ToSet(ChainOf[tip]) : Number[b] < Number[tip]
    /\ settled' = TRUE
    /\ UNCHANGED <<local, node, upstream, remote, queue, faults>>

Next ==
    \/ runStateMachine
    \/ blockstoreProcess
    \/ \E b \in Broadcast : processBlock(b)
    \/ \E p \in Peer : \/ handleConnected(p) \/ handleDisconnected(p)
                       \/ ResetServer(p) \/ Inactive(p)
                       \/ runner(p) \/ runnerFails(p)
                       \/ RemoteChanges(p)
    \/ Settle

Spec == Init /\ [][Next]_vars

\* The connector is run by a timer, the runners by theirs, and clients reconnect.
Fairness ==
    /\ WF_vars(runStateMachine)
    /\ \A p \in Peer : /\ WF_vars(handleConnected(p))
                       /\ WF_vars(runner(p))

FairSpec == Spec /\ Fairness

-----------------------------------------------------------------------------
(***************************************************************************)
(* Properties.                                                             *)
(***************************************************************************)
States == {"Connecting", "HighestBlock", "ForkDetect", "CheckDigests",
           "FetchBlocks", "TestBlock", "FetchNext", "StoreBlock",
           "Rebuild", "Sampling", "Panicked"}

FetchStates == {"FetchBlocks", "TestBlock", "FetchNext", "StoreBlock"}

\* Every variable of the connector, its clients and the block store has its type.
TypeOK ==
    /\ stored \in Seq(AnyBlock) /\ hash \in Seq(AnyBlock)
    /\ Len(hash) = Height /\ unchecked \subseteq 1 .. Height
    /\ conn \in [state : States, theClient : Peer \cup {None}, height : Nat, samples : Nat]
    /\ loop \in [h : Nat, height : Nat, startBlockNumber : Nat, i : Nat,
                 packed : AnyBlock \cup {None}, next : AnyBlock \cup {None}]
    /\ fastSyncEnabled \in BOOLEAN
    /\ mode \in {"Resynchronise", "Normal"}
    /\ upstream \in [Peer -> [connected : BOOLEAN, active : BOOLEAN, height : Nat,
                              digest : AnyBlock \cup {zeroDigest}, localHeight : Nat]]
    /\ remote \in [Peer -> Tips]
    /\ queue \in Block \cup {None}
    /\ faults \in 0 .. MaxFaults /\ settled \in BOOLEAN

\* Blocks are stored under their own number, and a block that StoreIncoming
\* checked extends the digest recorded below it and is recorded under its own
\* digest, whichever of connector and block store stored it and however often
\* the connector went back to an older block in between.
ChainLinked ==
    \A n \in 2 .. Height :
        /\ Number[stored[n]] = n
        /\ n \notin unchecked => Parent[stored[n]] = hash[n - 1] /\ hash[n] = stored[n]

\* While blocks are fetched, the next one to fetch is at most one above the last
\* one stored: blocks deleted or stored meanwhile never leave a gap that only
\* an error could close, and a digest is never asked for that is not there.
FetchInSequence ==
    /\ conn.state \in FetchStates => loop.startBlockNumber \in 2 .. Height + 1
    /\ conn.state = "CheckDigests" => loop.h \in 1 .. Height

\* The connector deletes blocks to follow a fork only if the fork is shorter than
\* forkProtection (height-h >= forkProtection refuses it), counted from the height
\* at which the fork was looked for and not from a block stored meanwhile, and
\* the chain of the elected client is at least that high.
ForkProtected ==
    [][conn.state = "CheckDigests" /\ Len(stored') < Height =>
          /\ loop.height - Len(stored') < forkProtection
          /\ conn.height >= loop.height]_vars

\* "fail to fork if height difference is greater than this" (forkProtection,
\* connector.go): when the client answers with the digest of a common block, the
\* fork above it is refused only if it is longer than forkProtection.
RefusesOnlyDeeperForks ==
    [][conn.state = "CheckDigests" /\ conn'.state = "HighestBlock"
          /\ ~RequestLost /\ Reply(conn.theClient, loop.h) = hash[loop.h] =>
          loop.height - loop.h > forkProtection]_vars

\* When the connector returns to normal operation the client it has elected
\* offers no block above the local ones, whatever the block store added.
RebuiltCaughtUp == conn.state = "Rebuild" => conn.height <= Height

\* A block that does not fit is refused with an error, whoever hands it to
\* StoreIncoming and whatever was stored since it was fetched; the panic "out of
\* sequence block" is reached only from the connector, with a block that fast sync
\* hands over together with the next one.
PanicsOnlyInFastSync ==
    [][Running /\ ~Running' =>
          conn.state = "StoreBlock" /\ loop.next # None /\ UNCHANGED queue]_vars

\* StoreIncoming returns an error for every block that it does not store, those
\* included whose number the height check accepts: it never panics.
StoreReturnsError == Running

Tip == CHOOSE tip \in Block : \A p \in Peer : remote[p] = tip

Common == {n \in 1 .. Height : hash[n] \in ToSet(ChainOf[Tip])}

ForkTooDeep == Height - Max(Common) >= forkProtection

\* Once the peers have settled on the highest chain, the node comes to have it and
\* to be in normal mode, and stays so, unless its own fork is too deep to be
\* abandoned or the node has stopped.
CatchesUp ==
    <>[](settled => \/ hash[Height] = Tip /\ mode = "Normal"
                    \/ ForkTooDeep
                    \/ ~Running)
=============================================================================
