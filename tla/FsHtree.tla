------------------------------ MODULE FsHtree ------------------------------
(***************************************************************************)
(* A secure storage object as a file in the normal world:                  *)
(* core/tee/fs_htree.c with the file operations of core/tee/tee_ree_fs.c   *)
(* that create, open, write, truncate and close it.                        *)
(*                                                                         *)
(* The file holds two versions of a header, of every node of a hash tree   *)
(* and of every data block.  An operation writes versions that are not in  *)
(* use, one RPC at a time, and is made valid by the directory file, which  *)
(* then takes over the hash of the root.  The directory is one cell here.  *)
(* Operations exclude each other (ree_fs_mutex); between any two RPCs the  *)
(* power may fail, and any RPC may fail.                                   *)
(*                                                                         *)
(* Cryptography is ideal: a hash is the structure it is computed from, and *)
(* encrypting a block yields a tag that no other encryption yields, so     *)
(* that the tag also stands for the contents.                              *)
(***************************************************************************)
EXTENDS Naturals, Sequences, FiniteSets

CONSTANTS
    MaxBlocks,      \* bound: blocks of a file
    BLOCK_SIZE,     \* the units of length in a block
    block_nodes,    \* how many nodes have their images in one physical block
    Offsets,        \* the positions and lengths that callers use
    MaxOps,         \* bound: how many operations are made
    MaxFaults,      \* bound: how many RPCs and power supplies fail
    None            \* what is not in the file, or is not legible

ASSUME SizesOK == {MaxBlocks, BLOCK_SIZE, block_nodes} \subseteq Nat \ {0}
ASSUME OffsetsOK == Offsets \subseteq 0 .. MaxBlocks * BLOCK_SIZE
ASSUME FaultsOK == {MaxOps, MaxFaults} \subseteq Nat

VARIABLES
    \* the file in the normal world
    heads, nodes, blocks,
    dir,            \* the hash in the directory; None: no such object
    \* struct tee_fs_fd and struct tee_fs_htree
    fh,             \* the TA has a handle
    ht,             \* fdp->ht is not NULL
    counter, max_node_id, length, image, dirty, block_updated,
    \* the operation in progress
    pc, op,
    todo,           \* the blocks it has still to write
    \* bounds and history
    ops, faults, stamp,
    data, good,     \* the contents: as the handle has them, and as last committed
    harm            \* what has been done to the committed version (see Committed)

file == <<heads, nodes, blocks>>
tree == <<ht, counter, max_node_id, length, image, dirty, block_updated>>
call == <<pc, op, todo>>
hist == <<ops, faults, stamp, data, good, harm>>
vars == <<file, dir, fh, tree, call, hist>>

NodeIds == 1 .. MaxBlocks
BlockNums == 0 .. MaxBlocks - 1
Versions == 0 .. 1

NoImage == [block |-> 0, child |-> [i \in Versions |-> 0], tag |-> 0, hash |-> None]
NoContents == [length |-> 0, block |-> [b \in BlockNums |-> 0]]
Empty(S) == [i \in S |-> [v \in Versions |-> None]]

Init ==
    /\ heads = [v \in Versions |-> None] /\ nodes = Empty(NodeIds) /\ blocks = Empty(BlockNums)
    /\ dir = None
    /\ fh = FALSE /\ ht = FALSE
    /\ counter = 0 /\ max_node_id = 0 /\ length = 0
    /\ image = [n \in NodeIds |-> NoImage]
    /\ dirty = {} /\ block_updated = {}
    /\ pc = "idle" /\ op = "none" /\ todo = <<>>
    /\ ops = 0 /\ faults = 0 /\ stamp = 0
    /\ data = NoContents /\ good = NoContents
    /\ harm = {}

TypeOK ==
    /\ {fh, ht} \subseteq BOOLEAN
    /\ DOMAIN nodes = NodeIds /\ DOMAIN blocks = BlockNums
    /\ max_node_id \in 0 .. MaxBlocks
    /\ length \in 0 .. MaxBlocks * BLOCK_SIZE
    /\ \A n \in NodeIds : image[n].block \in Versions /\ image[n].child \in [Versions -> Versions]
    /\ block_updated \subseteq dirty /\ dirty \subseteq {1} \cup 2 .. max_node_id
    /\ pc \in {"idle", "write", "start", "sync", "head", "dummy", "commit"}
    /\ op \in {"none", "create", "fill", "write"}
    /\ faults \in 0 .. MaxFaults /\ ops \in 0 .. MaxOps

----------------------------------------------------------------------------
\* Where things are in the file: get_offs_size(), in physical blocks

NodePbn(n) == 1 + ((n - 1) \div block_nodes) * block_nodes * 2
BlockPbn(b, v) == LET bidx == 2 * b + v IN 2 + bidx + bidx \div (block_nodes * 2 - 1)

RoundUp(len) == (len + BLOCK_SIZE - 1) \div BLOCK_SIZE

----------------------------------------------------------------------------
\* The tree

\* The nodes in memory: the root is always there.
Present(max) == {1} \cup 2 .. max

\* calc_node_hash(): the length is part of the root's.
CalcHash(img, n, max, len) ==
    <<img[n].block, img[n].child, img[n].tag, IF n = 1 THEN len ELSE None,
      [c \in {2 * n, 2 * n + 1} \cap Present(max) |-> img[c].hash]>>

\* init_head_from_data(): the version of the root that has the hash.
RootVersions(hash) == {v \in Versions : nodes[1][v] # None /\ nodes[1][v].hash = hash}

\* init_tree_from_data(): the parent tells which version of a node counts.
Loaded(root, max) ==
    LET img[n \in NodeIds] ==
            IF n = 1 THEN root
            ELSE IF n > max \/ img[n \div 2] = None THEN None
            ELSE nodes[n][img[n \div 2].child[n % 2]]
    IN img

\* verify_root() and verify_tree()
Verifies(hash, v) ==
    /\ heads[v] # None /\ heads[v].root = hash
    /\ LET max == heads[v].max_node_id
           img == Loaded(nodes[1][v], max)
       IN /\ \A n \in Present(max) : img[n] # None
          /\ \A n \in Present(max) : img[n].hash = CalcHash(img, n, max, heads[v].length)

\* tee_fs_htree_open() succeeds with version v.
Opens(hash, v) ==
    /\ v \in RootVersions(hash)
    /\ \A w \in RootVersions(hash) : v <= w
    /\ Verifies(hash, v)

\* tee_fs_htree_read_block(): the node is there and the block is the one it
\* was written with.
Legible(img, max, b) ==
    /\ b + 1 \in Present(max)
    /\ blocks[b][img[b + 1].block] = img[b + 1].tag

\* htree_traverse_post_order()
PostOrder ==
    LET seq[n \in 1 .. 2 * MaxBlocks + 1] ==
            IF n \in Present(max_node_id) THEN seq[2 * n] \o seq[2 * n + 1] \o <<n>> ELSE <<>>
    IN seq[1]

CloseTree ==
    /\ ht' = FALSE
    /\ counter' = 0 /\ max_node_id' = 0 /\ length' = 0
    /\ image' = [n \in NodeIds |-> NoImage]
    /\ dirty' = {} /\ block_updated' = {}

EndOp == pc' = "idle" /\ op' = "none" /\ todo' = <<>>

----------------------------------------------------------------------------
\* History: how the committed version can come to harm.  An operation that
\* has cut the file, that works on top of a version that was not committed or
\* on a tree without the nodes of a truncation that was not synced, or that
\* leaves the root's hash as it is, so that two versions of the root have it
\* and only one a header ("cut", "retry", "forgot", "same"), endangers it until
\* the operation is committed, and may destroy it when the operation is
\* abandoned.  A tree that is not what its hashes say ("stale", "short") does
\* when it is committed.

Committed == IF harm \cap {"stale", "short", "lost"} = {} THEN {} ELSE {"lost"}
Abandoned == IF harm \cap {"cut", "retry", "forgot", "same", "lost"} = {} THEN {} ELSE {"lost"}

----------------------------------------------------------------------------
\* Ending an operation

NoFile ==
    heads' = [v \in Versions |-> None] /\ nodes' = Empty(NodeIds) /\ blocks' = Empty(BlockNums)

\* An error: the tree is closed, the handle stays; a file that was being
\* created is removed.
Failed ==
    /\ CloseTree /\ EndOp
    /\ harm' = Abandoned
    /\ UNCHANGED <<dir, fh, ops, stamp, data, good>>

Fault == faults < MaxFaults /\ faults' = faults + 1

\* A write RPC fails and leaves what was there, or something illegible.
FailsAt(var, i, v) == var' = var \/ var' = [var EXCEPT ![i][v] = None]

\* remove_corrupt_obj(): ree_fs_remove(), which may fail, and the end of the
\* handle.
Removed ==
    /\ CloseTree /\ EndOp
    /\ fh' = FALSE
    /\ \/ /\ NoFile /\ dir' = None
          /\ data' = NoContents /\ good' = NoContents /\ harm' = {}
          /\ UNCHANGED faults
       \/ /\ Fault
          /\ data' = good /\ harm' = Abandoned
          /\ UNCHANGED <<file, dir, good>>
    /\ UNCHANGED <<ops, stamp>>

----------------------------------------------------------------------------
\* Writing blocks: out_of_place_write()

\* The blocks from position pos to end, and the length after the last one.
\* The first one needs the temporary block; the data may come from the TA.
Range(pos, end, user) ==
    LET first == pos \div BLOCK_SIZE
        last == (end - 1) \div BLOCK_SIZE
    IN [i \in 1 .. last - first + 1 |->
          [block |-> first + i - 1, first |-> i = 1, user |-> user,
           end |-> IF first + i - 1 = last THEN end ELSE 0]]

\* A block that has data is read before it is written.
Writable(b) == b < RoundUp(length) => Legible(image, max_node_id, b)

\* Mutant: every write of a block goes to its other version.
BlockVersionFlipped(b) == 1 - image[b + 1].block

\* A block written twice before a sync stays where it was written first.
BlockVersion(b) ==
    IF b + 1 \in block_updated THEN image[b + 1].block ELSE 1 - image[b + 1].block

\* tee_fs_htree_write_block(), after the length was reached meta_set_dirty().
WriteBlock ==
    LET b == Head(todo).block
        n == b + 1
        v == BlockVersion(b)
        len == IF Head(todo).end > length THEN Head(todo).end ELSE length
        root == IF len > length THEN {1} ELSE {}
    IN
    /\ pc = "write"
    /\ Writable(b)
    /\ blocks' = [blocks EXCEPT ![b][v] = stamp + 1]
    /\ image' = [image EXCEPT ![n] = [block |-> v, child |-> image[n].child,
                                      tag |-> stamp + 1, hash |-> image[n].hash]]
    /\ max_node_id' = IF n \in Present(max_node_id) THEN max_node_id ELSE n
    /\ block_updated' = block_updated \cup {n}
    /\ dirty' = dirty \cup {n} \cup root
    /\ length' = len
    /\ todo' = Tail(todo)
    /\ pc' = IF Tail(todo) = <<>> THEN "start" ELSE "write"
    /\ stamp' = stamp + 1
    /\ data' = [length |-> len, block |-> [data.block EXCEPT ![b] = stamp + 1]]
    /\ UNCHANGED <<heads, nodes, dir, fh, ht, counter, op, ops, faults, good, harm>>

WriteBlockFails ==
    LET b == Head(todo).block IN
    /\ pc = "write" /\ Writable(b) /\ Fault
    /\ IF op = "write" THEN FailsAt(blocks, b, BlockVersion(b)) /\ UNCHANGED <<heads, nodes>>
       ELSE NoFile
    /\ Failed

\* get_tmp_block() or copy_from_user() fails: the tree stays open with what
\* was written before.
StopEarly ==
    /\ pc = "write" /\ Fault
    /\ ~Head(todo).first => Head(todo).user /\ Writable(Head(todo).block)
    /\ IF op = "write"
       THEN EndOp /\ UNCHANGED <<file, dir, fh, tree, ops, stamp, data, good, harm>>
       ELSE NoFile /\ Failed

\* The read fails: TEE_ERROR_CORRUPT_OBJECT makes the caller remove the
\* object, but a block without a node is TEE_ERROR_GENERIC.
ReadFails ==
    LET b == Head(todo).block IN
    /\ pc = "write"
    /\ ~Writable(b)
    /\ IF b + 1 \in Present(max_node_id) THEN Removed
       ELSE Failed /\ UNCHANGED <<file, faults>>

----------------------------------------------------------------------------
\* tee_fs_htree_sync_to_storage(), which the operations below call with
\* ht->dirty set

\* The first dirty node of the traversal.
SyncNodeId == SelectSeq(PostOrder, LAMBDA n : n \in dirty)[1]

NodeVersion(n) ==
    IF n = 1 THEN 1 - (counter % 2) ELSE 1 - image[n \div 2].child[n % 2]

\* htree_sync_node_to_storage(): the parent's flag for the node flips.
SyncNode ==
    LET n == SyncNodeId
        v == NodeVersion(n)
        new == [image[n] EXCEPT !.hash = CalcHash(image, n, max_node_id, length)]
    IN
    /\ pc \in {"start", "sync"}
    /\ nodes' = [nodes EXCEPT ![n][v] = new]
    /\ image' = IF n = 1 THEN [image EXCEPT ![n] = new]
                ELSE [image EXCEPT ![n] = new, ![n \div 2].child[n % 2] = v]
    /\ dirty' = (dirty \ {n}) \cup (IF n = 1 THEN {} ELSE {n \div 2})
    /\ block_updated' = block_updated \ {n}
    /\ pc' = IF n = 1 THEN "head" ELSE "sync"
    /\ UNCHANGED <<heads, blocks, dir, fh, ht, counter, max_node_id, length, op, todo, hist>>

\* crypto_hash_alloc_ctx() fails: the tree stays open and dirty, without the
\* nodes that a truncation removed.
SyncNotStarted ==
    LET forgot == \E v \in Versions : Opens(dir, v) /\ heads[v].max_node_id > max_node_id IN
    /\ pc = "start" /\ Fault
    /\ IF op = "write"
       THEN /\ EndOp
            /\ harm' = harm \cup (IF forgot THEN {"forgot"} ELSE {})
            /\ UNCHANGED <<file, dir, fh, tree, ops, stamp, data, good>>
       ELSE NoFile /\ Failed

\* A later error closes it.
SyncNodeFails ==
    /\ pc \in {"start", "sync"} /\ Fault
    /\ IF op = "write" THEN FailsAt(nodes, SyncNodeId, NodeVersion(SyncNodeId))
                            /\ UNCHANGED <<heads, blocks>>
       ELSE NoFile
    /\ Failed

\* update_root() and rpc_write_head()
WriteHead ==
    /\ pc = "head"
    /\ counter' = counter + 1
    /\ heads' = [heads EXCEPT ![(counter + 1) % 2] =
                   [counter |-> counter + 1, max_node_id |-> max_node_id, length |-> length,
                    root |-> image[1].hash]]
    /\ pc' = IF op = "create" THEN "dummy" ELSE "commit"
    /\ UNCHANGED <<nodes, blocks, dir, fh, ht, max_node_id, length, image, dirty, block_updated,
                   op, todo, hist>>

WriteHeadFails ==
    /\ pc \in {"head", "dummy"} /\ Fault
    /\ IF op = "write" THEN heads' \in {heads, [heads EXCEPT ![(counter + 1) % 2] = None]}
                            /\ UNCHANGED <<nodes, blocks>>
       ELSE NoFile
    /\ Failed

----------------------------------------------------------------------------
\* ree_fs_create(): tee_fs_htree_open() makes a tree of one node, then the
\* head and the data are written and the directory is told.

Create(head, len) ==
    /\ pc = "idle" /\ ~fh /\ dir = None /\ head > 0 /\ head <= len
    /\ ops < MaxOps /\ ops' = ops + 1
    /\ NoFile
    /\ ht' = TRUE /\ dirty' = {1}
    /\ pc' = "start" /\ op' = "create" /\ todo' = Range(0, head, FALSE) \o IF head < len THEN Range(head, len, TRUE) ELSE <<>>
    /\ data' = NoContents
    /\ UNCHANGED <<dir, fh, counter, max_node_id, length, image, block_updated, faults, stamp,
                   good, harm>>

WriteDummyHead ==
    /\ pc = "dummy"
    /\ heads' = [heads EXCEPT ![0] = [counter |-> 0, max_node_id |-> 0, length |-> 0, root |-> None]]
    /\ pc' = "write" /\ op' = "fill"
    /\ UNCHANGED <<nodes, blocks, dir, fh, tree, todo, hist>>

\* The directory: the new hash is valid, or it is not and the handle keeps
\* its tree.
Commit ==
    /\ pc = "commit"
    /\ dir' = image[1].hash
    /\ fh' = TRUE
    /\ good' = data
    /\ harm' = Committed
    /\ EndOp
    /\ UNCHANGED <<file, tree, ops, faults, stamp, data>>

CommitFails ==
    /\ pc = "commit" /\ Fault
    /\ IF op = "write"
       THEN EndOp /\ UNCHANGED <<file, dir, fh, tree, ops, stamp, data, good, harm>>
       ELSE NoFile /\ Failed

\* The directory is written and nv_counter_incr_ree_fs_to() fails: the caller
\* is told of an error, and a file just created is removed.
CommitUnconfirmed ==
    /\ pc = "commit" /\ Fault
    /\ dir' = image[1].hash
    /\ good' = data
    /\ EndOp
    /\ IF op = "write" THEN harm' = Committed /\ UNCHANGED <<file, tree>>
       ELSE NoFile /\ CloseTree /\ harm' = {"lost"}
    /\ UNCHANGED <<fh, ops, stamp, data>>

----------------------------------------------------------------------------
\* Operations on a handle

Ready == pc = "idle" /\ fh /\ ht /\ ops < MaxOps

\* The tree to be changed is not the committed one.
Retry == IF image[1].hash # dir THEN {"retry"} ELSE {}

StartWriting(blks) ==
    /\ pc' = "write" /\ op' = "write" /\ todo' = blks
    /\ ops' = ops + 1
    /\ harm' = harm \cup Retry
    /\ UNCHANGED <<file, dir, fh, tree, faults, stamp, data, good>>

\* ree_fs_write(): a gap before pos is filled with zeros first.
Write(pos, end) ==
    /\ Ready /\ pos < end
    /\ StartWriting((IF length < pos THEN Range(length, pos, FALSE) ELSE <<>>)
                    \o Range(pos, end, TRUE))

\* ree_fs_truncate() to a larger size.
Extend(len) ==
    /\ Ready /\ len > length
    /\ StartWriting(Range(length, len, FALSE))

\* Mutant: the node of the last block goes too.
NodesKeptFewer(len) == LET id == len \div BLOCK_SIZE
                       IN IF id < max_node_id THEN id ELSE max_node_id

\* tee_fs_htree_truncate(): the nodes that stay.
NodesKept(len) == LET id == len \div BLOCK_SIZE + 1
                  IN IF id < max_node_id THEN id ELSE max_node_id

\* A node that stays, but for the root, has lost a child.
LosesChild(max) == \E n \in (max + 1) .. max_node_id : n \div 2 \in 2 .. max

Shrunk(max) ==
    /\ max_node_id' = max
    /\ image' = [n \in NodeIds |-> IF n \in Present(max) THEN image[n] ELSE NoImage]
    /\ block_updated' = block_updated \cap Present(max)

\* The head of an object is never cut off.
Shrinks(len) == Ready /\ 0 < len /\ len <= length

\* ree_fs_truncate() to a smaller size, up to the sync: everything behind the
\* last block that can still be needed goes at once.
Shrink(len) ==
    LET cut == BlockPbn(RoundUp(len), 1)
        max == NodesKept(len)
        nodesLeft == [n \in NodeIds |-> IF NodePbn(n) > cut THEN Empty(NodeIds)[n] ELSE nodes[n]]
        blocksLeft == [b \in BlockNums |-> [v \in Versions |->
                          IF BlockPbn(b, v) > cut THEN None ELSE blocks[b][v]]]
    IN
    /\ Shrinks(len)
    /\ Shrunk(max)
    /\ nodes' = nodesLeft /\ blocks' = blocksLeft
    /\ length' = len
    /\ dirty' = (dirty \cap Present(max)) \cup {1}
    /\ pc' = "start" /\ op' = "write"
    /\ ops' = ops + 1
    /\ data' = [data EXCEPT !.length = len]
    /\ harm' = harm \cup Retry \cup (IF LosesChild(max) THEN {"stale"} ELSE {})
                \cup (IF <<nodesLeft, blocksLeft>> # <<nodes, blocks>> THEN {"cut"} ELSE {})
                \cup (IF len = length THEN {"same"} ELSE {})
    /\ UNCHANGED <<heads, dir, fh, ht, counter, todo, faults, stamp, good>>

\* The RPC fails: the nodes are gone from a tree that stays open.
ShrinkFails(len) ==
    LET max == NodesKept(len) IN
    /\ Shrinks(len) /\ Fault
    /\ Shrunk(max)
    /\ ops' = ops + 1
    /\ harm' = harm \cup (IF max < max_node_id THEN {"short"} ELSE {})
    /\ dirty' = dirty \cap Present(max)
    /\ UNCHANGED <<file, dir, fh, ht, counter, length, call, stamp, data, good>>

\* ree_fs_read(): it changes nothing when it succeeds.
ReadFault ==
    /\ Ready /\ Fault /\ ops' = ops + 1
    /\ CloseTree
    /\ harm' = Abandoned
    /\ UNCHANGED <<file, dir, fh, call, stamp, data, good>>

ReadCorrupt ==
    /\ Ready
    /\ \E b \in 0 .. RoundUp(length) - 1 :
          b + 1 \in Present(max_node_id) /\ ~Legible(image, max_node_id, b)
    /\ Removed

\* ree_fs_open(); an object that is corrupt is removed.
Open ==
    /\ pc = "idle" /\ ~fh /\ dir # None
    /\ \E v \in Versions :
          /\ Opens(dir, v)
          /\ fh' = TRUE /\ ht' = TRUE
          /\ counter' = heads[v].counter
          /\ max_node_id' = heads[v].max_node_id
          /\ length' = heads[v].length
          /\ LET img == Loaded(nodes[1][v], heads[v].max_node_id)
             IN image' = [n \in NodeIds |-> IF img[n] = None THEN NoImage ELSE img[n]]
          /\ data' = good
    /\ UNCHANGED <<file, dir, dirty, block_updated, call, ops, faults, stamp, good, harm>>

OpenCorrupt ==
    /\ pc = "idle" /\ ~fh /\ dir # None
    /\ \A v \in Versions : ~Opens(dir, v)
    /\ Removed

\* ree_fs_close()
Close ==
    /\ pc = "idle" /\ fh
    /\ fh' = FALSE /\ CloseTree
    /\ harm' = Abandoned
    /\ data' = good
    /\ UNCHANGED <<file, dir, call, ops, faults, stamp, good>>

----------------------------------------------------------------------------
\* All memory is lost.
Restart ==
    /\ fh' = FALSE /\ CloseTree /\ EndOp
    /\ harm' = Abandoned
    /\ data' = good
    /\ UNCHANGED <<file, dir, ops, stamp, good>>

Crash ==
    /\ fh \/ pc # "idle"
    /\ Fault /\ Restart

\* An operation on a handle whose tree an error has closed takes the address
\* of the length from a NULL pointer (tee_fs_htree_get_meta()) and reads it:
\* the core aborts, and has to be started again.
UseClosed ==
    /\ pc = "idle" /\ fh /\ ~ht
    /\ Restart
    /\ UNCHANGED faults

Next ==
    \/ \E len \in Offsets : Extend(len) \/ Shrink(len) \/ ShrinkFails(len)
    \/ \E pos, end \in Offsets : Create(pos, end) \/ Write(pos, end)
    \/ WriteBlock \/ WriteBlockFails \/ StopEarly \/ ReadFails \/ ReadFault \/ ReadCorrupt
    \/ SyncNode \/ SyncNotStarted \/ SyncNodeFails \/ WriteHead \/ WriteHeadFails \/ WriteDummyHead
    \/ Commit \/ CommitFails \/ CommitUnconfirmed
    \/ Open \/ OpenCorrupt \/ Close \/ Crash \/ UseClosed

Spec == Init /\ [][Next]_vars

----------------------------------------------------------------------------
\* Properties

\* The object can be opened and has the contents c.
Intact(c) ==
    \E v \in Versions :
       /\ Opens(dir, v)
       /\ heads[v].length = c.length
       /\ LET img == Loaded(nodes[1][v], heads[v].max_node_id)
          IN \A b \in 0 .. RoundUp(c.length) - 1 :
                Legible(img, heads[v].max_node_id, b) /\ img[b + 1].tag = c.block[b]

\* fs_htree.h: "On-disk data structures are duplicated to make updates
\* atomic".  At any moment, in the middle of an operation and whatever RPCs
\* have failed, the file opens under the hash in the directory with the
\* contents of the last operation that was committed, unless harm tells why
\* it may not.
CommittedIntact == dir # None /\ harm = {} => Intact(good)

\* What is written through a handle is what it reads, in the middle of an
\* operation too, and after failed ones.
HandleReads ==
    ht /\ harm \cap {"short", "lost"} = {} =>
       \A b \in 0 .. RoundUp(length) - 1 :
          Legible(image, max_node_id, b) /\ image[b + 1].tag = data.block[b]

\* The same without the exceptions: when no operation is in progress, the
\* object can be opened and is what was last committed.
UpdatesAtomic == dir # None /\ pc = "idle" => Intact(good)

\* The open tree is in its types, and a handle reads what was written through it
\* (tee_fs_htree_read_block() after any sequence of writes, truncations and errors).
OpenFileOK == TypeOK /\ HandleReads
=============================================================================
