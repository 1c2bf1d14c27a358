------------------------------ MODULE SkipList ------------------------------
(***************************************************************************)
(* The skip list under a memtable (leveldb db/skiplist.h): one writer,     *)
(* serialised by the database's writer queue, inserts while readers search *)
(* without any lock.  A step is one load or one store of a shared pointer, *)
(* so a reader may see a node that is linked on some levels only, and a    *)
(* list height that the links do not support yet.                          *)
(***************************************************************************)
EXTENDS Integers, FiniteSets

CONSTANTS Keys,        \* the keys that may be inserted
          kMaxHeight   \* number of levels

KeysAssumption == Keys \subseteq Nat \ {0}
HeightAssumption == kMaxHeight \in Nat \ {0}

VARIABLES
    next,         \* next[n][l]: the next_ array of node n
    height,       \* number of links node n was allocated with, 0: no node
    max_height,   \* max_height_
    w,            \* the writer inside Insert
    r             \* a reader with its iterator and its running search

listVars == <<next, height, max_height, w, r>>

head == 0
NULL == -1
Garbage == -2     \* what arena memory holds before it is written
Levels == 0..(kMaxHeight - 1)
Nodes == {head} \cup Keys
Pointers == Nodes \cup {NULL, Garbage}

(* What a reader can reach: the keys linked on level 0 of the list. *)
Inserted ==
    {k \in Keys : height[k] > 0 /\ (w.pc \in {"init", "link"} /\ w.key = k => w.i > 0)}

KeyIsAfterNode(key, n) == n # NULL /\ n < key

(* Loads that would leave the node or follow an unwritten word. *)
WildLoad(x, l) == x \notin Nodes \/ height[x] <= l \/ next[x][l] = Garbage

---------------------------------------------------------------------------
SkipListInit ==
    /\ next = [n \in Nodes |-> [l \in Levels |-> IF n = head THEN NULL ELSE Garbage]]
    /\ height = [n \in Nodes |-> IF n = head THEN kMaxHeight ELSE 0]
    /\ max_height = 1
    /\ w = [pc |-> "idle", key |-> head, x |-> head, level |-> 0, i |-> 0,
            prev |-> [l \in Levels |-> Garbage]]
    /\ r = [pc |-> "idle", op |-> "none", arg |-> head, x |-> head, level |-> 0,
            node |-> NULL, before |-> {}]

(* Insert: the search that fills prev[], one load per step. *)
BeginInsert(k) ==
    /\ w.pc = "idle" /\ height[k] = 0
    /\ w' = [w EXCEPT !.pc = "find", !.key = k, !.x = head, !.level = max_height - 1,
                !.prev = [l \in Levels |-> Garbage]]
    /\ UNCHANGED <<next, height, max_height, r>>

(* Mutant: the search stays on its level. *)
NextList_Same(level) == IF level = 0 THEN -1 ELSE level
(* "Switch to next list": one level down, -1 once level 0 is done. *)
NextList(level) == level - 1

(* One turn of the loop of FindGreaterOrEqual: where the search goes next. *)
SearchStep(s, key, n) ==
    IF KeyIsAfterNode(key, n) THEN [s EXCEPT !.x = n]
    ELSE [s EXCEPT !.level = NextList(@)]

InsertSearch ==
    /\ w.pc = "find" /\ w.level >= 0
    /\ LET n == next[w.x][w.level]
           s == SearchStep(w, w.key, n)
       IN w' = IF s.level = w.level THEN s
               ELSE [s EXCEPT !.prev[w.level] = w.x]
    /\ UNCHANGED <<next, height, max_height, r>>

RandomHeight == 1..kMaxHeight

(* Mutant: prev[] is left unwritten on the levels the node adds. *)
AllocateNode_PrevNotRaised(h) ==
    /\ w.pc = "find" /\ w.level < 0
    /\ height' = [height EXCEPT ![w.key] = h]
    /\ max_height' = IF h > max_height THEN h ELSE max_height
    /\ w' = [w EXCEPT !.pc = "init", !.i = 0]
    /\ UNCHANGED <<next, r>>

(* A height that raises the list: prev[] is completed with head_, and      *)
(* max_height_ is stored before any link of the new level exists.          *)
AllocateNode(h) ==
    /\ w.pc = "find" /\ w.level < 0
    /\ height' = [height EXCEPT ![w.key] = h]
    /\ max_height' = IF h > max_height THEN h ELSE max_height
    /\ w' = [w EXCEPT !.pc = "init", !.i = 0,
                !.prev = [l \in Levels |-> IF l \in max_height..(h - 1) THEN head ELSE @[l]]]
    /\ UNCHANGED <<next, r>>

(* Mutant: the node is published before its own link is written. *)
SetOwnLink_PublishedFirst ==
    /\ w.pc = "init"
    /\ next' = [next EXCEPT ![w.prev[w.i]][w.i] = w.key]
    /\ w' = IF w.i + 1 < height[w.key] THEN [w EXCEPT !.i = @ + 1]
            ELSE [w EXCEPT !.pc = "idle"]
    /\ UNCHANGED <<height, max_height, r>>

SetOwnLink ==
    /\ w.pc = "init"
    /\ next' = [next EXCEPT ![w.key][w.i] = next[w.prev[w.i]][w.i]]
    /\ w' = [w EXCEPT !.pc = "link"]
    /\ UNCHANGED <<height, max_height, r>>

Publish ==
    /\ w.pc = "link"
    /\ next' = [next EXCEPT ![w.prev[w.i]][w.i] = w.key]
    /\ w' = IF w.i + 1 < height[w.key] THEN [w EXCEPT !.pc = "init", !.i = @ + 1]
            ELSE [w EXCEPT !.pc = "idle"]
    /\ UNCHANGED <<height, max_height, r>>

---------------------------------------------------------------------------
(* The reader.  max_height_ is loaded without a barrier, so any value it   *)
(* has held since the list was made may be returned.                       *)
GetMaxHeight == 1..max_height

Started(op, arg) ==
    [r EXCEPT !.op = op, !.arg = arg, !.x = head, !.before = Inserted]

BeginSearch(op, arg) ==
    /\ \E h \in GetMaxHeight : r' = [Started(op, arg) EXCEPT !.pc = op, !.level = h - 1]
    /\ UNCHANGED <<next, height, max_height, w>>

Seek(target) == r.pc = "idle" /\ BeginSearch("Seek", target)
SeekToLast == r.pc = "idle" /\ BeginSearch("SeekToLast", head)
Prev == r.pc = "idle" /\ r.node # NULL /\ BeginSearch("Prev", r.node)

(* SeekToFirst and Next are one load of a level-0 link. *)
LoadFirst(op, n) ==
    /\ r' = [Started(op, n) EXCEPT !.node = next[n][0]]
    /\ UNCHANGED <<next, height, max_height, w>>

SeekToFirst == r.pc = "idle" /\ LoadFirst("SeekToFirst", head)
NextNode == r.pc = "idle" /\ r.node # NULL /\ LoadFirst("Next", r.node)

(* Mutant: FindLessThan also follows a link to the key itself. *)
Follows_Equal(n) ==
    IF r.pc = "SeekToLast" THEN n # NULL ELSE n # NULL /\ n <= r.arg

(* Which links the three searches follow: FindGreaterOrEqual and           *)
(* FindLessThan stop before the key, FindLast before NULL.                 *)
Follows(n) ==
    IF r.pc = "SeekToLast" THEN n # NULL ELSE KeyIsAfterNode(r.arg, n)

(* Mutant: head_ is handed out as if it were an entry. *)
Found_Head(n) ==
    IF r.pc = "Seek" THEN n ELSE r.x

(* What a search that has left level 0 puts into the iterator. *)
Found(n) ==
    IF r.pc = "Seek" THEN n
    ELSE IF r.x = head THEN NULL ELSE r.x

ReaderStep ==
    /\ r.pc \in {"Seek", "SeekToLast", "Prev"}
    /\ LET n == next[r.x][r.level]
       IN r' = IF Follows(n) THEN [r EXCEPT !.x = n]
               ELSE IF r.level > 0 THEN [r EXCEPT !.level = NextList(@)]
               ELSE [r EXCEPT !.pc = "idle", !.node = Found(n)]
    /\ UNCHANGED <<next, height, max_height, w>>

WriterStep ==
    \/ InsertSearch
    \/ \E h \in RandomHeight : AllocateNode(h)
    \/ SetOwnLink
    \/ Publish

ReaderCall ==
    \/ \E t \in Keys : Seek(t)
    \/ SeekToFirst
    \/ SeekToLast
    \/ NextNode
    \/ Prev

SkipListNext ==
    \/ \E k \in Keys : BeginInsert(k)
    \/ WriterStep
    \/ ReaderCall
    \/ ReaderStep

SkipListSpec == SkipListInit /\ [][SkipListNext]_listVars

(* Readers and the writer are threads the scheduler runs; nobody is        *)
(* obliged to call Insert or a search.                                     *)
SkipListFairSpec ==
    SkipListSpec /\ WF_listVars(WriterStep) /\ WF_listVars(ReaderStep)

---------------------------------------------------------------------------
(* Properties. *)
TypeOK ==
    /\ next \in [Nodes -> [Levels -> Pointers]]
    /\ height \in [Nodes -> 0..kMaxHeight]
    /\ max_height \in 1..kMaxHeight
    /\ w \in [pc : {"idle", "find", "init", "link"}, key : Nodes, x : Nodes,
              level : -1..(kMaxHeight - 1), i : Levels,
              prev : [Levels -> Nodes \cup {Garbage}]]
    /\ r \in [pc : {"idle", "Seek", "SeekToLast", "Prev"},
              op : {"none", "Seek", "SeekToFirst", "SeekToLast", "Next", "Prev"},
              arg : Nodes, x : Nodes, level : Levels,
              node : Keys \cup {NULL}, before : SUBSET Keys]

(* No load of the writer or of a reader, also of one that has seen a new   *)
(* max_height_ or a half-linked node, leaves the node's array or follows a *)
(* word of next_ that was never written (the acquire and release comments  *)
(* of Node::Next and Node::SetNext).                                       *)
NoWildLoad ==
    /\ r.pc # "idle" => ~WildLoad(r.x, r.level)
    /\ r.node # NULL => ~WildLoad(r.node, 0)
    /\ w.pc = "find" /\ w.level >= 0 => ~WildLoad(w.x, w.level)
    /\ w.pc \in {"init", "link"} => ~WildLoad(w.prev[w.i], w.i)

(* Linked n m on level l: no node that Insert has put on level l lies      *)
(* between them, so the level is the sorted list of the nodes that reach   *)
(* it, in the middle of an Insert too.                                     *)
OnLevel(k, l) ==
    /\ height[k] > l
    /\ w.pc \in {"init", "link"} /\ w.key = k => w.i > l
LevelsAreSortedLists ==
    \A n \in Nodes, l \in Levels :
        (n = head \/ OnLevel(n, l)) =>
            LET m == next[n][l]
            IN /\ m = NULL \/ (m \in Keys /\ m > n /\ OnLevel(m, l))
               /\ \A k \in Keys : OnLevel(k, l) /\ k > n => m # NULL /\ m <= k

(* A finished call has positioned the iterator as if the entries present   *)
(* when it began, and perhaps some that arrived meanwhile, were a sorted   *)
(* sequence: nothing that was there is stepped over.                       *)
IteratorSkipsNothing ==
    r.pc = "idle" /\ r.op # "none" =>
        /\ r.node # NULL => r.node \in Inserted
        /\ r.op \in {"Seek", "SeekToFirst"} =>
              /\ r.node # NULL => r.node >= r.arg
              /\ \A k \in r.before : k >= r.arg => r.node # NULL /\ r.node <= k
        /\ r.op = "Next" =>
              /\ r.node # NULL => r.node > r.arg
              /\ \A k \in r.before : k > r.arg => r.node # NULL /\ r.node <= k
        /\ r.op = "Prev" =>
              /\ r.node # NULL => r.node < r.arg
              /\ \A k \in r.before : k < r.arg => r.node # NULL /\ r.node >= k
        /\ r.op = "SeekToLast" =>
              \A k \in r.before : r.node # NULL /\ r.node >= k

(* A search ends although the list grows under it: the writer runs out of  *)
(* keys and every load moves the reader to the right or down.              *)
SearchEnds == r.pc # "idle" ~> r.pc = "idle"
InsertEnds == w.pc # "idle" ~> w.pc = "idle"

(* The three together: what a reader without a lock relies on. *)
ReadersSeeTheList == NoWildLoad /\ LevelsAreSortedLists /\ IteratorSkipsNothing
=============================================================================
