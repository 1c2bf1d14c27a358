------------------------------- MODULE DBIter -------------------------------
(***************************************************************************)
(* A database iterator: DBIter (db/db_iter.cc) over a MergingIterator      *)
(* (table/merger.cc) over the memtable and the tables.  A call walks over  *)
(* many internal entries; the writer inserts into the memtable between any *)
(* two of those steps.                                                     *)
(*                                                                         *)
(* An entry is <<user key, sequence number, type>> and its value is the    *)
(* sequence number.  An iterator of a memtable or a table stands on an     *)
(* entry of it, or nowhere.  The type of one entry of a table may have     *)
(* become one that cannot be parsed, "bad".                                *)
(***************************************************************************)
EXTENDS Integers, FiniteSets, FiniteSetsExt

CONSTANTS Keys, Children,   \* user keys; the children, 1 is the memtable
          Snapshot,         \* sequence_ of the iterator
          MaxSequence       \* numbers up to this one are written while it is in use

DBIterAssumption ==
    /\ Keys \subseteq Nat \ {0} /\ Children \in Nat \ {0}
    /\ Snapshot \in Nat /\ MaxSequence \in Nat /\ Snapshot <= MaxSequence

VARIABLES entries,   \* the entries of each child
          merge,     \* MergingIterator: the children's places, current_, direction_
          pc,        \* how far the running call of DBIter is
          direction, valid, saved_key, saved_value, status,   \* members of DBIter
          skip, type, \* skipping and its key; value_type of FindPrevUserEntry
          last,      \* LastSequence of the database
          view,      \* history: the key's values when the iterator was made
          call,      \* history: the call that runs or ran last
          before     \* history: the call before it and where that left the iterator

dbiter == <<direction, valid, saved_key, saved_value, status, skip, type>>
vars == <<entries, merge, pc, dbiter, last, view, call, before>>

children == 1..Children
None == <<0, 0, "none">>
Less(a, b) == a[1] < b[1] \/ (a[1] = b[1] /\ a[2] > b[2])
Smallest(es) == IF es = {} THEN None ELSE CHOOSE e \in es : \A o \in es \ {e} : Less(e, o)
Largest(es) == IF es = {} THEN None ELSE CHOOSE e \in es : \A o \in es \ {e} : Less(o, e)

---------------------------------------------------------------------------
(* The children. *)
SeekIn(i, e) == Smallest({o \in entries[i] : ~Less(o, e)})
NextIn(i, e) == Smallest({o \in entries[i] : Less(e, o)})
PrevIn(i, e) == Largest({o \in entries[i] : Less(o, e)})

(* MergingIterator.  current_ is the first of the smallest children, or the *)
(* last of the largest, 0 when none is valid.                               *)
ValidChildren(places) == {i \in children : places[i] # None}
FindSmallest(places) ==
    LET v == ValidChildren(places) IN
    IF v = {} THEN 0 ELSE Min({i \in v : \A j \in v : ~Less(places[j], places[i])})
FindLargest(places) ==
    LET v == ValidChildren(places) IN
    IF v = {} THEN 0 ELSE Max({i \in v : \A j \in v : ~Less(places[i], places[j])})
Forward(places) ==
    [places |-> places, current |-> FindSmallest(places), direction |-> "forward"]
Reverse(places) ==
    [places |-> places, current |-> FindLargest(places), direction |-> "reverse"]

Valid(m) == m.current # 0
At(m) == m.places[m.current]

MergeSeek(e) == Forward([i \in children |-> SeekIn(i, e)])
MergeSeekToFirst == Forward([i \in children |-> Smallest(entries[i])])
MergeSeekToLast == Reverse([i \in children |-> Largest(entries[i])])

(* Changing direction puts the other children just after, or just before,   *)
(* the current entry.                                                       *)
AfterCurrent(m) ==
    [i \in children |->
       IF m.direction = "forward" \/ i = m.current THEN m.places[i]
       ELSE LET found == SeekIn(i, At(m)) IN IF found = At(m) THEN NextIn(i, found) ELSE found]
BeforeCurrent(m) ==
    [i \in children |->
       IF m.direction = "reverse" \/ i = m.current THEN m.places[i]
       ELSE LET found == SeekIn(i, At(m))
            IN  IF found # None THEN PrevIn(i, found) ELSE Largest(entries[i])]
MergeNext(m) == Forward([AfterCurrent(m) EXCEPT ![m.current] = NextIn(m.current, @)])
MergePrev(m) == Reverse([BeforeCurrent(m) EXCEPT ![m.current] = PrevIn(m.current, @)])

---------------------------------------------------------------------------
(* What the writes up to the snapshot left: the newest value of each key.   *)
Parses(e) == e[3] # "bad"
Newest(es, k) == LET seen == {e \in es : e[1] = k /\ e[2] <= Snapshot /\ Parses(e)}
                 IN  IF seen = {} \/ Smallest(seen)[3] = "del" THEN 0 ELSE Smallest(seen)[2]

Damaged(es, at) == {IF e[2] = at THEN <<e[1], e[2], "bad">> ELSE e : e \in es}
InitialEntries ==
    {[i \in children |->
        LET es == {<<f[n][1], n, f[n][2]>> : n \in {m \in DOMAIN f : f[m][3] = i}}
        IN  IF i = 1 THEN es ELSE Damaged(es, at)] :
       f \in [1..Snapshot -> Keys \X {"put", "del"} \X children], at \in 0..Snapshot}

Init ==
    /\ entries \in InitialEntries
    /\ view = [k \in Keys |-> Newest(UNION {entries[i] : i \in children}, k)]
    /\ merge = Forward([i \in children |-> None])
    /\ pc = "idle" /\ direction = "forward" /\ valid = FALSE
    /\ saved_key = 0 /\ saved_value = 0 /\ skip = [on |-> FALSE, key |-> 0] /\ type = "del"
    /\ status = "ok"
    /\ last = Snapshot /\ call = <<"none", 0>> /\ before = [at |-> <<0, 0>>, call |-> <<"none", 0>>]

(* A write of another thread. *)
Insert(k, t) ==
    /\ last < MaxSequence /\ last' = last + 1
    /\ entries' = [entries EXCEPT ![1] = @ \cup {<<k, last + 1, t>>}]
    /\ UNCHANGED <<merge, pc, dbiter, view, call, before>>

(* key() and value(). *)
Position ==
    IF ~valid THEN <<0, 0>>
    ELSE IF direction = "forward" THEN <<At(merge)[1], At(merge)[2]>>
    ELSE <<saved_key, saved_value>>

Call(name, arg) ==
    /\ pc = "idle" /\ call' = <<name, arg>> /\ before' = [at |-> Position, call |-> call]
    /\ UNCHANGED <<entries, last, view>>
Within == UNCHANGED <<entries, last, view, call, before>>

---------------------------------------------------------------------------
(* After a seek: FindNextUserEntry without a key to skip, if the merged     *)
(* iterator is valid.                                                       *)
Seeked(m) ==
    /\ merge' = m /\ direction' = "forward" /\ saved_value' = 0
    /\ skip' = [on |-> FALSE, key |-> 0]
    /\ IF Valid(m) THEN pc' = "find_next" /\ UNCHANGED valid
                   ELSE pc' = "idle" /\ valid' = FALSE
    /\ UNCHANGED <<saved_key, status, type>>
Seek(target) == Call("seek", target) /\ Seeked(MergeSeek(<<target, Snapshot, "put">>))
SeekToFirst == Call("first", 0) /\ Seeked(MergeSeekToFirst)
SeekToLast ==
    /\ Call("last", 0) /\ merge' = MergeSeekToLast
    /\ direction' = "reverse" /\ saved_value' = 0 /\ type' = "del" /\ pc' = "find_prev"
    /\ UNCHANGED <<valid, saved_key, status, skip>>

Next ==
    LET m == IF direction = "forward" THEN merge
             ELSE IF Valid(merge) THEN MergeNext(merge) ELSE MergeSeekToFirst
        key == IF direction = "forward" THEN At(merge)[1] ELSE saved_key
    IN  /\ valid /\ Call("next", key) /\ direction' = "forward" /\ merge' = m
        /\ IF Valid(m) THEN /\ pc' = "find_next" /\ saved_key' = key
                            /\ skip' = [on |-> TRUE, key |-> key] /\ UNCHANGED valid
                       ELSE /\ pc' = "idle" /\ valid' = FALSE /\ saved_key' = 0
                            /\ UNCHANGED skip
        /\ UNCHANGED <<saved_value, status, type>>

(* ParseKey keeps the error it meets, and visible is what it lets pass. *)
ParseKey(e) == status' = IF Parses(e) THEN status ELSE "Corruption"
Visible(e) == Parses(e) /\ e[2] <= Snapshot

(* One round of FindNextUserEntry. *)
Hidden_Older(e) == skip.on /\ e[1] < skip.key
Hidden(e) == skip.on /\ e[1] <= skip.key
FindNextUserEntry_Continue ==
    LET e == At(merge)
        m == IF e[3] = "del" THEN merge ELSE MergeNext(merge)
    IN  /\ pc = "find_next" /\ Within /\ ParseKey(e)
        /\ IF Visible(e) /\ e[3] = "put" /\ ~Hidden(e)
             THEN valid' = TRUE /\ saved_key' = 0 /\ pc' = "idle" /\ UNCHANGED <<merge, skip>>
             ELSE /\ skip' = IF e[3] = "del" THEN [on |-> TRUE, key |-> e[1]] ELSE skip
                  /\ merge' = m
                  /\ IF Valid(m) THEN UNCHANGED <<pc, valid, saved_key>>
                                 ELSE pc' = "idle" /\ valid' = FALSE /\ saved_key' = 0
        /\ UNCHANGED <<direction, saved_value, type>>
FindNextUserEntry ==
    LET e == At(merge)
        m == MergeNext(merge)
    IN  /\ pc = "find_next" /\ Within /\ ParseKey(e)
        /\ IF Visible(e) /\ e[3] = "put" /\ ~Hidden(e)
             THEN valid' = TRUE /\ saved_key' = 0 /\ pc' = "idle" /\ UNCHANGED <<merge, skip>>
             ELSE /\ skip' = IF Visible(e) /\ e[3] = "del" THEN [on |-> TRUE, key |-> e[1]] ELSE skip
                  /\ merge' = m
                  /\ IF Valid(m) THEN UNCHANGED <<pc, valid, saved_key>>
                                 ELSE pc' = "idle" /\ valid' = FALSE /\ saved_key' = 0
        /\ UNCHANGED <<direction, saved_value, type>>

(* Prev, and one round of its scan back over the entries of the key. *)
Prev ==
    /\ valid /\ Call("prev", Position[1]) /\ type' = "del"
    /\ IF direction = "forward" THEN saved_key' = At(merge)[1] /\ pc' = "scan_back"
                                ELSE pc' = "find_prev" /\ UNCHANGED saved_key
    /\ UNCHANGED <<merge, direction, valid, saved_value, status, skip>>
ScanBack ==
    LET m == MergePrev(merge) IN
    /\ pc = "scan_back" /\ Within /\ merge' = m
    /\ \/ /\ ~Valid(m) /\ pc' = "idle" /\ valid' = FALSE /\ saved_key' = 0 /\ saved_value' = 0
          /\ UNCHANGED direction
       \/ /\ Valid(m) /\ At(m)[1] < saved_key /\ pc' = "find_prev" /\ direction' = "reverse"
          /\ UNCHANGED <<valid, saved_key, saved_value>>
       \/ /\ Valid(m) /\ At(m)[1] >= saved_key
          /\ UNCHANGED <<pc, direction, valid, saved_key, saved_value>>
    /\ UNCHANGED <<status, skip, type>>

(* One round of FindPrevUserEntry: the newest visible entry of a key is the *)
(* last one met; the loop ends at the key before.                           *)
FindPrevUserEntry_AnySequence ==
    LET e == At(merge)
    IN  /\ pc = "find_prev" /\ Within /\ Valid(merge) /\ ParseKey(e)
        /\ ~(Visible(e) /\ type # "del" /\ e[1] < saved_key)
        /\ type' = e[3] /\ saved_key' = IF e[3] = "del" THEN 0 ELSE e[1]
        /\ saved_value' = IF e[3] = "del" THEN 0 ELSE e[2]
        /\ merge' = MergePrev(merge)
        /\ UNCHANGED <<pc, direction, valid, skip>>
FindPrevUserEntry ==
    LET e == At(merge)
    IN  /\ pc = "find_prev" /\ Within /\ Valid(merge) /\ ParseKey(e)
        /\ ~(Visible(e) /\ type # "del" /\ e[1] < saved_key)
        /\ IF Visible(e) THEN /\ type' = e[3]
                              /\ saved_key' = IF e[3] = "del" THEN 0 ELSE e[1]
                              /\ saved_value' = IF e[3] = "del" THEN 0 ELSE e[2]
                         ELSE UNCHANGED <<type, saved_key, saved_value>>
        /\ merge' = MergePrev(merge)
        /\ UNCHANGED <<pc, direction, valid, skip>>
FoundPrev ==
    /\ pc = "find_prev" /\ Within /\ pc' = "idle"
    /\ Valid(merge) => /\ Visible(At(merge)) /\ type # "del"
                       /\ At(merge)[1] < saved_key
    /\ IF type = "del" THEN /\ valid' = FALSE /\ saved_key' = 0 /\ saved_value' = 0
                            /\ direction' = "forward"
                       ELSE valid' = TRUE /\ UNCHANGED <<saved_key, saved_value, direction>>
    /\ UNCHANGED <<merge, status, skip, type>>

Step == FindNextUserEntry \/ ScanBack \/ FindPrevUserEntry \/ FoundPrev
Steps ==
    \/ \E target \in Keys : Seek(target)
    \/ SeekToFirst \/ SeekToLast \/ Next \/ Prev \/ Step
    \/ \E k \in Keys, t \in {"put", "del"} : Insert(k, t)

Spec == Init /\ [][Steps]_vars
FairSpec == Spec /\ WF_vars(Step)

---------------------------------------------------------------------------
(* The iterator is a cursor over the moment it was made: every call moves   *)
(* it to the key and value a reader of that snapshot expects, in both       *)
(* directions and across changes of direction, over deletions, overwritten  *)
(* values and entries written since.                                        *)
Abstract == INSTANCE Cursor WITH view <- view,
                                 at <- IF pc = "idle" THEN Position ELSE before.at,
                                 call <- IF pc = "idle" THEN call ELSE before.call
IsACursor == Abstract!Spec

(* A scan from either end that has passed over an entry it could not parse  *)
(* says so, whatever it has found since and when it has come to the end.    *)
Passed(e) ==
    CASE call[1] = "first" -> ~valid \/ Less(e, At(merge))
      [] call[1] = "last" -> ~valid \/ e[1] > saved_key
      [] OTHER -> FALSE
CorruptionIsReported ==
    pc = "idle" => \A i \in children : \A e \in entries[i] :
                     ~Parses(e) /\ Passed(e) => status = "Corruption"

(* Every call returns, however entries and deletions lie. *)
CallsReturn == pc # "idle" ~> pc = "idle"
=============================================================================
