-------------------------------- MODULE CApi --------------------------------
(***************************************************************************)
(* The C binding (db/c.cc): C programs hold handles, each of which owns a  *)
(* C++ object or points to a shared one, strings are handed over with      *)
(* malloc, and errors are left in *errptr.  What the objects behind the    *)
(* handles do is in the other modules; here a call uses the objects it     *)
(* reaches, which must still be there.                                     *)
(*                                                                         *)
(* The program keeps the rules of c.h: it destroys what it created, once,  *)
(* iterators and snapshots before their database, what the options name    *)
(* after it, and frees what it was given.                                  *)
(***************************************************************************)
EXTENDS Naturals, FiniteSets, FiniteSetsExt, Functions, TLC

CONSTANTS
    Iterators, Snapshots,   \* handles of these kinds
    Errors,                 \* texts of failures
    Blocks                  \* addresses of strings, positive

CApiAssumption == Blocks \subseteq Nat \ {0} /\ IsFiniteSet(Blocks)

VARIABLES
    handles,    \* the ones the program holds
    objects,    \* C++ objects and user states that are alive
    options,    \* what the leveldb_options_t points to
    opened,     \* the copy of it the database was opened with
    reading,    \* snapshot of the leveldb_readoptions_t, if it has one
    blocks,     \* strings on the heap
    errptr,     \* the program's error pointer
    given,      \* strings that the program was given and has not freed
    latest,     \* history: the latest failure that was not cleared
    bad         \* something was used or freed that is not alive
vars == <<handles, objects, options, opened, reading, blocks, errptr, given, latest, bad>>

NULL == 0
Named == {"env", "cache", "comparator", "filter_policy"}
\* Options::Options() names the default environment.
NewOptions == [n \in Named |-> n = "env"]

\* Env::Default() and the built-in comparator live for ever.
Init ==
    /\ handles = {} /\ objects = {"default env"} /\ options = NewOptions /\ opened = NewOptions
    /\ reading = {} /\ blocks = <<>> /\ errptr = NULL /\ given = {} /\ latest = "" /\ bad = FALSE

Has(h) == h \in handles
Uses(S) == bad' = (bad \/ ~(S \subseteq objects))

\* The object a handle for one of the options leads to.
Rep(n) == IF n = "env" THEN "default env" ELSE n
\* Every call of the database may reach all that it was opened with.
DbUses == {"db"} \cup {Rep(n) : n \in {k \in Named : opened[k]}}

(* --------------------------------- strings ----------------------------- *)
Room == Cardinality(DOMAIN blocks) + 2 <= Cardinality(Blocks)
Fresh(b) == Min(Blocks \ DOMAIN b)
Without(b, p) == Restrict(b, DOMAIN b \ {p})

SaveError_KeepsFirst(s) ==
    IF s = "ok" THEN UNCHANGED <<blocks, errptr, latest>>
    ELSE /\ latest' = s
         /\ IF errptr # NULL THEN UNCHANGED <<blocks, errptr>>
            ELSE errptr' = Fresh(blocks) /\ blocks' = (Fresh(blocks) :> s) @@ blocks
(* An error that is already there is freed and replaced. *)
SaveError(s) ==
    IF s = "ok" THEN UNCHANGED <<blocks, errptr, latest>>
    ELSE LET left == Without(blocks, errptr)
         IN /\ errptr' = Fresh(left) /\ blocks' = (Fresh(left) :> s) @@ left /\ latest' = s

CopyString == LET p == Fresh(blocks)
              IN blocks' = (p :> "result") @@ blocks /\ given' = given \cup {p}

Statuses == {"ok"} \cup Errors
strings == <<blocks, errptr, latest>>

(* --------------------------------- database ---------------------------- *)
leveldb_open(s) ==
    /\ Has("options") /\ ~Has("db") /\ options["env"] /\ Room
    /\ SaveError(s) /\ Uses({Rep(n) : n \in {k \in Named : options[k]}})
    /\ IF s # "ok" THEN UNCHANGED <<handles, objects, opened>>
       ELSE /\ handles' = handles \cup {"db"} /\ objects' = objects \cup {"db"}
            /\ opened' = options
    /\ UNCHANGED <<options, reading, given>>

leveldb_close_Handle ==
    /\ Has("db") /\ handles \cap (Iterators \cup Snapshots) = {}
    /\ Uses(DbUses) /\ handles' = handles \ {"db"}
    /\ opened' = NewOptions /\ UNCHANGED <<objects, options, reading, strings, given>>
leveldb_close ==
    /\ Has("db") /\ handles \cap (Iterators \cup Snapshots) = {}
    /\ Uses(DbUses) /\ objects' = objects \ {"db"} /\ handles' = handles \ {"db"}
    /\ opened' = NewOptions /\ UNCHANGED <<options, reading, strings, given>>

\* leveldb_put, leveldb_delete
leveldb_put(s) ==
    /\ Has("db") /\ Has("writeoptions") /\ Room /\ SaveError(s) /\ Uses(DbUses)
    /\ UNCHANGED <<handles, objects, options, opened, reading, given>>

leveldb_write(s) ==
    /\ Has("db") /\ Has("writeoptions") /\ Has("writebatch") /\ Room
    /\ SaveError(s) /\ Uses(DbUses \cup {"writebatch"})
    /\ UNCHANGED <<handles, objects, options, opened, reading, given>>

\* What a read goes by: the snapshot of its options.
ReadUses == DbUses \cup reading

(* A key that is not found is no error and no string. *)
leveldb_get(s) ==
    /\ Has("db") /\ Has("readoptions") /\ Room /\ Uses(ReadUses)
    /\ CASE s = "ok" -> CopyString /\ UNCHANGED <<errptr, latest>>
         [] s = "not found" -> UNCHANGED <<strings, given>>
         [] OTHER -> SaveError(s) /\ UNCHANGED given
    /\ UNCHANGED <<handles, objects, options, opened, reading>>

leveldb_property_value(known) ==
    /\ Has("db") /\ Room /\ Uses(DbUses)
    /\ IF known THEN CopyString /\ UNCHANGED <<errptr, latest>> ELSE UNCHANGED <<strings, given>>
    /\ UNCHANGED <<handles, objects, options, opened, reading>>

\* leveldb_approximate_sizes, whose array is freed again, and
\* leveldb_compact_range.
leveldb_compact_range ==
    /\ Has("db") /\ Uses(DbUses)
    /\ UNCHANGED <<handles, objects, options, opened, reading, strings, given>>

\* leveldb_destroy_db, leveldb_repair_db
leveldb_repair_db(s) ==
    /\ Has("options") /\ ~Has("db") /\ options["env"] /\ Room
    /\ SaveError(s) /\ Uses({Rep(n) : n \in {k \in Named : options[k]}})
    /\ UNCHANGED <<handles, objects, options, opened, reading, given>>

(* --------------------------- iterators, snapshots ---------------------- *)
leveldb_create_iterator(i) ==
    /\ Has("db") /\ Has("readoptions") /\ ~Has(i) /\ Uses(ReadUses)
    /\ handles' = handles \cup {i} /\ objects' = objects \cup {i}
    /\ UNCHANGED <<options, opened, reading, strings, given>>
\* Positioning, key, value: the slices belong to the iterator.
leveldb_iter_use(i) ==
    /\ Has(i) /\ Uses(DbUses \cup {i})
    /\ UNCHANGED <<handles, objects, options, opened, reading, strings, given>>
leveldb_iter_get_error(i, s) ==
    /\ Has(i) /\ Room /\ SaveError(s) /\ Uses({i})
    /\ UNCHANGED <<handles, objects, options, opened, reading, given>>
leveldb_iter_destroy(i) ==
    /\ Has(i) /\ Uses(DbUses \cup {i})
    /\ handles' = handles \ {i} /\ objects' = objects \ {i}
    /\ UNCHANGED <<options, opened, reading, strings, given>>

leveldb_create_snapshot(s) ==
    /\ Has("db") /\ ~Has(s) /\ Uses(DbUses)
    /\ handles' = handles \cup {s} /\ objects' = objects \cup {s}
    /\ UNCHANGED <<options, opened, reading, strings, given>>
leveldb_release_snapshot(s) ==
    /\ Has(s) /\ s \notin reading /\ Uses(DbUses \cup {s})
    /\ handles' = handles \ {s} /\ objects' = objects \ {s}
    /\ UNCHANGED <<options, opened, reading, strings, given>>

(* ------------------------ batches and plain options -------------------- *)
Plain == {"writebatch", "readoptions", "writeoptions", "options"}
Create(h) ==
    /\ h \in Plain /\ ~Has(h)
    /\ handles' = handles \cup {h} /\ objects' = objects \cup {h}
    /\ reading' = (IF h = "readoptions" THEN {} ELSE reading)
    /\ options' = (IF h = "options" THEN NewOptions ELSE options)
    /\ UNCHANGED <<opened, strings, given, bad>>
Destroy(h) ==
    /\ h \in Plain /\ Has(h) /\ Uses({h})
    /\ handles' = handles \ {h} /\ objects' = objects \ {h}
    /\ reading' = (IF h = "readoptions" THEN {} ELSE reading)
    /\ options' = (IF h = "options" THEN NewOptions ELSE options)
    /\ UNCHANGED <<opened, strings, given>>
\* leveldb_writebatch_put, _delete, _clear and _iterate
leveldb_writebatch_use ==
    /\ Has("writebatch") /\ Uses({"writebatch"})
    /\ UNCHANGED <<handles, objects, options, opened, reading, strings, given>>
leveldb_readoptions_set_snapshot(S) ==
    /\ Has("readoptions") /\ S \subseteq handles /\ Uses({"readoptions"})
    /\ reading' = S
    /\ UNCHANGED <<handles, objects, options, opened, strings, given>>

(* -------------------- what the options of a database name -------------- *)
\* A comparator and a filter policy have a state of the program, which their
\* destructors give back; leveldb_filterpolicy_create_bloom has a policy.
State(n) == CASE n = "comparator" -> {"comparator state"}
              [] n = "filter_policy" -> {"filter state"}
              [] OTHER -> {}

CreateNamed(n) ==
    /\ n \in Named /\ ~Has(n) /\ handles' = handles \cup {n}
    /\ objects' = objects \cup {Rep(n)} \cup State(n)
    /\ UNCHANGED <<options, opened, reading, strings, given, bad>>

SetNamed(n, on) ==
    /\ n \in Named /\ Has("options") /\ (on => Has(n)) /\ (n = "cache" => on)
    /\ Uses({"options"}) /\ options' = [options EXCEPT ![n] = on]
    /\ UNCHANGED <<handles, objects, opened, reading, strings, given>>

DestroyNamed_Env(n) ==
    /\ n \in Named /\ Has(n) /\ (n # "env" => ~options[n] /\ (Has("db") => ~opened[n]))
    /\ Uses({Rep(n)} \cup State(n))
    /\ handles' = handles \ {n} /\ objects' = objects \ ({Rep(n)} \cup State(n))
    /\ UNCHANGED <<options, opened, reading, strings, given>>
(* leveldb_env_destroy does not delete the default environment. *)
DestroyNamed(n) ==
    /\ n \in Named /\ Has(n) /\ (n # "env" => ~options[n] /\ (Has("db") => ~opened[n]))
    /\ Uses({Rep(n)} \cup State(n)) /\ handles' = handles \ {n}
    /\ objects' = objects \ (IF n = "env" THEN {} ELSE {n} \cup State(n))
    /\ UNCHANGED <<options, opened, reading, strings, given>>

(* A flush asks a user's policy for a filter, which it allocates: append
   and free follow. *)
CreateFilter ==
    /\ Has("db") /\ opened["filter_policy"]
    /\ Uses(DbUses \cup State("filter_policy"))
    /\ UNCHANGED <<handles, objects, options, opened, reading, strings, given>>

(* ------------------------------ the program ---------------------------- *)
leveldb_free(p) ==
    /\ p \in given /\ bad' = (bad \/ p \notin DOMAIN blocks)
    /\ blocks' = Without(blocks, p) /\ given' = given \ {p}
    /\ UNCHANGED <<handles, objects, options, opened, reading, errptr, latest>>
ClearError ==
    /\ errptr # NULL /\ bad' = (bad \/ errptr \notin DOMAIN blocks)
    /\ blocks' = Without(blocks, errptr) /\ errptr' = NULL /\ latest' = ""
    /\ UNCHANGED <<handles, objects, options, opened, reading, given>>

Next ==
    \/ \E s \in Statuses :
         \/ leveldb_open(s) \/ leveldb_put(s) \/ leveldb_write(s) \/ leveldb_repair_db(s)
         \/ \E i \in Iterators : leveldb_iter_get_error(i, s)
    \/ \E s \in Statuses \cup {"not found"} : leveldb_get(s)
    \/ \E known \in BOOLEAN : leveldb_property_value(known)
    \/ leveldb_close \/ leveldb_compact_range \/ leveldb_writebatch_use \/ CreateFilter
    \/ \E i \in Iterators :
         leveldb_create_iterator(i) \/ leveldb_iter_use(i) \/ leveldb_iter_destroy(i)
    \/ \E s \in Snapshots : leveldb_create_snapshot(s) \/ leveldb_release_snapshot(s)
    \/ \E S \in {{}} \cup {{s} : s \in Snapshots} : leveldb_readoptions_set_snapshot(S)
    \/ \E h \in Plain : Create(h) \/ Destroy(h)
    \/ \E n \in Named : CreateNamed(n) \/ DestroyNamed(n) \/ \E on \in BOOLEAN : SetNamed(n, on)
    \/ \E p \in Blocks : leveldb_free(p)
    \/ ClearError

Spec == Init /\ [][Next]_vars

---------------------------------------------------------------------------
(***************************************************************************)
(* No call of a program that keeps the rules reaches an object or a string *)
(* that is gone, however many databases, environments and options it has   *)
(* created and destroyed before.                                           *)
(***************************************************************************)
NothingDeadIsUsed == ~bad

(***************************************************************************)
(* What is allocated is what the program can still give back: the objects  *)
(* of its handles, the strings it was given and the error it holds.        *)
(***************************************************************************)
EverythingIsReturnable ==
    /\ objects \subseteq {"default env"} \cup {Rep(n) : n \in handles \cap Named}
                    \cup UNION {State(n) : n \in handles \cap Named} \cup (handles \ Named)
    /\ DOMAIN blocks = given \cup ({errptr} \ {NULL}) /\ errptr \notin given

(***************************************************************************)
(* The error pointer tells of the latest failed call since it was cleared, *)
(* and of none when all succeeded or merely found nothing.                 *)
(***************************************************************************)
ErrorIsTheLatest ==
    IF latest = "" THEN errptr = NULL
    ELSE errptr \in DOMAIN blocks /\ blocks[errptr] = latest
=============================================================================
