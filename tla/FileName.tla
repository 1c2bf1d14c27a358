------------------------------ MODULE FileName ------------------------------
(***************************************************************************)
(* Names of the files of a database (db/filename.cc) and the numbers in    *)
(* them (util/logging.cc).  DeleteObsoleteFiles, Recover and the repairer  *)
(* know a file by what ParseFileName makes of its name.  A name is a       *)
(* sequence of digits and words; digits have a small base and numbers a    *)
(* small limit (leveldb: 10, 2^64 - 1, names padded to six digits).        *)
(***************************************************************************)
EXTENDS Integers, Sequences, FiniteSets, FiniteSetsExt, SequencesExt

CONSTANTS Base, kMaxUint64, Width,
          MaxTokens         \* parts of a name

FileNameAssumption ==
    Base \in Nat \ {0, 1} /\ kMaxUint64 \in Nat /\ Width \in Nat \ {0} /\ MaxTokens \in Nat

VARIABLES name,     \* a name found in the directory
          number    \* a file number
vars == <<name, number>>

Digits == 0 .. Base - 1
D(d) == <<"digit", d>>
W(s) == <<"word", s>>
Words == {W("CURRENT"), W("LOCK"), W("LOG"), W("LOG.old"), W("MANIFEST-"),
          W(".log"), W(".sst"), W(".ldb"), W(".dbtmp"), W("x")}
Tokens == {D(d) : d \in Digits} \cup Words
IsDigit(t) == t[1] = "digit"

NumDigits(n) == CHOOSE k \in 1 .. kMaxUint64 + 1 : n < Base ^ k /\ (k > 1 => n >= Base ^ (k - 1))
(* %06llu pads with zeros and never cuts. *)
Padded_Cut(n) == [i \in 1 .. Width |-> D((n \div Base ^ (Width - i)) % Base)]
Padded(n) ==
    LET k == Max({Width, NumDigits(n)}) IN [i \in 1 .. k |-> D((n \div Base ^ (k - i)) % Base)]

MakeFileName(n, suffix) == Append(Padded(n), suffix)
LogFileName(n)        == MakeFileName(n, W(".log"))
TableFileName(n)      == MakeFileName(n, W(".ldb"))
SSTTableFileName(n)   == MakeFileName(n, W(".sst"))
TempFileName(n)       == MakeFileName(n, W(".dbtmp"))
DescriptorFileName(n) == <<W("MANIFEST-")>> \o Padded(n)

(* [ok, v, rest]: the digits at the beginning, unless they overflow. *)
Overflows_LastDigit(v, delta) == v > kMaxUint64 \div Base
Overflows(v, delta) ==
    v > kMaxUint64 \div Base \/ (v = kMaxUint64 \div Base /\ delta > kMaxUint64 % Base)
ConsumeDecimalNumber(in) ==
    LET others == {i \in DOMAIN in : ~IsDigit(in[i])}
        n == IF others = {} THEN Len(in) ELSE Min(others) - 1
        Step(a, t) == IF ~a.ok \/ Overflows(a.v, t[2]) THEN [a EXCEPT !.ok = FALSE]
                      ELSE [a EXCEPT !.v = (a.v * Base + t[2]) % (kMaxUint64 + 1)]
        r == FoldLeft(Step, [ok |-> TRUE, v |-> 0], SubSeq(in, 1, n))
    IN  [ok |-> r.ok /\ n > 0, v |-> r.v, rest |-> SubSeq(in, n + 1, Len(in))]

Parsed(type, n) == [ok |-> TRUE, type |-> type, number |-> n]
NotOurs == [ok |-> FALSE, type |-> "none", number |-> 0]
ParseFileName(fname) ==
    CASE fname = <<W("CURRENT")>> -> Parsed("current", 0)
      [] fname = <<W("LOCK")>> -> Parsed("lock", 0)
      [] fname \in {<<W("LOG")>>, <<W("LOG.old")>>} -> Parsed("infolog", 0)
      [] fname # <<>> /\ Head(fname) = W("MANIFEST-") ->
           LET r == ConsumeDecimalNumber(Tail(fname))
           IN  IF r.ok /\ r.rest = <<>> THEN Parsed("descriptor", r.v) ELSE NotOurs
      [] OTHER ->
           LET r == ConsumeDecimalNumber(fname)
           IN  CASE ~r.ok -> NotOurs
                 [] r.ok /\ r.rest = <<W(".log")>> -> Parsed("log", r.v)
                 [] r.ok /\ r.rest \in {<<W(".sst")>>, <<W(".ldb")>>} -> Parsed("table", r.v)
                 [] r.ok /\ r.rest = <<W(".dbtmp")>> -> Parsed("temp", r.v)
                 [] OTHER -> NotOurs

Init == name = <<>> /\ number = 1
SomebodyNames(t) == Len(name) < MaxTokens /\ name' = Append(name, t) /\ UNCHANGED number
NewFileNumber == number < kMaxUint64 /\ number' = number + 1 /\ UNCHANGED name
Next == (\E t \in Tokens : SomebodyNames(t)) \/ NewFileNumber
Spec == Init /\ [][Next]_vars

---------------------------------------------------------------------------
ValueOf(s) == MapThenSumSet(LAMBDA i : s[i][2] * Base ^ (Len(s) - i), DOMAIN s)
DigitsOf(s) == SelectSeq(s, IsDigit)

(***************************************************************************)
(* "Owned filenames have the form: ...": a name in the directory is taken  *)
(* for a file of the database only when it is the name of that file, zeros *)
(* in front and the older suffix aside.  A number that does not fit is no  *)
(* number: no foreign file has the number of a live one.                   *)
(***************************************************************************)
ParsedIsOwned ==
    LET p == ParseFileName(name)
        digits == DigitsOf(name)
    IN  p.ok /\ p.type \in {"log", "table", "temp", "descriptor"} =>
          /\ ValueOf(digits) = p.number
          /\ name \in CASE p.type = "log"   -> {digits \o <<W(".log")>>}
                        [] p.type = "table" -> {digits \o <<s>> : s \in {W(".ldb"), W(".sst")}}
                        [] p.type = "temp"  -> {digits \o <<W(".dbtmp")>>}
                        [] OTHER            -> {<<W("MANIFEST-")>> \o digits}

(***************************************************************************)
(* Every name the database gives to a file is recognised as that file, up  *)
(* to the largest number.                                                  *)
(***************************************************************************)
NamesAreRecognised ==
    /\ ParseFileName(LogFileName(number)) = Parsed("log", number)
    /\ ParseFileName(TableFileName(number)) = Parsed("table", number)
    /\ ParseFileName(SSTTableFileName(number)) = Parsed("table", number)
    /\ ParseFileName(TempFileName(number)) = Parsed("temp", number)
    /\ ParseFileName(DescriptorFileName(number)) = Parsed("descriptor", number)
=============================================================================
