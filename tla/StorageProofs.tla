--------------------------- MODULE StorageProofs ---------------------------
(***************************************************************************)
(* Proofs about Storage, for any finite sets of instances and identifiers, *)
(* any flags and any number of files.                                      *)
(***************************************************************************)
EXTENDS Storage, FiniteSetTheorems, SequenceTheorems, TLAPS

\* The types of TypeOK.
Pobj == [id : Id, flags : SUBSET FlagNames, creating : BOOLEAN, refcnt : Places]
Obj == [po : Places \cup {0}, flags : SUBSET FlagNames, fh : BOOLEAN, file : Files,
        idx : Idx \cup {0}, behind : BOOLEAN, linked : BOOLEAN]
Enum == [fops : BOOLEAN, dir : BOOLEAN, stale : BOOLEAN, idx : Idx \cup {0},
         oid : Id \cup {None}]
Dent == [id : Id \cup {None}, file : Files, there : BOOLEAN]

\* The object that a call works on, a handle being opened, closed or renamed.
Working == {"open", "head", "corrupt", "create", "unmake", "final", "close", "release",
            "rename", "pobj_rename"}
Renaming == {"rename", "pobj_rename"}
Second == Renaming \cup {"put", "enum_open", "enum_close"}

\* What its place in the code says of the variables of an instance.
Frame(t) ==
    /\ pc[t] \in Working => obj[t].po # 0
    /\ pc[t] \in {"enum_get", "enum_open", "enum_close"} => en[t].fops
    /\ en[t].fops => obj[t].po = 0
    /\ en[t].dir => en[t].fops
    /\ po[t] # 0 <=> pc[t] \in Second
    /\ efh[t] <=> pc[t] = "enum_close"
    /\ pc[t] = "enum_get" => en[t].oid \in Id
    /\ obj[t].fh => obj[t].po # 0 /\ obj[t].idx # 0
                  /\ pc[t] \notin {"open", "create", "unmake", "release"}
    /\ pc[t] \in {"head", "final"} \cup Renaming => obj[t].fh
    /\ pc[t] \in {"open", "create"} => obj[t].linked /\ ~obj[t].behind
    /\ pc[t] \in Renaming => "meta" \in obj[t].flags

Frames == \A t \in TA : Frame(t)

\* An enumerator whose directory is not stale keeps it open.
DirsOpen == \A t \in TA : en[t].dir /\ ~en[t].stale => dirh.open

\* The flags of an object and of its handles.
FlagsAgree ==
    \A t \in TA : obj[t].po # 0 =>
        LET o == tee_pobjs[obj[t].po].flags
        IN  o = obj[t].flags \ {"overwrite"} \/ tee_pobj_check_access(o, obj[t].flags)

HandlesAgree ==
    \A t, u \in TA : t # u /\ obj[t].po # 0 /\ obj[t].po = obj[u].po =>
        tee_pobj_check_access(obj[t].flags, obj[u].flags)

\* An object that keeps a name for a rename, or is left from one: no one opens it.
Reserved(s) == tee_pobjs[s].flags = {"meta"} /\ \A t \in TA : obj[t].po # s

NamesOK ==
    \A r, s \in DOMAIN tee_pobjs : r < s /\ tee_pobjs[r].id = tee_pobjs[s].id => Reserved(s)

RenamesOK ==
    /\ \A t \in TA : pc[t] \in Renaming =>
         /\ obj[t].po < po[t] /\ Reserved(po[t])
         /\ \A r \in DOMAIN tee_pobjs : tee_pobjs[r].id = tee_pobjs[po[t]].id => r = po[t]
    /\ \A t, u \in TA : t # u /\ pc[t] \in Renaming /\ pc[u] \in Renaming => po[t] # po[u]

RefInv ==
    /\ TypeOK /\ Frames
    /\ PobjRefsExact /\ DirhRefsExact /\ DirsOpen
    /\ DirectoryUnique

\* A creator has its object for itself.
AloneOK ==
    \A t, u \in TA : obj[t].po # 0 /\ obj[t].po = obj[u].po /\ tee_pobjs[obj[t].po].creating
                     => t = u

ListInv == FlagsAgree /\ HandlesAgree /\ NamesOK /\ RenamesOK /\ AloneOK

IInv == RefInv /\ ListInv /\ HandleOnObject

----------------------------------------------------------------------------
\* Numbers, sequences and sets

\* Every set of numbers that is not empty has a least one.
LEMMA Least ==
    ASSUME NEW S, S \subseteq Nat, S # {}
    PROVE  \E n \in S : \A m \in S : n <= m
<1> DEFINE R == OpToRel(<, Nat)
<1>1. PICK n \in S : \A m \in S : ~(<<m, n>> \in R)
  <2> HIDE DEF R
  <2>1. IsWellFoundedOn(R, Nat)
    BY NatLessThanWellFounded, Zenon DEF R
  <2> QED
    BY <2>1, WFMin, Zenon
<1>2. \A m \in Nat : n \in Nat /\ m < n => <<m, n>> \in R
  BY DEF OpToRel
<1> HIDE DEF R
<1>3. \A m \in S : m \in Nat /\ n \in Nat /\ ~(m < n)
  BY <1>1, <1>2, Zenon
<1>4. \A m \in S : n <= m
  BY <1>3
<1> QED
  BY <1>4

\* What RemoveAt() leaves of a list.
LEMMA RemoveSeq ==
    ASSUME NEW S, NEW q \in Seq(S), NEW i \in 1 .. Len(q)
    PROVE  /\ RemoveAt(q, i) \in Seq(S)
           /\ Len(RemoveAt(q, i)) = Len(q) - 1
           /\ \A j \in 1 .. Len(q) - 1 :
                 RemoveAt(q, i)[j] = IF j < i THEN q[j] ELSE q[j + 1]
<1> DEFINE a == SubSeq(q, 1, i - 1)
           b == SubSeq(q, i + 1, Len(q))
<1>1. Len(q) \in Nat /\ \A j \in 1 .. Len(q) : q[j] \in S
  OBVIOUS
<1>2. a \in Seq(S) /\ Len(a) = i - 1 /\ \A j \in 1 .. i - 1 : a[j] = q[j]
  BY <1>1, SubSeqProperties
<1>3. /\ b \in Seq(S) /\ Len(b) = Len(q) - i
      /\ \A j \in 1 .. Len(q) - i : b[j] = q[i + j]
  BY <1>1, SubSeqProperties
<1>4. RemoveAt(q, i) = a \o b
  BY DEF RemoveAt
<1> HIDE DEF a, b
<1>5. /\ a \o b \in Seq(S) /\ Len(a \o b) = Len(a) + Len(b)
      /\ \A j \in 1 .. Len(a) + Len(b) :
            (a \o b)[j] = IF j <= Len(a) THEN a[j] ELSE b[j - Len(a)]
  BY <1>2, <1>3, ConcatProperties
<1>6. ASSUME NEW j \in 1 .. Len(q) - 1
      PROVE  RemoveAt(q, i)[j] = IF j < i THEN q[j] ELSE q[j + 1]
  <2>0. (a \o b)[j] = IF j <= i - 1 THEN a[j] ELSE b[j - (i - 1)]
    BY <1>1, <1>2, <1>3, <1>5
  <2>1. CASE j < i
    BY <1>1, <1>2, <1>4, <2>0, <2>1
  <2>2. CASE ~(j < i)
    <3>1. j - (i - 1) \in 1 .. Len(q) - i
      BY <1>1, <2>2
    <3>2. b[j - (i - 1)] = q[i + (j - (i - 1))]
      BY <1>3, <3>1
    <3>3. i + (j - (i - 1)) = j + 1
      BY <1>1
    <3>4. (a \o b)[j] = b[j - (i - 1)]
      BY <1>1, <2>0, <2>2
    <3> QED
      BY <1>4, <2>2, <3>2, <3>3, <3>4
  <2> QED
    BY <2>1, <2>2
<1> QED
  BY <1>1, <1>2, <1>3, <1>4, <1>5, <1>6

\* Instances are counted.
LEMMA Counts ==
    ASSUME NEW S \in SUBSET TA
    PROVE  /\ IsFiniteSet(S) /\ Cardinality(S) \in Nat /\ Cardinality(TA) \in Nat
           /\ Cardinality(S) <= Cardinality(TA)
           /\ Cardinality(S) = 0 <=> S = {}
BY SizesOK, FS_Subset, FS_CardinalityType, FS_EmptySet

LEMMA CountMore ==
    ASSUME NEW S \in SUBSET TA, NEW t \in TA, t \notin S
    PROVE  Cardinality(S \cup {t}) = Cardinality(S) + 1
BY Counts, FS_AddElement

LEMMA CountLess ==
    ASSUME NEW S \in SUBSET TA, NEW t \in S
    PROVE  Cardinality(S \ {t}) = Cardinality(S) - 1
BY Counts, FS_RemoveElement

\* A single one.
LEMMA CountOne ==
    ASSUME NEW S \in SUBSET TA, Cardinality(S) <= 1, NEW t \in S, NEW u \in S
    PROVE  t = u
<1>1. Cardinality(S \ {t}) = Cardinality(S) - 1 /\ S \ {t} \in SUBSET TA
  BY CountLess
<1>2. Cardinality(S \ {t}) = 0
  BY <1>1, Counts
<1>3. S \ {t} = {}
  BY <1>1, <1>2, Counts
<1> QED
  BY <1>3

\* The numbers that the model uses.
LEMMA Sizes ==
    /\ Cardinality(TA) \in Nat /\ Cardinality(Id) \in Nat
    /\ Places \subseteq Nat /\ Idx \subseteq Nat /\ Files \subseteq Nat
    /\ 0 \notin Places /\ 0 \notin Idx /\ 0 \in Files
    /\ \A n \in Nat : n \in Places <=> 1 <= n /\ n <= 2 * Cardinality(TA)
BY SizesOK, FS_CardinalityType DEF Places, Idx, Files
----------------------------------------------------------------------------
\* The types, field by field

LEMMA Types ==
    ASSUME TypeOK
    PROVE  /\ dent \in [Idx -> Dent] /\ tee_pobjs \in Seq(Pobj) /\ Len(tee_pobjs) \in Nat
           /\ Len(tee_pobjs) <= 2 * Cardinality(TA)
           /\ DOMAIN tee_pobjs = 1 .. Len(tee_pobjs) /\ DOMAIN tee_pobjs \subseteq Places
           /\ \A s \in DOMAIN tee_pobjs : tee_pobjs[s] \in Pobj
           /\ pc \in [TA -> Pcs] /\ obj \in [TA -> Obj] /\ en \in [TA -> Enum]
           /\ po \in [TA -> Places \cup {0}] /\ efh \in [TA -> BOOLEAN]
<1>1. /\ dent \in [Idx -> Dent] /\ tee_pobjs \in Seq(Pobj)
      /\ pc \in [TA -> Pcs] /\ obj \in [TA -> Obj] /\ en \in [TA -> Enum]
      /\ po \in [TA -> Places \cup {0}] /\ efh \in [TA -> BOOLEAN]
      /\ Len(tee_pobjs) \in Places \cup {0}
  BY Zenon DEF TypeOK, Dent, Pobj, Obj, Enum
<1>2. /\ Len(tee_pobjs) \in Nat /\ DOMAIN tee_pobjs = 1 .. Len(tee_pobjs)
      /\ Len(tee_pobjs) <= 2 * Cardinality(TA)
  BY <1>1, LenProperties, Sizes
<1>3. DOMAIN tee_pobjs \subseteq Places
  BY <1>2, Sizes DEF Places
<1>4. \A s \in DOMAIN tee_pobjs : tee_pobjs[s] \in Pobj
  BY <1>1, <1>2, ElementOfSeq
<1> QED
  BY <1>1, <1>2, <1>3, <1>4

LEMMA ObjTypes ==
    ASSUME NEW k \in Obj
    PROVE  /\ k.po \in Places \cup {0} /\ k.po \in Nat /\ k.flags \in SUBSET FlagNames
           /\ k.fh \in BOOLEAN /\ k.file \in Files /\ k.idx \in Idx \cup {0}
           /\ k.behind \in BOOLEAN /\ k.linked \in BOOLEAN
BY Sizes DEF Obj

LEMMA PobjTypes ==
    ASSUME NEW k \in Pobj
    PROVE  /\ k.id \in Id /\ k.flags \in SUBSET FlagNames /\ k.creating \in BOOLEAN
           /\ k.refcnt \in Places /\ k.refcnt \in Nat /\ k.refcnt >= 1
BY Sizes DEF Pobj

LEMMA EnumTypes ==
    ASSUME NEW k \in Enum
    PROVE  /\ k.fops \in BOOLEAN /\ k.dir \in BOOLEAN /\ k.stale \in BOOLEAN
           /\ k.idx \in Idx \cup {0} /\ k.oid \in Id \cup {None}
BY DEF Enum

LEMMA DentTypes ==
    ASSUME NEW k \in Dent
    PROVE  k.id \in Id \cup {None} /\ k.file \in Files /\ k.there \in BOOLEAN
BY DEF Dent

\* The handles of an instance that closes or loses its file, writes, or moves a place.
LEMMA UnlinkFields ==
    ASSUME TypeOK, NEW u \in TA, NEW i
    PROVE  LET r == Unlink(u, i) IN
           /\ r \in Obj /\ r.po = obj[u].po /\ r.flags = obj[u].flags /\ r.fh = obj[u].fh
           /\ r.file = obj[u].file /\ r.idx = obj[u].idx /\ r.behind = obj[u].behind
           /\ r.linked <=> obj[u].linked /\ ~(~is_free(i) /\ OnFile(u, dent[i].file))
<1>1. PICK k \in Obj : k = obj[u]
  BY Types
<1>2. Unlink(u, i) = [k EXCEPT !.linked = @ /\ ~(~is_free(i) /\ OnFile(u, dent[i].file))]
  BY <1>1 DEF Unlink
<1> DEFINE b == k.linked /\ ~(~is_free(i) /\ OnFile(u, dent[i].file))
<1>3. b \in BOOLEAN
  OBVIOUS
<1>4. Unlink(u, i) = [k EXCEPT !.linked = b]
  BY <1>2
<1> HIDE DEF b
<1>5. /\ [k EXCEPT !.linked = b] \in Obj
      /\ [k EXCEPT !.linked = b].po = k.po
      /\ [k EXCEPT !.linked = b].flags = k.flags
      /\ [k EXCEPT !.linked = b].fh = k.fh
      /\ [k EXCEPT !.linked = b].file = k.file
      /\ [k EXCEPT !.linked = b].idx = k.idx
      /\ [k EXCEPT !.linked = b].behind = k.behind
      /\ [k EXCEPT !.linked = b].linked = b
  BY <1>3, SMT DEF Obj
<1> QED
  BY <1>1, <1>4, <1>5, Zenon DEF b

LEMMA BehindFields ==
    ASSUME NEW k \in Obj, NEW b \in BOOLEAN
    PROVE  LET r == [k EXCEPT !.behind = b] IN
           /\ r \in Obj /\ r.po = k.po /\ r.flags = k.flags /\ r.fh = k.fh
           /\ r.file = k.file /\ r.idx = k.idx /\ r.linked = k.linked /\ r.behind = b
BY DEF Obj

LEMMA OutdateFields ==
    ASSUME TypeOK, NEW t \in TA, NEW u \in TA
    PROVE  LET r == Outdate(t, u) IN
           /\ r \in Obj /\ r.po = obj[u].po /\ r.flags = obj[u].flags /\ r.fh = obj[u].fh
           /\ r.file = obj[u].file /\ r.idx = obj[u].idx /\ r.linked = obj[u].linked
           /\ u = t \/ ~(OnFile(u, obj[t].file) /\ obj[t].linked) => r.behind = obj[u].behind
<1>1. PICK k \in Obj : k = obj[u]
  BY Types
<1> DEFINE b == k.behind \/ (u # t /\ obj[t].linked /\ OnFile(u, obj[t].file))
<1>2. k.behind \in BOOLEAN /\ b \in BOOLEAN
  BY ObjTypes
<1>3. Outdate(t, u) = [k EXCEPT !.behind = b]
  BY <1>1 DEF Outdate
<1>5. u = t \/ ~(OnFile(u, obj[t].file) /\ obj[t].linked) => b = k.behind
  BY <1>2
<1> HIDE DEF b
<1>4. LET r == [k EXCEPT !.behind = b] IN
      /\ r \in Obj /\ r.po = k.po /\ r.flags = k.flags /\ r.fh = k.fh
      /\ r.file = k.file /\ r.idx = k.idx /\ r.linked = k.linked /\ r.behind = b
  BY <1>2, BehindFields
<1> QED
  BY <1>1, <1>3, <1>4, <1>5, Zenon DEF b

LEMMA PoFields ==
    ASSUME NEW k \in Obj, NEW p \in Places \cup {0}
    PROVE  LET r == [k EXCEPT !.po = p] IN
           /\ r \in Obj /\ r.po = p /\ r.flags = k.flags /\ r.fh = k.fh /\ r.file = k.file
           /\ r.idx = k.idx /\ r.linked = k.linked /\ r.behind = k.behind
BY DEF Obj

LEMMA OrphanFields ==
    ASSUME TypeOK, NEW u \in TA
    PROVE  LET r == Orphan(u) IN
           /\ r \in Enum /\ r.fops = en[u].fops /\ r.dir = en[u].dir /\ r.stale = en[u].dir
           /\ r.idx = en[u].idx /\ r.oid = en[u].oid
<1>1. PICK k \in Enum : k = en[u]
  BY Types
<1>2. LET r == [k EXCEPT !.stale = k.dir] IN
      /\ r \in Enum /\ r.fops = k.fops /\ r.dir = k.dir /\ r.stale = k.dir
      /\ r.idx = k.idx /\ r.oid = k.oid
  BY DEF Enum
<1> QED
  BY <1>1, <1>2, Zenon DEF Orphan
----------------------------------------------------------------------------
\* The list of objects

\* tee_pobj_get() looks at the last object of the name.
LEMMA LookupLast ==
    ASSUME TypeOK, NEW id
    PROVE  \/ Lookup(id) = 0 /\ \A r \in DOMAIN tee_pobjs : tee_pobjs[r].id # id
           \/ /\ Lookup(id) \in DOMAIN tee_pobjs /\ tee_pobjs[Lookup(id)].id = id
              /\ \A r \in DOMAIN tee_pobjs : tee_pobjs[r].id = id => r <= Lookup(id)
              /\ Lookup(id) # 0
<1> DEFINE hits == {s \in DOMAIN tee_pobjs : tee_pobjs[s].id = id}
           n == Len(tee_pobjs)
           S == {n - s : s \in hits}
<1>1. n \in Nat /\ hits \subseteq 1 .. n
  BY Types
<1>2. CASE hits = {}
  BY <1>2 DEF Lookup
<1>3. CASE hits # {}
  <2>1. S \subseteq Nat /\ S # {}
    BY <1>1, <1>3
  <2>2. PICK m \in S : \A k \in S : m <= k
    BY <2>1, Least
  <2>3. PICK s \in hits : m = n - s
    BY <2>2
  <2>4. ASSUME NEW r \in hits PROVE r <= s
    <3>1. n - r \in S /\ r \in Nat /\ s \in Nat
      BY <1>1, <2>3
    <3>2. n - s <= n - r
      BY <2>2, <2>3, <3>1
    <3> HIDE DEF n
    <3> QED
      BY <1>1, <3>1, <3>2
  <2>5. Lookup(id) = CHOOSE q \in hits : \A r \in hits : r <= q
    BY <1>3 DEF Lookup
  <2>6. Lookup(id) \in hits /\ \A r \in hits : r <= Lookup(id)
    BY <2>4, <2>5
  <2> QED
    BY <1>1, <2>6
<1> QED
  BY <1>2, <1>3

\* The objects of the list, with a count that may be any number.
Counted == [id : Id, flags : SUBSET FlagNames, creating : BOOLEAN, refcnt : Nat]

LEMMA CountedTypes ==
    /\ Pobj \subseteq Counted
    /\ \A k \in Counted : k.refcnt \in Places => k \in Pobj
    /\ \A k \in Counted : k.refcnt \in Nat /\ k.id \in Id /\ k.flags \in SUBSET FlagNames
                            /\ k.creating \in BOOLEAN
BY Sizes DEF Pobj, Counted

\* Counts that are right are in range.
LEMMA CountedList ==
    ASSUME NEW q \in Seq(Counted), \A r \in 1 .. Len(q) : q[r].refcnt \in Places
    PROVE  q \in Seq(Pobj)
<1>1. Len(q) \in Nat /\ q \in [1 .. Len(q) -> Counted]
  BY LenProperties
<1>2. \A r \in 1 .. Len(q) : q[r] \in Pobj
  BY <1>1, CountedTypes
<1>3. q \in [1 .. Len(q) -> Pobj]
  BY <1>1, <1>2
<1> QED
  BY <1>1, <1>3, SeqDef

\* An entry of the list with another value in one field.
LEMMA RefcntFields ==
    ASSUME NEW k \in Pobj, NEW n \in Nat
    PROVE  LET r == [k EXCEPT !.refcnt = n] IN
           /\ r \in Counted /\ r.id = k.id /\ r.flags = k.flags /\ r.creating = k.creating
           /\ r.refcnt = n
BY DEF Pobj, Counted

LEMMA NameFields ==
    ASSUME NEW k \in Pobj, NEW n \in Id
    PROVE  LET r == [k EXCEPT !.id = n] IN
           /\ r \in Pobj /\ r.id = n /\ r.flags = k.flags /\ r.creating = k.creating
           /\ r.refcnt = k.refcnt
BY DEF Pobj

LEMMA CreatingFields ==
    ASSUME NEW k \in Pobj, NEW b \in BOOLEAN
    PROVE  LET r == [k EXCEPT !.creating = b] IN
           /\ r \in Pobj /\ r.id = k.id /\ r.flags = k.flags /\ r.creating = b
           /\ r.refcnt = k.refcnt
BY DEF Pobj

\* The same objects, s with another count.
Recounted(s, n) ==
    /\ tee_pobjs' \in Seq(Counted) /\ Len(tee_pobjs') = Len(tee_pobjs)
    /\ \A r \in DOMAIN tee_pobjs :
         /\ tee_pobjs'[r].id = tee_pobjs[r].id /\ tee_pobjs'[r].flags = tee_pobjs[r].flags
         /\ tee_pobjs'[r].creating = tee_pobjs[r].creating
         /\ tee_pobjs'[r].refcnt = IF r = s THEN n ELSE tee_pobjs[r].refcnt

LEMMA Recount ==
    ASSUME TypeOK, NEW s \in DOMAIN tee_pobjs, NEW n \in Nat,
           tee_pobjs' = [tee_pobjs EXCEPT ![s] = [tee_pobjs[s] EXCEPT !.refcnt = n]]
    PROVE  Recounted(s, n)
<1> DEFINE k == [tee_pobjs[s] EXCEPT !.refcnt = n]
<1>1. tee_pobjs[s] \in Pobj /\ s \in 1 .. Len(tee_pobjs) /\ tee_pobjs \in Seq(Counted)
      /\ DOMAIN tee_pobjs = 1 .. Len(tee_pobjs)
  BY Types, CountedTypes, SeqMonotonic
<1>2. /\ k \in Counted /\ k.id = tee_pobjs[s].id /\ k.flags = tee_pobjs[s].flags
      /\ k.creating = tee_pobjs[s].creating /\ k.refcnt = n
  BY <1>1, RefcntFields
<1>3. tee_pobjs' = [tee_pobjs EXCEPT ![s] = k]
  OBVIOUS
<1> HIDE DEF k
<1>4. /\ tee_pobjs' \in Seq(Counted) /\ Len(tee_pobjs') = Len(tee_pobjs)
      /\ \A r \in 1 .. Len(tee_pobjs) : tee_pobjs'[r] = IF r = s THEN k ELSE tee_pobjs[r]
  BY <1>1, <1>2, <1>3, ExceptSeq
<1> QED
  BY <1>1, <1>2, <1>4 DEF Recounted

\* What tee_pobj_get() does: it joins an object of the list, or adds one.
Joins(id, flags, usage, s) ==
    /\ s \in DOMAIN tee_pobjs /\ tee_pobjs[s].id = id
    /\ \A r \in DOMAIN tee_pobjs : tee_pobjs[r].id = id => r <= s
    /\ Admitted(tee_pobjs[s], flags, usage)
    /\ Recounted(s, tee_pobjs[s].refcnt + 1)

Adds(id, flags, usage, s) ==
    /\ s = Len(tee_pobjs) + 1
    /\ \A r \in DOMAIN tee_pobjs : tee_pobjs[r].id # id
    /\ tee_pobjs' \in Seq(Counted) /\ Len(tee_pobjs') = s
    /\ \A r \in DOMAIN tee_pobjs : tee_pobjs'[r] = tee_pobjs[r]
    /\ tee_pobjs'[s] = [id |-> id, flags |-> flags \ {"overwrite"},
                        creating |-> usage = "create", refcnt |-> 1]

LEMMA GetFields ==
    ASSUME TypeOK, NEW id \in Id, NEW flags \in SUBSET FlagNames, NEW usage, NEW s,
           tee_pobj_get(id, flags, usage, s)
    PROVE  Joins(id, flags, usage, s) \/ Adds(id, flags, usage, s)
<1>1. CASE Lookup(id) # 0
  <2>1. /\ s \in DOMAIN tee_pobjs /\ tee_pobjs[s].id = id /\ Admitted(tee_pobjs[s], flags, usage)
        /\ \A r \in DOMAIN tee_pobjs : tee_pobjs[r].id = id => r <= s
    BY <1>1, LookupLast DEF tee_pobj_get
  <2>2. tee_pobjs' = [tee_pobjs EXCEPT ![s] = [tee_pobjs[s] EXCEPT !.refcnt = tee_pobjs[s].refcnt + 1]]
    BY <1>1 DEF tee_pobj_get
  <2>3. tee_pobjs[s].refcnt + 1 \in Nat
    BY <2>1, Types, PobjTypes
  <2>4. Recounted(s, tee_pobjs[s].refcnt + 1)
    BY <2>1, <2>2, <2>3, Recount
  <2> QED
    BY <2>1, <2>4 DEF Joins
<1>2. CASE Lookup(id) = 0
  <2> DEFINE k == [id |-> id, flags |-> flags \ {"overwrite"},
                   creating |-> usage = "create", refcnt |-> 1]
  <2>1. k \in Counted
    BY DEF Counted
  <2>2. tee_pobjs' = Append(tee_pobjs, k) /\ s = Len(tee_pobjs) + 1
    BY <1>2 DEF tee_pobj_get
  <2> HIDE DEF k
  <2>3. /\ tee_pobjs \in Seq(Counted) /\ Len(tee_pobjs) \in Nat
        /\ DOMAIN tee_pobjs = 1 .. Len(tee_pobjs)
    BY Types, CountedTypes, SeqMonotonic
  <2>4. /\ tee_pobjs' \in Seq(Counted) /\ Len(tee_pobjs') = s
        /\ \A r \in DOMAIN tee_pobjs : tee_pobjs'[r] = tee_pobjs[r]
        /\ tee_pobjs'[s] = k
    BY <2>1, <2>2, <2>3
  <2>5. \A r \in DOMAIN tee_pobjs : tee_pobjs[r].id # id
    BY <1>2, LookupLast
  <2> QED
    BY <2>2, <2>4, <2>5 DEF Adds, k
<1> QED
  BY <1>1, <1>2

\* What tee_pobj_release() does: it takes an object out, or counts one use less.
Drops(s) ==
    /\ tee_pobjs[s].refcnt = 1
    /\ tee_pobjs' \in Seq(Pobj) /\ Len(tee_pobjs') = Len(tee_pobjs) - 1
    /\ \A r \in 1 .. Len(tee_pobjs) - 1 :
         tee_pobjs'[r] = IF r < s THEN tee_pobjs[r] ELSE tee_pobjs[r + 1]

LEMMA ReleaseFields ==
    ASSUME TypeOK, NEW s \in DOMAIN tee_pobjs, tee_pobj_release(s)
    PROVE  Drops(s) \/ (tee_pobjs[s].refcnt > 1 /\ Recounted(s, tee_pobjs[s].refcnt - 1))
<1>1. tee_pobjs[s] \in Pobj /\ s \in 1 .. Len(tee_pobjs) /\ tee_pobjs \in Seq(Pobj)
      /\ DOMAIN tee_pobjs = 1 .. Len(tee_pobjs)
  BY Types
<1>2. tee_pobjs[s].refcnt \in Nat /\ tee_pobjs[s].refcnt >= 1
  BY <1>1, PobjTypes
<1>3. CASE tee_pobjs[s].refcnt = 1
  <2>1. tee_pobjs' = RemoveAt(tee_pobjs, s)
    BY <1>3 DEF tee_pobj_release
  <2> QED
    BY <1>1, <1>3, <2>1, RemoveSeq DEF Drops
<1>4. CASE tee_pobjs[s].refcnt # 1
  <2>1. tee_pobjs' = [tee_pobjs EXCEPT ![s] = [tee_pobjs[s] EXCEPT !.refcnt = tee_pobjs[s].refcnt - 1]]
    BY <1>4 DEF tee_pobj_release
  <2>2. tee_pobjs[s].refcnt - 1 \in Nat
    BY <1>2
  <2>3. Recounted(s, tee_pobjs[s].refcnt - 1)
    BY <2>1, <2>2, Recount
  <2> QED
    BY <1>2, <1>4, <2>3
<1> QED
  BY <1>3, <1>4
----------------------------------------------------------------------------
\* The directory

\* tee_fs_dirfile_find() finds the entry of a name, of which there is one.
LEMMA FindFields ==
    ASSUME TypeOK, DirectoryUnique, NEW id \in Id
    PROVE  \/ tee_fs_dirfile_find(id) = 0 /\ \A j \in Idx : dent[j].id # id
           \/ /\ tee_fs_dirfile_find(id) \in Idx /\ tee_fs_dirfile_find(id) # 0
              /\ dent[tee_fs_dirfile_find(id)].id = id /\ ~is_free(tee_fs_dirfile_find(id))
<1>1. CASE ~\E i \in Idx : dent[i].id = id
  BY <1>1 DEF tee_fs_dirfile_find
<1>2. CASE \E i \in Idx : dent[i].id = id
  <2>1. PICK i \in Idx : dent[i].id = id
    BY <1>2
  <2>2. ASSUME NEW j \in 1 .. i - 1 PROVE dent[j].id # id
    <3>1. j \in Idx /\ j # i
      BY Sizes DEF Idx
    <3>2. dent[j].id = id => ~is_free(i) /\ ~is_free(j)
      BY <2>1, NoneOK DEF is_free
    <3>3. dent[j].id = id => dent[i].id # dent[j].id
      BY <3>1, <3>2, Zenon DEF DirectoryUnique
    <3> QED
      BY <2>1, <3>3
  <2>3. tee_fs_dirfile_find(id) =
            CHOOSE k \in Idx : dent[k].id = id /\ \A j \in 1 .. k - 1 : dent[j].id # id
    BY <1>2 DEF tee_fs_dirfile_find
  <2>4. tee_fs_dirfile_find(id) \in Idx /\ dent[tee_fs_dirfile_find(id)].id = id
    BY <2>1, <2>2, <2>3
  <2> QED
    BY <2>4, Sizes, NoneOK DEF is_free
<1> QED
  BY <1>1, <1>2

\* While a name is not in the directory there is an entry for it: there are as many
\* entries as names, and no name has two.
LEMMA EmptyFields ==
    ASSUME TypeOK, DirectoryUnique, NEW id \in Id, \A j \in Idx : dent[j].id # id
    PROVE  find_empty_idx \in Idx /\ is_free(find_empty_idx)
<1> DEFINE S == {i \in Idx : is_free(i)}
<1>1. S # {}
  <2> SUFFICES ASSUME S = {} PROVE FALSE
    OBVIOUS
  <2> DEFINE f == [i \in Idx |-> dent[i].id]
             T == Id \ {id}
  <2>1. \A i \in Idx : dent[i].id \in T
    BY Types, DentTypes DEF is_free
  <2>2. f \in [Idx -> T]
    BY <2>1
  <2>3. IsFiniteSet(T) /\ Cardinality(T) = Cardinality(Id) - 1
    BY SizesOK, FS_RemoveElement
  <2>4. IsFiniteSet(Idx) /\ Cardinality(Idx) = Cardinality(Id)
    <3>1. Cardinality(Id) \in Nat /\ Cardinality(Id) # 0
      BY SizesOK, FS_CardinalityType, FS_EmptySet
    <3>2. IsFiniteSet(1 .. Cardinality(Id))
          /\ Cardinality(1 .. Cardinality(Id)) = Cardinality(Id) - 1 + 1
      BY <3>1, FS_Interval
    <3> QED
      BY <3>1, <3>2 DEF Idx
  <2>5. Cardinality(T) < Cardinality(Idx)
    BY <2>3, <2>4, Sizes
  <2> HIDE DEF f, T
  <2>6. \E i, j \in Idx : i # j /\ f[i] = f[j]
    BY <2>2, <2>3, <2>4, <2>5, FS_PigeonHole
  <2> QED
    BY <2>6 DEF f, DirectoryUnique, is_free
<1>2. S \subseteq Nat
  BY Sizes
<1>3. PICK n \in S : \A m \in S : n <= m
  BY <1>1, <1>2, Least
<1>4. \A j \in 1 .. n - 1 : ~is_free(j)
  BY <1>2, <1>3, Sizes DEF Idx
<1>5. \E i \in Idx : is_free(i) /\ \A j \in 1 .. i - 1 : ~is_free(j)
  BY <1>3, <1>4
<1> QED
  BY <1>5 DEF find_empty_idx

\* A file number that is not in use is one that no entry has.
LEMMA TmpFields ==
    ASSUME CanGetTmp
    PROVE  tee_fs_dirfile_get_tmp \in Files /\ tee_fs_dirfile_get_tmp \notin files
<1>1. Files \ files \subseteq Nat /\ Files \ files # {}
  BY Sizes DEF CanGetTmp
<1>2. \E n \in Files \ files : \A m \in Files \ files : n <= m
  BY <1>1, Least
<1> QED
  BY <1>2 DEF tee_fs_dirfile_get_tmp

LEMMA FilesFields ==
    ASSUME TypeOK, DirhRefsExact
    PROVE  files \subseteq Files /\ Named \subseteq files
<1>1. Named \subseteq Files
  BY Types, DentTypes DEF Named
<1> QED
  BY <1>1 DEF files, TypeOK, DirhRefsExact

\* An entry after the last one that an enumerator has seen.
LEMMA NextFields ==
    ASSUME NEW i \in Idx \cup {0}, tee_fs_dirfile_get_next(i) # 0
    PROVE  tee_fs_dirfile_get_next(i) \in Idx /\ ~is_free(tee_fs_dirfile_get_next(i))
<1> DEFINE R == i + 1 .. Cardinality(Id)
           S == {j \in R : ~is_free(j)}
<1>1. i \in Nat /\ R \subseteq Idx /\ R \subseteq Nat
  BY Sizes DEF Idx
<1>2. S # {}
  BY DEF tee_fs_dirfile_get_next
<1>3. PICK n \in S : \A m \in S : n <= m
  BY <1>1, <1>2, Least
<1>4. \A k \in i + 1 .. n - 1 : k \in R /\ k < n
  BY <1>1, <1>3, Sizes
<1>5. \A k \in i + 1 .. n - 1 : is_free(k)
  BY <1>1, <1>3, <1>4
<1>6. \E j \in R : ~is_free(j) /\ \A k \in i + 1 .. j - 1 : is_free(k)
  BY <1>3, <1>5
<1>7. tee_fs_dirfile_get_next(i) = CHOOSE j \in R : ~is_free(j) /\ \A k \in i + 1 .. j - 1 : is_free(k)
  BY <1>2 DEF tee_fs_dirfile_get_next
<1>8. tee_fs_dirfile_get_next(i) \in R /\ ~is_free(tee_fs_dirfile_get_next(i))
  BY <1>6, <1>7
<1> QED
  BY <1>1, <1>8

\* put_dirh(), as an operation ends with it.
LEMMA PutFields ==
    ASSUME TypeOK, NEW fail \in BOOLEAN, NEW refs \in Nat, NEW bits,
           put_dirh(fail, refs, bits)
    PROVE  /\ dirh' = [open |-> refs > 0 /\ ~fail, refcount |-> refs,
                       files |-> IF refs > 0 /\ ~fail THEN bits ELSE {}]
           /\ en' \in [TA -> Enum]
           /\ \A u \in TA : /\ en'[u].fops = en[u].fops /\ en'[u].dir = en[u].dir
                            /\ en'[u].idx = en[u].idx /\ en'[u].oid = en[u].oid
           /\ DirsOpen => DirsOpen'
<1>1. dirh' = [open |-> refs > 0 /\ ~fail, refcount |-> refs,
               files |-> IF refs > 0 /\ ~fail THEN bits ELSE {}]
  BY DEF put_dirh
<1>2. CASE (refs > 0 /\ ~fail) \/ ~dirh.open
  <2>1. en' = en
    BY <1>2 DEF put_dirh
  <2>2. dirh'.open \/ ~dirh.open
    BY <1>1, <1>2
  <2> QED
    BY <1>1, <2>1, <2>2, Types DEF DirsOpen
<1>3. CASE ~((refs > 0 /\ ~fail) \/ ~dirh.open)
  <2>1. en' = [u \in TA |-> Orphan(u)]
    BY <1>3 DEF put_dirh
  <2>2. \A u \in TA : en'[u] = Orphan(u)
    BY <2>1
  <2>3. \A u \in TA : en'[u] \in Enum
    BY <2>2, OrphanFields
  <2>4. \A u \in TA : /\ en'[u].fops = en[u].fops /\ en'[u].dir = en[u].dir
                      /\ en'[u].idx = en[u].idx /\ en'[u].oid = en[u].oid
                      /\ en'[u].stale = en[u].dir
    BY <2>2, OrphanFields, Zenon
  <2>5. en' \in [TA -> Enum]
    BY <2>1, <2>3
  <2>6. DirsOpen'
    BY <2>4 DEF DirsOpen
  <2> QED
    BY <1>1, <2>4, <2>5, <2>6
<1> QED
  BY <1>2, <1>3
----------------------------------------------------------------------------
\* The variables of the instances

RestType ==
    /\ pc \in [TA -> Pcs] /\ obj \in [TA -> Obj] /\ po \in [TA -> Places \cup {0}]
    /\ efh \in [TA -> BOOLEAN] /\ en \in [TA -> Enum]
    /\ dead \in {"no", "file_number", "test_file", "dirh", "no dir", "freed dirh",
                         "closed dirf"}
    /\ torn \subseteq TA

LEMMA NothingTypes ==
    /\ NoObj \in Obj /\ NoObj.po = 0 /\ ~NoObj.fh
    /\ NoEnum \in Enum /\ ~NoEnum.fops /\ ~NoEnum.dir
BY Sizes DEF NoObj, NoEnum, Obj, Enum

LEMMA OpenedFields ==
    ASSUME NEW s \in Places, NEW flags \in SUBSET FlagNames
    PROVE  LET r == [NoObj EXCEPT !.po = s, !.flags = flags] IN
           /\ r \in Obj /\ r.po = s /\ r.flags = flags /\ ~r.fh /\ r.linked /\ ~r.behind
<1> DEFINE r == [NoObj EXCEPT !.po = s, !.flags = flags]
<1>1. PICK k \in Obj : k = NoObj
  BY NothingTypes
<1>2. [k EXCEPT !.po = s, !.flags = flags] \in Obj
  BY DEF Obj
<1>3. /\ r.po = s /\ r.flags = flags /\ ~r.fh /\ r.linked /\ ~r.behind
  BY DEF NoObj
<1> QED
  BY <1>1, <1>2, <1>3

LEMMA MovedType ==
    ASSUME NEW s \in Places, NEW r \in Places \cup {0}
    PROVE  Moved(s, r) \in Places \cup {0} /\ (Moved(s, r) = 0 <=> r = 0)
BY Sizes DEF Moved

\* An instance whose variables a step leaves as they are, but for what it does not see.
SameFrame(u) ==
    /\ pc'[u] = pc[u] /\ (po'[u] = 0 <=> po[u] = 0) /\ (efh'[u] <=> efh[u])
    /\ (obj'[u].po = 0 <=> obj[u].po = 0) /\ obj'[u].flags = obj[u].flags
    /\ (obj'[u].fh <=> obj[u].fh) /\ obj'[u].idx = obj[u].idx
    /\ ~obj[u].fh => (obj'[u].linked <=> obj[u].linked) /\ obj'[u].behind = obj[u].behind
    /\ (en'[u].fops <=> en[u].fops) /\ (en'[u].dir <=> en[u].dir) /\ en'[u].oid = en[u].oid

LEMMA FrameKept ==
    ASSUME NEW u \in TA, Frame(u), SameFrame(u)
    PROVE  Frame(u)'
BY DEF Frame, SameFrame

\* The invariant, as the steps below use it.
LEMMA Known ==
    ASSUME RefInv
    PROVE  /\ TypeOK /\ Frames /\ PobjRefsExact /\ DirhRefsExact /\ DirsOpen /\ DirectoryUnique
           /\ RestType
           /\ dirh.refcount \in Nat
           /\ \A t \in TA : /\ Frame(t) /\ obj[t] \in Obj /\ en[t] \in Enum /\ pc[t] \in Pcs
                            /\ po[t] \in Places \cup {0} /\ efh[t] \in BOOLEAN
<1>1. /\ TypeOK /\ Frames /\ PobjRefsExact /\ DirhRefsExact /\ DirsOpen /\ DirectoryUnique
  BY DEF RefInv
<1>2. RestType
  BY <1>1, Types DEF RestType, TypeOK
<1>3. dirh.refcount \in Nat
  <2>1. dirh.refcount \in 0 .. 3 * Cardinality(TA)
    BY <1>1 DEF TypeOK
  <2> QED
    BY <2>1, Sizes
<1> QED
  BY <1>1, <1>2, <1>3, Types DEF Frames

\* A place that an instance keeps is in the list.
LEMMA InList ==
    ASSUME RefInv, NEW t \in TA
    PROVE  /\ obj[t].po # 0 => obj[t].po \in DOMAIN tee_pobjs /\ MyId(t) \in Id
           /\ po[t] # 0 => po[t] \in DOMAIN tee_pobjs /\ tee_pobjs[po[t]].id \in Id
<1> DEFINE H(s) == {u \in TA : obj[u].po = s}
           U(s) == {u \in TA : po[u] = s}
<1>1. ASSUME NEW s \in Places, t \in H(s) \/ t \in U(s) PROVE s \in DOMAIN tee_pobjs
  <2>1. H(s) \in SUBSET TA /\ U(s) \in SUBSET TA
    OBVIOUS
  <2>2. (IF s <= Len(tee_pobjs) THEN tee_pobjs[s].refcnt ELSE 0)
            = Cardinality(H(s)) + Cardinality(U(s))
    BY Known DEF PobjRefsExact
  <2> HIDE DEF H, U
  <2>3. Cardinality(H(s)) + Cardinality(U(s)) # 0
    BY <1>1, <2>1, Counts
  <2> QED
    BY <2>2, <2>3, Known, Types, Sizes
<1>2. \A s \in DOMAIN tee_pobjs : tee_pobjs[s].id \in Id
  BY Known, Types, PobjTypes
<1>3. obj[t].po \in Places \cup {0} /\ po[t] \in Places \cup {0}
  BY Known, ObjTypes
<1> QED
  BY <1>1, <1>2, <1>3 DEF MyId

\* A step keeps these types and frames.
RestKept == RestType' /\ Frames'

\* Steps that change one instance and no other.
LEMMA OneInstance ==
    ASSUME RefInv, NEW t \in TA, RestType', Frame(t)', \A u \in TA \ {t} : SameFrame(u)
    PROVE  RestKept
BY Known, FrameKept DEF RestKept, Frames

LEMMA GotoFields ==
    ASSUME RefInv, NEW t \in TA, NEW p \in Pcs, Goto(t, p)
    PROVE  pc' \in [TA -> Pcs] /\ pc'[t] = p /\ \A u \in TA \ {t} : pc'[u] = pc[u]
BY Known DEF Goto, RestType

\* Steps that leave the objects alone: only the place in the code changes.
LEMMA PlaceOnly ==
    ASSUME RefInv, NEW t \in TA, NEW p \in Pcs, Goto(t, p),
           UNCHANGED <<obj, po, efh, en, dead>>, torn' \subseteq TA,
           pc[t] \in Pcs \ {"enum_get", "enum_close"},
           p \notin {"open", "create", "enum_get", "enum_close"},
           p \in Working => obj[t].po # 0,
           p \in {"head", "final"} \cup Renaming => obj[t].fh,
           p \in Renaming => pc[t] \in Renaming,
           p \in {"release", "unmake"} => ~obj[t].fh,
           p \in Second <=> pc[t] \in Second,
           p # "enum_open"
    PROVE  RestKept
<1>1. pc' \in [TA -> Pcs] /\ pc'[t] = p /\ \A u \in TA \ {t} : pc'[u] = pc[u]
  BY GotoFields
<1>2. RestType'
  BY <1>1, Known DEF RestType
<1>3. Frame(t)'
  BY <1>1, Known DEF Frame
<1>4. \A u \in TA \ {t} : SameFrame(u)
  BY <1>1 DEF SameFrame
<1> QED
  BY <1>2, <1>3, <1>4, OneInstance

\* The same, with the directory handle put back.
LEMMA PlacePut ==
    ASSUME RefInv, NEW t \in TA, NEW p \in Pcs, Goto(t, p),
           NEW fail \in BOOLEAN, NEW refs \in Nat, NEW bits, put_dirh(fail, refs, bits),
           UNCHANGED <<obj, po, efh, dead>>, torn' \subseteq TA,
           pc[t] \in Pcs \ {"enum_get", "enum_close"},
           p \notin {"open", "create", "enum_get", "enum_close"},
           p \in Working => obj[t].po # 0,
           p \in {"head", "final"} \cup Renaming => obj[t].fh,
           p \in Renaming => pc[t] \in Renaming,
           p \in {"release", "unmake"} => ~obj[t].fh,
           p \in Second <=> pc[t] \in Second,
           p # "enum_open"
    PROVE  RestKept
<1>1. pc' \in [TA -> Pcs] /\ pc'[t] = p /\ \A u \in TA \ {t} : pc'[u] = pc[u]
  BY GotoFields
<1>2. /\ en' \in [TA -> Enum]
      /\ \A u \in TA : /\ en'[u].fops = en[u].fops /\ en'[u].dir = en[u].dir
                       /\ en'[u].idx = en[u].idx /\ en'[u].oid = en[u].oid
  BY Known, PutFields
<1>3. RestType'
  BY <1>1, <1>2, Known DEF RestType
<1>4. Frame(t)'
  BY <1>1, <1>2, Known DEF Frame
<1>5. \A u \in TA \ {t} : SameFrame(u)
  BY <1>1, <1>2 DEF SameFrame
<1> QED
  BY <1>3, <1>4, <1>5, OneInstance

\* The steps of the first kind.
LEMMA PlaceSteps ==
    ASSUME RefInv, NEW t \in TA,
           \/ give_up(t) \/ tee_svc_storage_read_head(t) \/ ReadCorrupt(t) \/ obj_close(t)
           \/ obj_create_final(t) \/ tee_pobj_rename(t)
    PROVE  RestKept
<1> USE Known
<1>1. CASE give_up(t)
  BY <1>1, PlaceOnly DEF give_up, Pcs, Working, Second, Renaming, Frame, RestType
<1>2. CASE tee_svc_storage_read_head(t)
  BY <1>2, PlaceOnly
     DEF tee_svc_storage_read_head, At, Pcs, Working, Second, Renaming, Frame, RestType
<1>3. CASE ReadCorrupt(t)
  BY <1>3, PlaceOnly DEF ReadCorrupt, Has, At, Pcs, Working, Second, Renaming, Frame, RestType
<1>4. CASE obj_close(t)
  BY <1>4, PlaceOnly DEF obj_close, Has, At, Pcs, Working, Second, Renaming, Frame, RestType
<1>5. CASE obj_create_final(t)
  BY <1>5, PlaceOnly
     DEF obj_create_final, At, Pcs, Working, Second, Renaming, Frame, RestType
<1>6. CASE tee_pobj_rename(t)
  BY <1>6, PlaceOnly
     DEF tee_pobj_rename, At, Pcs, Working, Second, Renaming, Frame, RestType
<1> QED
  BY <1>1, <1>2, <1>3, <1>4, <1>5, <1>6

\* The handles that a change of the directory tears are of instances.
LEMMA TearType == \A t, i : Tear(t, i) \subseteq TA
BY DEF Tear

\* Where a removal goes.
After == {"close", "idle", "release"}

\* A write that reaches the file, whether or not the directory gets to know of it: entries
\* keep their names and file numbers.
Wrote(t) ==
    /\ Writes(t)
    /\ \E ok \in BOOLEAN : Committed(ok, files)
    /\ dent' \in [Idx -> Dent]
    /\ \A i \in Idx : dent'[i].id = dent[i].id /\ dent'[i].file = dent[i].file
    /\ obj' = [u \in TA |-> Outdate(t, u)]
    /\ torn' = torn \cup TornBy(t)
    /\ UNCHANGED <<tee_pobjs, pc, po, efh, dead>>

\* One that does not.
NotWritten(t) ==
    Writes(t) /\ Failed /\ UNCHANGED <<dent, tee_pobjs, pc, obj, po, efh, dead, torn>>

\* The operations of the file system that fail.
LEMMA FailSteps ==
    ASSUME RefInv, NEW t \in TA,
           \/ ree_fs_open_fails(t) \/ ree_fs_create_fails(t) \/ NotWritten(t)
           \/ ree_fs_rename_fails(t)
           \/ obj[t].po # 0 /\ pc[t] \in {"idle", "corrupt", "unmake"}
              /\ \E next \in After : ree_fs_remove_fails(t, next) /\ (next = "release" => ~obj[t].fh)
    PROVE  RestKept
<1> USE Known
<1>0. ASSUME Failed PROVE put_dirh(TRUE, dirh.refcount, {})
  BY <1>0 DEF Failed
<1>1. CASE ree_fs_open_fails(t)
  BY <1>0, <1>1, PlacePut
     DEF ree_fs_open_fails, At, Pcs, Working, Second, Renaming, Frame, RestType
<1>2. CASE ree_fs_create_fails(t)
  BY <1>0, <1>2, PlacePut
     DEF ree_fs_create_fails, At, Pcs, Working, Second, Renaming, Frame, RestType
<1>3. CASE NotWritten(t)
  <2>1. /\ pc[t] = "idle" /\ Failed /\ UNCHANGED <<pc, obj, po, efh, dead, torn>>
    BY <1>3 DEF NotWritten, Writes, Has, At
  <2>2. Goto(t, "idle")
    BY <2>1 DEF Goto, RestType
  <2>3. torn' \subseteq TA
    BY <2>1 DEF RestType
  <2> QED
    BY <1>0, <2>1, <2>2, <2>3, PlacePut DEF Pcs, Working, Second, Renaming
<1>4. CASE ree_fs_rename_fails(t)
  <2>1. /\ pc[t] = "rename" /\ Failed /\ Goto(t, "put")
        /\ UNCHANGED <<obj, po, efh, dead, torn>>
    BY <1>4 DEF ree_fs_rename_fails, At
  <2>2. torn' \subseteq TA
    BY <2>1 DEF RestType
  <2> QED
    BY <1>0, <2>1, <2>2, PlacePut DEF Pcs, Working, Second, Renaming
<1>5. CASE /\ obj[t].po # 0 /\ pc[t] \in {"idle", "corrupt", "unmake"}
           /\ \E next \in After : ree_fs_remove_fails(t, next) /\ (next = "release" => ~obj[t].fh)
  <2>1. PICK p \in After :
          /\ Failed /\ Goto(t, p) /\ UNCHANGED <<obj, po, efh, dead, torn>>
          /\ p = "release" => ~obj[t].fh
    BY <1>5 DEF ree_fs_remove_fails
  <2>2. torn' \subseteq TA
    BY <2>1 DEF RestType
  <2>3. /\ p \in Pcs /\ p \notin Second /\ pc[t] \notin Second /\ p \notin Renaming
        /\ pc[t] \in Pcs \ {"enum_get", "enum_close"}
        /\ p \notin {"open", "create", "unmake", "enum_get", "enum_close", "head", "final",
                      "enum_open"}
    BY <1>5 DEF Pcs, Second, Renaming, After
  <2>4. put_dirh(TRUE, dirh.refcount, {})
    BY <1>0, <2>1
  <2> QED
    BY <1>5, <2>1, <2>2, <2>3, <2>4, PlacePut
<1> QED
  BY <1>1, <1>2, <1>3, <1>4, <1>5

LEMMA CommitFields ==
    ASSUME RefInv, NEW ok \in BOOLEAN, NEW bits, Committed(ok, bits)
    PROVE  \E b : \E fail \in BOOLEAN : put_dirh(fail, dirh.refcount, b)
BY DEF Committed, Done, Failed

\* A rename, and a creation that is not confirmed.
LEMMA RenameSteps ==
    ASSUME RefInv, NEW t \in TA,
           (\E ok \in BOOLEAN : ree_fs_rename(t, ok)) \/ ree_fs_create(t, FALSE)
    PROVE  RestKept
<1> USE Known
<1>1. ASSUME NEW ok \in BOOLEAN, ree_fs_rename(t, ok) PROVE RestKept
  <2>1. PICK b : \E fail \in BOOLEAN : put_dirh(fail, dirh.refcount, b)
    BY <1>1, CommitFields DEF ree_fs_rename
  <2> DEFINE p == IF ok THEN "pobj_rename" ELSE "put"
  <2>2. Goto(t, p) /\ p \in {"pobj_rename", "put"} /\ pc[t] = "rename"
        /\ UNCHANGED <<obj, po, efh, dead>> /\ torn' \subseteq TA
    BY <1>1 DEF ree_fs_rename, At, RestType
  <2> HIDE DEF p
  <2> QED
    BY <2>1, <2>2, PlacePut DEF Pcs, Working, Second, Renaming, Frame
<1>2. CASE ree_fs_create(t, FALSE)
  <2>1. put_dirh(TRUE, dirh.refcount, {})
    BY <1>2 DEF ree_fs_create, Failed
  <2>2. (Goto(t, "release") \/ Goto(t, "unmake")) /\ pc[t] = "create"
        /\ UNCHANGED <<obj, po, efh, dead>> /\ torn' \subseteq TA
    BY <1>2, TearType DEF ree_fs_create, At, RestType
  <2> QED
    BY <2>1, <2>2, PlacePut DEF Pcs, Working, Second, Renaming, Frame
<1> QED
  BY <1>1, <1>2

\* An object is opened or created: a handle is set up.
LEMMA OpenSteps ==
    ASSUME RefInv, NEW t \in TA, NEW id \in Id, NEW flags \in Flags,
           obj_open(t, id, flags) \/ obj_create(t, id, flags)
    PROVE  RestKept
<1>1. PICK s \in Places : obj' = [obj EXCEPT ![t] = [NoObj EXCEPT !.po = s, !.flags = flags]]
  BY Zenon DEF obj_open, obj_create
<1>2. /\ obj'[t] \in Obj /\ obj'[t].po = s /\ obj'[t].flags = flags /\ ~obj'[t].fh
      /\ obj'[t].linked /\ ~obj'[t].behind
  <2>1. flags \in SUBSET FlagNames
    BY FlagsOK
  <2>2. obj \in [TA -> Obj]
    BY Known DEF RestType
  <2>3. obj'[t] = [NoObj EXCEPT !.po = s, !.flags = flags]
    BY <1>1, <2>2
  <2>4. LET r == [NoObj EXCEPT !.po = s, !.flags = flags] IN
        /\ r \in Obj /\ r.po = s /\ r.flags = flags /\ ~r.fh /\ r.linked /\ ~r.behind
    BY <2>1, OpenedFields, Zenon
  <2> QED
    BY <2>3, <2>4, Zenon
<1> USE Known
<1>3. obj' \in [TA -> Obj] /\ \A u \in TA \ {t} : obj'[u] = obj[u]
  BY <1>1, <1>2 DEF RestType
<1>4. \E p \in {"open", "create"} : Goto(t, p)
  BY DEF obj_open, obj_create
<1>5. pc' \in [TA -> Pcs] /\ pc'[t] \in {"open", "create"} /\ \A u \in TA \ {t} : pc'[u] = pc[u]
  BY <1>4, GotoFields DEF Pcs
<1>6. UNCHANGED <<po, efh, en, dead, torn>> /\ pc[t] = "idle" /\ ~en[t].fops
  BY DEF obj_open, obj_create, At, Unused
<1>7. RestType'
  BY <1>3, <1>5, <1>6 DEF RestType
<1>8. Frame(t)'
  BY <1>2, <1>5, <1>6, Sizes DEF Frame, Working, Second, Renaming
<1>9. \A u \in TA \ {t} : SameFrame(u)
  BY <1>3, <1>5, <1>6 DEF SameFrame
<1> QED
  BY <1>7, <1>8, <1>9, OneInstance

\* The handle of ree_fs_open().
LEMMA FsOpenFields ==
    ASSUME RefInv, NEW t \in TA, ree_fs_open(t)
    PROVE  LET i == tee_fs_dirfile_find(MyId(t)) IN
           /\ i \in Idx /\ i # 0 /\ dent[i].id = MyId(t) /\ ~is_free(i) /\ dent[i].there
           /\ pc[t] = "open" /\ ~obj[t].fh /\ obj[t].linked /\ ~obj[t].behind
           /\ obj'[t] \in Obj /\ obj'[t].po = obj[t].po /\ obj'[t].flags = obj[t].flags
           /\ obj'[t].fh /\ obj'[t].file = dent[i].file /\ obj'[t].idx = i
           /\ obj'[t].linked = obj[t].linked /\ obj'[t].behind = obj[t].behind
           /\ obj' \in [TA -> Obj] /\ \A u \in TA \ {t} : obj'[u] = obj[u]
<1> USE Known
<1> DEFINE i == tee_fs_dirfile_find(MyId(t))
<1>1. pc[t] = "open" /\ i # 0 /\ dent[i].there
  BY DEF ree_fs_open, At
<1>2. MyId(t) \in Id /\ ~obj[t].fh /\ obj[t].linked /\ ~obj[t].behind
  BY <1>1, InList DEF Frame, Working
<1>3. i \in Idx /\ dent[i].id = MyId(t) /\ ~is_free(i)
  BY <1>1, <1>2, FindFields
<1>4. dent[i].file \in Files
  BY <1>3, Types, DentTypes
<1>5. obj' = [obj EXCEPT ![t] = [obj[t] EXCEPT !.fh = TRUE, !.file = dent[i].file, !.idx = i]]
  BY DEF ree_fs_open
<1> HIDE DEF i
<1>6. obj'[t] = [obj[t] EXCEPT !.fh = TRUE, !.file = dent[i].file, !.idx = i]
  BY <1>5 DEF RestType
<1>7. /\ obj'[t] \in Obj /\ obj'[t].po = obj[t].po /\ obj'[t].flags = obj[t].flags
      /\ obj'[t].fh /\ obj'[t].file = dent[i].file /\ obj'[t].idx = i
      /\ obj'[t].linked = obj[t].linked /\ obj'[t].behind = obj[t].behind
  <2>1. obj[t] \in Obj
    OBVIOUS
  <2>2. LET r == [obj[t] EXCEPT !.fh = TRUE, !.file = dent[i].file, !.idx = i] IN
        /\ r \in Obj /\ r.po = obj[t].po /\ r.flags = obj[t].flags /\ r.fh
        /\ r.file = dent[i].file /\ r.idx = i /\ r.linked = obj[t].linked
        /\ r.behind = obj[t].behind
    <3>1. PICK k \in Obj : k = obj[t]
      BY <2>1
    <3>2. PICK n \in Files : n = dent[i].file
      BY <1>4
    <3>3. PICK j \in Idx : j = i
      BY <1>3
    <3>4. LET r == [k EXCEPT !.fh = TRUE, !.file = n, !.idx = j] IN
          /\ r \in Obj /\ r.po = k.po /\ r.flags = k.flags /\ r.fh /\ r.file = n
          /\ r.idx = j /\ r.linked = k.linked /\ r.behind = k.behind
      BY DEF Obj
    <3> QED
      BY <3>1, <3>2, <3>3, <3>4, Zenon
  <2> QED
    BY <1>6, <2>2, Zenon
<1>8. obj' \in [TA -> Obj] /\ \A u \in TA \ {t} : obj'[u] = obj[u]
  BY <1>5, <1>7 DEF RestType
<1> QED
  BY <1>1, <1>2, <1>3, <1>7, <1>8 DEF i

LEMMA FsOpenStep ==
    ASSUME RefInv, NEW t \in TA, ree_fs_open(t)
    PROVE  RestKept
<1> USE Known
<1>1. /\ pc[t] = "open" /\ obj'[t] \in Obj /\ obj'[t].po = obj[t].po
      /\ obj'[t].flags = obj[t].flags /\ obj'[t].fh /\ obj'[t].idx # 0
      /\ obj' \in [TA -> Obj] /\ \A u \in TA \ {t} : obj'[u] = obj[u]
  BY FsOpenFields
<1>2. pc' \in [TA -> Pcs] /\ pc'[t] = "head" /\ \A u \in TA \ {t} : pc'[u] = pc[u]
  BY GotoFields DEF ree_fs_open, Pcs
<1>3. /\ en' \in [TA -> Enum]
      /\ \A u \in TA : /\ en'[u].fops = en[u].fops /\ en'[u].dir = en[u].dir
                       /\ en'[u].idx = en[u].idx /\ en'[u].oid = en[u].oid
  <2>1. put_dirh(FALSE, dirh.refcount + 1, files)
    BY Zenon DEF ree_fs_open, Kept
  <2>2. dirh.refcount + 1 \in Nat
    OBVIOUS
  <2> QED
    BY <2>1, <2>2, PutFields
<1>4. UNCHANGED <<po, efh, dead, torn>>
  BY DEF ree_fs_open
<1>5. RestType'
  BY <1>1, <1>2, <1>3, <1>4 DEF RestType
<1>6. Frame(t)'
  BY <1>1, <1>2, <1>3, <1>4 DEF Frame, Working, Second, Renaming
<1>7. \A u \in TA \ {t} : SameFrame(u)
  BY <1>1, <1>2, <1>3, <1>4 DEF SameFrame
<1> QED
  BY <1>5, <1>6, <1>7, OneInstance

\* The entry that ree_fs_create() writes.
Place(t) == LET old == tee_fs_dirfile_find(MyId(t)) IN IF old = 0 THEN find_empty_idx ELSE old

LEMMA CreateEntry ==
    ASSUME RefInv, NEW t \in TA, NEW ok \in BOOLEAN, ree_fs_create(t, ok)
    PROVE  /\ pc[t] = "create" /\ obj[t].po # 0 /\ ~obj[t].fh /\ obj[t].linked
           /\ ~obj[t].behind /\ MyId(t) \in Id
           /\ tee_fs_dirfile_get_tmp \in Files /\ tee_fs_dirfile_get_tmp \notin files
           /\ Place(t) \in Idx
           /\ \/ is_free(Place(t)) /\ \A j \in Idx : dent[j].id # MyId(t)
              \/ ~is_free(Place(t)) /\ dent[Place(t)].id = MyId(t)
           /\ dent' = [dent EXCEPT ![Place(t)] =
                          [id |-> MyId(t), file |-> tee_fs_dirfile_get_tmp, there |-> ok]]
           /\ torn' = torn \cup Tear(t, Place(t))
<1> USE Known
<1>1. pc[t] = "create" /\ CanGetTmp
  BY DEF ree_fs_create, At
<1>2. MyId(t) \in Id /\ ~obj[t].fh /\ obj[t].linked /\ ~obj[t].behind /\ obj[t].po # 0
  BY <1>1, InList DEF Frame, Working
<1>3. tee_fs_dirfile_get_tmp \in Files /\ tee_fs_dirfile_get_tmp \notin files
  BY <1>1, TmpFields
<1>4. /\ Place(t) \in Idx
      /\ \/ is_free(Place(t)) /\ \A j \in Idx : dent[j].id # MyId(t)
         \/ ~is_free(Place(t)) /\ dent[Place(t)].id = MyId(t)
  BY <1>2, FindFields, EmptyFields DEF Place
<1>5. /\ dent' = [dent EXCEPT ![Place(t)] =
                     [id |-> MyId(t), file |-> tee_fs_dirfile_get_tmp, there |-> ok]]
      /\ torn' = torn \cup Tear(t, Place(t))
  BY Zenon DEF ree_fs_create, Place
<1> QED
  BY <1>1, <1>2, <1>3, <1>4, <1>5

LEMMA CreateFields ==
    ASSUME RefInv, NEW t \in TA, ree_fs_create(t, TRUE)
    PROVE  /\ obj'[t].po = obj[t].po /\ obj'[t].flags = obj[t].flags \ {"overwrite"}
           /\ obj'[t].fh /\ obj'[t].file = tee_fs_dirfile_get_tmp /\ obj'[t].idx = Place(t)
           /\ obj'[t].linked = obj[t].linked /\ obj'[t].behind = obj[t].behind
           /\ obj' \in [TA -> Obj]
           /\ \A u \in TA \ {t} :
                /\ obj'[u].po = obj[u].po /\ obj'[u].flags = obj[u].flags
                /\ obj'[u].fh = obj[u].fh /\ obj'[u].file = obj[u].file
                /\ obj'[u].idx = obj[u].idx
                /\ obj'[u].linked <=>
                     obj[u].linked /\ ~(~is_free(Place(t)) /\ OnFile(u, dent[Place(t)].file))
                /\ ~OnFile(u, tee_fs_dirfile_get_tmp) => obj'[u].behind = obj[u].behind
<1> USE Known
<1> DEFINE n == tee_fs_dirfile_get_tmp
           i == Place(t)
           fdp == [obj[t] EXCEPT !.flags = @ \ {"overwrite"}, !.fh = TRUE, !.file = n, !.idx = i]
           other(u) == [Unlink(u, i) EXCEPT !.behind = @ \/ OnFile(u, n)]
<1>1. obj' = [u \in TA |-> IF u = t THEN fdp ELSE other(u)]
  BY Zenon DEF ree_fs_create, Place
<1>2. n \in Files /\ i \in Idx
  BY CreateEntry
<1> HIDE DEF n, i, fdp, other
<1>3. obj'[t] = fdp /\ \A u \in TA \ {t} : obj'[u] = other(u)
  BY <1>1
<1>4. /\ fdp \in Obj /\ fdp.po = obj[t].po /\ fdp.flags = obj[t].flags \ {"overwrite"}
      /\ fdp.fh /\ fdp.file = n /\ fdp.idx = i
      /\ fdp.linked = obj[t].linked /\ fdp.behind = obj[t].behind
  <2>1. PICK k \in Obj : k = obj[t]
    OBVIOUS
  <2>2. PICK m \in Files : m = n
    BY <1>2
  <2>3. PICK j \in Idx : j = i
    BY <1>2
  <2>4. PICK f \in SUBSET FlagNames : f = k.flags \ {"overwrite"}
    BY ObjTypes
  <2>5. LET r == [k EXCEPT !.flags = f, !.fh = TRUE, !.file = m, !.idx = j] IN
        /\ r \in Obj /\ r.po = k.po /\ r.flags = f /\ r.fh /\ r.file = m
        /\ r.idx = j /\ r.linked = k.linked /\ r.behind = k.behind
    BY DEF Obj
  <2>6. fdp = [k EXCEPT !.flags = f, !.fh = TRUE, !.file = m, !.idx = j]
    BY <2>1, <2>2, <2>3, <2>4, Zenon DEF fdp
  <2> QED
    BY <2>1, <2>2, <2>3, <2>4, <2>5, <2>6, Zenon
<1>5. ASSUME NEW u \in TA
      PROVE  /\ other(u) \in Obj /\ other(u).po = obj[u].po /\ other(u).flags = obj[u].flags
             /\ other(u).fh = obj[u].fh /\ other(u).file = obj[u].file
             /\ other(u).idx = obj[u].idx
             /\ other(u).linked <=> obj[u].linked /\ ~(~is_free(i) /\ OnFile(u, dent[i].file))
             /\ ~OnFile(u, n) => other(u).behind = obj[u].behind
  <2>1. PICK k \in Obj : k = Unlink(u, i)
    BY UnlinkFields
  <2>2. /\ k.po = obj[u].po /\ k.flags = obj[u].flags /\ k.fh = obj[u].fh
        /\ k.file = obj[u].file /\ k.idx = obj[u].idx /\ k.behind = obj[u].behind
        /\ k.linked <=> obj[u].linked /\ ~(~is_free(i) /\ OnFile(u, dent[i].file))
    BY <2>1, UnlinkFields, Zenon
  <2>3. PICK b \in BOOLEAN : b = (k.behind \/ OnFile(u, n)) /\ (~OnFile(u, n) => b = k.behind)
    BY ObjTypes
  <2>4. LET r == [k EXCEPT !.behind = b] IN
        /\ r \in Obj /\ r.po = k.po /\ r.flags = k.flags /\ r.fh = k.fh
        /\ r.file = k.file /\ r.idx = k.idx /\ r.linked = k.linked /\ r.behind = b
    BY DEF Obj
  <2>5. other(u) = [k EXCEPT !.behind = b]
    BY <2>1, <2>3 DEF other
  <2> QED
    BY <2>2, <2>3, <2>4, <2>5, Zenon
<1>6. obj' \in [TA -> Obj]
  BY <1>1, <1>4, <1>5
<1> QED
  BY <1>3, <1>4, <1>5, <1>6 DEF n, i

LEMMA CreateStep ==
    ASSUME RefInv, NEW t \in TA, ree_fs_create(t, TRUE)
    PROVE  RestKept
<1>1. /\ obj'[t].po = obj[t].po /\ obj'[t].fh /\ obj'[t].idx # 0 /\ obj' \in [TA -> Obj]
      /\ \A u \in TA \ {t} :
           /\ obj'[u].po = obj[u].po /\ obj'[u].flags = obj[u].flags
           /\ (obj'[u].fh <=> obj[u].fh) /\ obj'[u].idx = obj[u].idx
           /\ ~obj[u].fh => (obj'[u].linked <=> obj[u].linked) /\ obj'[u].behind = obj[u].behind
  <2>1. Place(t) # 0
    <3>1. Place(t) \in Idx
      BY CreateEntry
    <3> QED
      BY <3>1, Sizes
  <2>2. \A n : \A u \in TA : ~obj[u].fh => ~OnFile(u, n)
    BY DEF OnFile
  <2>3. ASSUME NEW u \in TA \ {t}
        PROVE  /\ obj'[u].po = obj[u].po /\ obj'[u].flags = obj[u].flags
               /\ (obj'[u].fh <=> obj[u].fh) /\ obj'[u].idx = obj[u].idx
               /\ ~obj[u].fh =>
                    (obj'[u].linked <=> obj[u].linked) /\ obj'[u].behind = obj[u].behind
    <3>1. /\ obj'[u].po = obj[u].po /\ obj'[u].flags = obj[u].flags
          /\ obj'[u].fh = obj[u].fh /\ obj'[u].idx = obj[u].idx
          /\ obj'[u].linked <=>
               obj[u].linked /\ ~(~is_free(Place(t)) /\ OnFile(u, dent[Place(t)].file))
          /\ ~OnFile(u, tee_fs_dirfile_get_tmp) => obj'[u].behind = obj[u].behind
      BY CreateFields
    <3> QED
      BY <2>2, <3>1
  <2> QED
    BY <2>1, <2>3, CreateFields
<1> USE Known
<1>2. pc[t] = "create"
  BY CreateEntry
<1>3. pc' \in [TA -> Pcs] /\ pc'[t] = "final" /\ \A u \in TA \ {t} : pc'[u] = pc[u]
  <2>1. Goto(t, "final")
    BY DEF ree_fs_create
  <2> QED
    BY <2>1, GotoFields DEF Pcs
<1>4. /\ en' \in [TA -> Enum]
      /\ \A u \in TA : /\ en'[u].fops = en[u].fops /\ en'[u].dir = en[u].dir
                       /\ en'[u].idx = en[u].idx /\ en'[u].oid = en[u].oid
  <2>1. \E bits : put_dirh(FALSE, dirh.refcount + 1, bits)
    BY Zenon DEF ree_fs_create, Kept
  <2>2. dirh.refcount + 1 \in Nat
    OBVIOUS
  <2> QED
    BY <2>1, <2>2, PutFields
<1>5. UNCHANGED <<po, efh, dead>> /\ torn' \subseteq TA
  BY TearType DEF ree_fs_create, RestType
<1>6. RestType'
  BY <1>1, <1>3, <1>4, <1>5 DEF RestType
<1>7. Frame(t)'
  BY <1>1, <1>2, <1>3, <1>4, <1>5 DEF Frame, Working, Second, Renaming
<1>8. \A u \in TA \ {t} : SameFrame(u)
  BY <1>1, <1>3, <1>4, <1>5 DEF SameFrame
<1> QED
  BY <1>6, <1>7, <1>8, OneInstance

\* A write, which changes only which trees are behind.
LEMMA WriteFields ==
    ASSUME RefInv, NEW t \in TA, Wrote(t)
    PROVE  /\ pc' = pc /\ pc[t] = "idle" /\ obj[t].fh /\ "write" \in obj[t].flags
           /\ obj[t].idx \in Idx
           /\ obj' \in [TA -> Obj]
           /\ \A u \in TA :
                /\ obj'[u].po = obj[u].po /\ obj'[u].flags = obj[u].flags
                /\ obj'[u].fh = obj[u].fh /\ obj'[u].file = obj[u].file
                /\ obj'[u].idx = obj[u].idx /\ obj'[u].linked = obj[u].linked
                /\ u = t \/ ~(OnFile(u, obj[t].file) /\ obj[t].linked) =>
                     obj'[u].behind = obj[u].behind
<1> USE Known
<1>1. \A u \in TA : obj'[u] = Outdate(t, u) /\ obj' = [v \in TA |-> Outdate(t, v)]
  BY DEF Wrote
<1>2. obj' \in [TA -> Obj]
  <2>1. \A u \in TA : Outdate(t, u) \in Obj
    BY OutdateFields
  <2> QED
    BY <1>1, <2>1
<1>3. pc' = pc /\ pc[t] = "idle" /\ obj[t].fh /\ "write" \in obj[t].flags
  BY DEF Wrote, Writes, Has, At
<1>4. obj[t].idx \in Idx
  BY <1>3, ObjTypes DEF Frame
<1>5. ASSUME NEW u \in TA
      PROVE  /\ obj'[u].po = obj[u].po /\ obj'[u].flags = obj[u].flags
             /\ obj'[u].fh = obj[u].fh /\ obj'[u].file = obj[u].file
             /\ obj'[u].idx = obj[u].idx /\ obj'[u].linked = obj[u].linked
             /\ u = t \/ ~(OnFile(u, obj[t].file) /\ obj[t].linked) =>
                  obj'[u].behind = obj[u].behind
  BY <1>1, OutdateFields
<1> QED
  BY <1>2, <1>3, <1>4, <1>5

LEMMA WriteStep ==
    ASSUME RefInv, NEW t \in TA, Wrote(t)
    PROVE  RestKept
<1> USE Known
<1>1. PICK b : \E fail \in BOOLEAN : put_dirh(fail, dirh.refcount, b)
  BY CommitFields DEF Wrote
<1>2. /\ en' \in [TA -> Enum]
      /\ \A u \in TA : /\ en'[u].fops = en[u].fops /\ en'[u].dir = en[u].dir
                       /\ en'[u].idx = en[u].idx /\ en'[u].oid = en[u].oid
  BY <1>1, PutFields
<1>3. UNCHANGED <<pc, po, efh, dead>> /\ torn' \subseteq TA
  BY DEF Wrote, TornBy, RestType
<1>4. /\ pc[t] = "idle" /\ obj' \in [TA -> Obj]
      /\ \A u \in TA :
           /\ obj'[u].po = obj[u].po /\ obj'[u].flags = obj[u].flags
           /\ (obj'[u].fh <=> obj[u].fh) /\ obj'[u].idx = obj[u].idx
           /\ (obj'[u].linked <=> obj[u].linked)
  BY WriteFields
<1>5. \A u \in TA : ~obj[u].fh => obj'[u].behind = obj[u].behind
  BY WriteFields DEF OnFile
<1>6. RestType'
  BY <1>2, <1>3, <1>4 DEF RestType
<1>7. Frame(t)'
  BY <1>2, <1>3, <1>4 DEF Frame
<1>8. \A u \in TA \ {t} : SameFrame(u)
  BY <1>2, <1>3, <1>4, <1>5 DEF SameFrame
<1> QED
  BY <1>6, <1>7, <1>8, OneInstance

\* A removal: the handles of the file lose it.
LEMMA RemoveFields ==
    ASSUME RefInv, NEW t \in TA, obj[t].po # 0, NEW ok \in BOOLEAN, NEW next,
           ree_fs_remove(t, ok, next)
    PROVE  LET i == tee_fs_dirfile_find(MyId(t)) IN
           /\ i \in Idx /\ i # 0 /\ dent[i].id = MyId(t) /\ ~is_free(i)
           /\ dent' = [dent EXCEPT ![i] = Cleared] /\ dent[i].file \in Files
           /\ torn' = torn \cup Tear(t, i) \cup {u \in {t} : next = "idle" /\ obj[u].fh}
           /\ obj' \in [TA -> Obj]
           /\ \A u \in TA :
                /\ obj'[u].po = obj[u].po /\ obj'[u].flags = obj[u].flags
                /\ obj'[u].fh = obj[u].fh /\ obj'[u].file = obj[u].file
                /\ obj'[u].idx = obj[u].idx /\ obj'[u].behind = obj[u].behind
                /\ ~OnFile(u, dent[i].file) => (obj'[u].linked <=> obj[u].linked)
<1> USE Known
<1> DEFINE i == tee_fs_dirfile_find(MyId(t))
<1>1. MyId(t) \in Id /\ i # 0
  BY InList DEF ree_fs_remove
<1>2. i \in Idx /\ dent[i].id = MyId(t) /\ ~is_free(i)
  BY <1>1, FindFields
<1>3. dent[i].file \in Files
  BY <1>2, Types, DentTypes
<1>4. /\ dent' = [dent EXCEPT ![i] = Cleared]
      /\ torn' = torn \cup Tear(t, i) \cup {u \in {t} : next = "idle" /\ obj[u].fh}
      /\ obj' = [u \in TA |-> IF ok THEN Unlink(u, i) ELSE obj[u]]
  BY Zenon DEF ree_fs_remove
<1> HIDE DEF i
<1>5. ASSUME NEW u \in TA
      PROVE  /\ obj'[u] \in Obj /\ obj'[u].po = obj[u].po /\ obj'[u].flags = obj[u].flags
             /\ obj'[u].fh = obj[u].fh /\ obj'[u].file = obj[u].file
             /\ obj'[u].idx = obj[u].idx /\ obj'[u].behind = obj[u].behind
             /\ ~OnFile(u, dent[i].file) => (obj'[u].linked <=> obj[u].linked)
  <2>1. CASE ok
    <3>1. obj'[u] = Unlink(u, i)
      BY <1>4, <2>1
    <3> QED
      BY <3>1, UnlinkFields
  <2>2. CASE ~ok
    <3>1. obj'[u] = obj[u] /\ obj[u] \in Obj
      BY <1>4, <2>2
    <3> QED
      BY <3>1, Zenon
  <2> QED
    BY <2>1, <2>2
<1>6. obj' \in [TA -> Obj]
  BY <1>4, <1>5
<1> QED
  BY <1>1, <1>2, <1>3, <1>4, <1>5, <1>6 DEF i

LEMMA RemoveStep ==
    ASSUME RefInv, NEW t \in TA, obj[t].po # 0, pc[t] \in {"idle", "corrupt", "unmake"},
           NEW ok \in BOOLEAN, NEW next \in After, ree_fs_remove(t, ok, next),
           next = "release" => ~obj[t].fh
    PROVE  RestKept
<1> USE Known
<1>1. PICK b : \E fail \in BOOLEAN : put_dirh(fail, dirh.refcount, b)
  BY CommitFields DEF ree_fs_remove
<1>2. /\ en' \in [TA -> Enum]
      /\ \A u \in TA : /\ en'[u].fops = en[u].fops /\ en'[u].dir = en[u].dir
                       /\ en'[u].idx = en[u].idx /\ en'[u].oid = en[u].oid
  BY <1>1, PutFields
<1>3. UNCHANGED <<po, efh, dead>> /\ torn' \subseteq TA
  BY TearType DEF ree_fs_remove, RestType
<1>4. pc' \in [TA -> Pcs] /\ pc'[t] = next /\ \A u \in TA \ {t} : pc'[u] = pc[u]
  BY GotoFields DEF ree_fs_remove, Pcs, After
<1>5. /\ obj' \in [TA -> Obj]
      /\ \A u \in TA :
           /\ obj'[u].po = obj[u].po /\ obj'[u].flags = obj[u].flags
           /\ (obj'[u].fh <=> obj[u].fh) /\ obj'[u].idx = obj[u].idx
           /\ obj'[u].behind = obj[u].behind
  BY RemoveFields
<1>6. \A u \in TA : ~obj[u].fh => (obj'[u].linked <=> obj[u].linked)
  BY RemoveFields DEF OnFile
<1>7. RestType'
  BY <1>2, <1>3, <1>4, <1>5 DEF RestType
<1>8. Frame(t)'
  BY <1>2, <1>3, <1>4, <1>5 DEF Frame, Working, Second, Renaming, After
<1>9. \A u \in TA \ {t} : SameFrame(u)
  BY <1>2, <1>3, <1>4, <1>5, <1>6 DEF SameFrame
<1> QED
  BY <1>7, <1>8, <1>9, OneInstance

\* A file is closed.
LEMMA CloseFields ==
    ASSUME RefInv, NEW t \in TA, ree_fs_close(t)
    PROVE  /\ pc[t] = "close" /\ obj[t].po # 0
           /\ obj'[t].po = obj[t].po /\ obj'[t].flags = obj[t].flags /\ ~obj'[t].fh
           /\ obj' \in [TA -> Obj] /\ \A u \in TA \ {t} : obj'[u] = obj[u]
<1> USE Known
<1>1. pc[t] = "close" /\ obj[t].po # 0
  BY DEF ree_fs_close, At, Frame, Working
<1>2. PICK k \in Obj : k = obj[t]
  OBVIOUS
<1>3. LET r == [k EXCEPT !.fh = FALSE] IN
      r \in Obj /\ r.po = k.po /\ r.flags = k.flags /\ ~r.fh
  BY DEF Obj
<1>4. obj' = [obj EXCEPT ![t] = [k EXCEPT !.fh = FALSE]]
  BY <1>2 DEF ree_fs_close
<1>5. obj'[t] = [k EXCEPT !.fh = FALSE] /\ \A u \in TA \ {t} : obj'[u] = obj[u]
  BY <1>4 DEF RestType
<1>6. obj'[t] \in Obj /\ obj'[t].po = k.po /\ obj'[t].flags = k.flags /\ ~obj'[t].fh
  BY <1>3, <1>5, Zenon
<1>7. obj' \in [TA -> Obj]
  BY <1>4, <1>5, <1>6 DEF RestType
<1> QED
  BY <1>1, <1>2, <1>5, <1>6, <1>7

LEMMA CloseStep ==
    ASSUME RefInv, NEW t \in TA, ree_fs_close(t)
    PROVE  RestKept
<1> USE Known
<1>1. UNCHANGED <<po, efh, en, dead>> /\ torn' \subseteq TA
  BY DEF ree_fs_close, RestType, put_dirh_primitive
<1>2. pc' \in [TA -> Pcs] /\ pc'[t] = "release" /\ \A u \in TA \ {t} : pc'[u] = pc[u]
  BY GotoFields DEF ree_fs_close, Pcs
<1>3. RestType'
  BY <1>1, <1>2, CloseFields DEF RestType
<1>4. Frame(t)'
  BY <1>1, <1>2, CloseFields DEF Frame, Working, Second, Renaming
<1>5. \A u \in TA \ {t} : SameFrame(u)
  BY <1>1, <1>2, CloseFields DEF SameFrame
<1> QED
  BY <1>3, <1>4, <1>5, OneInstance

\* The last use of an object is given up: places behind it move.
LEMMA ReleaseMoves ==
    ASSUME RefInv, NEW t \in TA, obj_release(t)
    PROVE  /\ pc[t] = "release" /\ ~obj[t].fh /\ obj[t].po \in DOMAIN tee_pobjs /\ po[t] = 0
           /\ ~en[t].fops
           /\ obj'[t] = NoObj /\ obj' \in [TA -> Obj] /\ po' \in [TA -> Places \cup {0}]
           /\ \A u \in TA : po'[u] = Moved(obj[t].po, po[u])
           /\ \A u \in TA \ {t} :
                /\ obj'[u].po = Moved(obj[t].po, obj[u].po)
                /\ obj'[u].flags = obj[u].flags /\ obj'[u].fh = obj[u].fh
                /\ obj'[u].file = obj[u].file /\ obj'[u].idx = obj[u].idx
                /\ obj'[u].linked = obj[u].linked /\ obj'[u].behind = obj[u].behind
<1> USE Known
<1> DEFINE s == obj[t].po
<1>1. pc[t] = "release" /\ ~obj[t].fh /\ s # 0 /\ po[t] = 0 /\ ~en[t].fops
  BY DEF obj_release, At, Frame, Working, Second, Renaming
<1>2. s \in DOMAIN tee_pobjs /\ s \in Places
  BY <1>1, InList, Types
<1>3. /\ obj' = [u \in TA |-> IF u = t THEN NoObj ELSE [obj[u] EXCEPT !.po = Moved(s, obj[u].po)]]
      /\ po' = [u \in TA |-> Moved(s, po[u])]
  BY DEF obj_release
<1> HIDE DEF s
<1>4. ASSUME NEW u \in TA
      PROVE  LET r == [obj[u] EXCEPT !.po = Moved(s, obj[u].po)] IN
             /\ r \in Obj /\ r.po = Moved(s, obj[u].po)
             /\ r.flags = obj[u].flags /\ r.fh = obj[u].fh /\ r.file = obj[u].file
             /\ r.idx = obj[u].idx /\ r.linked = obj[u].linked /\ r.behind = obj[u].behind
  <2>1. PICK k \in Obj : k = obj[u]
    OBVIOUS
  <2>2. k.po \in Places \cup {0}
    BY ObjTypes
  <2>3. PICK p \in Places \cup {0} : p = Moved(s, k.po)
    BY <1>2, <2>2, MovedType
  <2>4. LET r == [k EXCEPT !.po = p] IN
        /\ r \in Obj /\ r.po = p /\ r.flags = k.flags /\ r.fh = k.fh /\ r.file = k.file
        /\ r.idx = k.idx /\ r.linked = k.linked /\ r.behind = k.behind
    BY DEF Obj
  <2> QED
    BY <2>1, <2>3, <2>4, Zenon
<1>5. obj'[t] = NoObj
  BY <1>3
<1>6. ASSUME NEW u \in TA \ {t}
      PROVE  /\ obj'[u].po = Moved(s, obj[u].po)
             /\ obj'[u].flags = obj[u].flags /\ obj'[u].fh = obj[u].fh
             /\ obj'[u].file = obj[u].file /\ obj'[u].idx = obj[u].idx
             /\ obj'[u].linked = obj[u].linked /\ obj'[u].behind = obj[u].behind
             /\ obj'[u] \in Obj
  <2>1. obj'[u] = [obj[u] EXCEPT !.po = Moved(s, obj[u].po)]
    BY <1>3
  <2> QED
    BY <1>4, <2>1, ZenonT(40)
<1>7. obj' \in [TA -> Obj]
  BY <1>3, <1>5, <1>6, NothingTypes
<1>8. \A u \in TA : Moved(s, po[u]) \in Places \cup {0}
  BY <1>2, MovedType
<1>9. po' \in [TA -> Places \cup {0}] /\ \A u \in TA : po'[u] = Moved(s, po[u])
  BY <1>3, <1>8
<1> QED
  BY <1>1, <1>2, <1>5, <1>6, <1>7, <1>9 DEF s

LEMMA PutMoves ==
    ASSUME RefInv, NEW t \in TA, put_second(t)
    PROVE  /\ pc[t] = "put" /\ po[t] \in DOMAIN tee_pobjs
           /\ po'[t] = 0 /\ obj' \in [TA -> Obj] /\ po' \in [TA -> Places \cup {0}]
           /\ \A u \in TA \ {t} : po'[u] = Moved(po[t], po[u])
           /\ \A u \in TA :
                /\ obj'[u].po = Moved(po[t], obj[u].po)
                /\ obj'[u].flags = obj[u].flags /\ obj'[u].fh = obj[u].fh
                /\ obj'[u].file = obj[u].file /\ obj'[u].idx = obj[u].idx
                /\ obj'[u].linked = obj[u].linked /\ obj'[u].behind = obj[u].behind
<1> USE Known
<1> DEFINE s == po[t]
<1>1. pc[t] = "put" /\ s # 0
  BY DEF put_second, At, Frame, Second
<1>2. s \in DOMAIN tee_pobjs /\ s \in Places
  BY <1>1, InList, Types
<1>3. /\ obj' = [u \in TA |-> [obj[u] EXCEPT !.po = Moved(s, obj[u].po)]]
      /\ po' = [u \in TA |-> IF u = t THEN 0 ELSE Moved(s, po[u])]
  BY DEF put_second
<1> HIDE DEF s
<1>4. ASSUME NEW u \in TA
      PROVE  /\ obj'[u].po = Moved(s, obj[u].po)
             /\ obj'[u].flags = obj[u].flags /\ obj'[u].fh = obj[u].fh
             /\ obj'[u].file = obj[u].file /\ obj'[u].idx = obj[u].idx
             /\ obj'[u].linked = obj[u].linked /\ obj'[u].behind = obj[u].behind
             /\ obj'[u] \in Obj
  <2>1. PICK k \in Obj : k = obj[u]
    OBVIOUS
  <2>2. k.po \in Places \cup {0}
    BY ObjTypes
  <2>3. PICK p \in Places \cup {0} : p = Moved(s, k.po)
    BY <1>2, <2>2, MovedType
  <2>4. LET r == [k EXCEPT !.po = p] IN
        /\ r \in Obj /\ r.po = p /\ r.flags = k.flags /\ r.fh = k.fh /\ r.file = k.file
        /\ r.idx = k.idx /\ r.linked = k.linked /\ r.behind = k.behind
    BY DEF Obj
  <2>5. obj'[u] = [k EXCEPT !.po = p]
    BY <1>3, <2>1, <2>3
  <2> QED
    BY <2>1, <2>3, <2>4, <2>5, Zenon
<1>5. obj' \in [TA -> Obj]
  BY <1>3, <1>4
<1>6. \A u \in TA : Moved(s, po[u]) \in Places \cup {0}
  BY <1>2, MovedType
<1>7. /\ po' \in [TA -> Places \cup {0}] /\ po'[t] = 0
      /\ \A u \in TA \ {t} : po'[u] = Moved(s, po[u])
  BY <1>3, <1>6
<1> QED
  BY <1>1, <1>2, <1>4, <1>5, <1>7 DEF s

LEMMA ReleaseSteps ==
    ASSUME RefInv, NEW t \in TA, obj_release(t) \/ put_second(t)
    PROVE  RestKept
<1> USE Known
<1>1. UNCHANGED <<efh, en, dead, torn>>
  BY DEF obj_release, put_second
<1>2. pc' \in [TA -> Pcs] /\ pc'[t] = "idle" /\ \A u \in TA \ {t} : pc'[u] = pc[u]
  BY GotoFields DEF obj_release, put_second, Pcs
<1>3. CASE obj_release(t)
  <2>1. obj[t].po \in Places
    BY <1>3, ReleaseMoves, Types
  <2>2. \A u \in TA \ {t} : (obj'[u].po = 0 <=> obj[u].po = 0) /\ (po'[u] = 0 <=> po[u] = 0)
    BY <1>3, <2>1, ReleaseMoves, MovedType, ObjTypes
  <2>3. po'[t] = 0
    BY <1>3, <2>1, ReleaseMoves, MovedType
  <2>4. RestType'
    BY <1>1, <1>2, <1>3, ReleaseMoves DEF RestType
  <2>5. Frame(t)'
    BY <1>1, <1>2, <1>3, <2>3, ReleaseMoves, NothingTypes DEF Frame, Working, Second, Renaming
  <2>6. \A u \in TA \ {t} : SameFrame(u)
    BY <1>1, <1>2, <1>3, <2>2, ReleaseMoves DEF SameFrame
  <2> QED
    BY <2>4, <2>5, <2>6, OneInstance
<1>4. CASE put_second(t)
  <2>1. po[t] \in Places
    BY <1>4, PutMoves, Types
  <2>2. /\ \A u \in TA : obj'[u].po = 0 <=> obj[u].po = 0
        /\ \A u \in TA \ {t} : po'[u] = 0 <=> po[u] = 0
    BY <1>4, <2>1, PutMoves, MovedType, ObjTypes
  <2>3. RestType'
    BY <1>1, <1>2, <1>4, PutMoves DEF RestType
  <2>4. Frame(t)'
    BY <1>1, <1>2, <1>4, <2>2, PutMoves DEF Frame, Working, Second, Renaming
  <2>5. \A u \in TA \ {t} : SameFrame(u)
    BY <1>1, <1>2, <1>4, <2>2, PutMoves DEF SameFrame
  <2> QED
    BY <2>3, <2>4, <2>5, OneInstance
<1> QED
  BY <1>3, <1>4

\* The name of a rename is reserved.
LEMMA BeginRenameStep ==
    ASSUME RefInv, NEW t \in TA, NEW id \in Id, obj_rename(t, id)
    PROVE  RestKept
<1> USE Known
<1>1. PICK s \in Places : po' = [po EXCEPT ![t] = s]
  BY DEF obj_rename
<1>2. /\ UNCHANGED <<obj, efh, en, dead, torn>> /\ pc[t] = "idle" /\ obj[t].fh
      /\ obj[t].po # 0 /\ "meta" \in obj[t].flags
  BY DEF obj_rename, Has, At
<1>3. pc' \in [TA -> Pcs] /\ pc'[t] = "rename" /\ \A u \in TA \ {t} : pc'[u] = pc[u]
  BY GotoFields DEF obj_rename, Pcs
<1>4. po' \in [TA -> Places \cup {0}] /\ po'[t] = s /\ \A u \in TA \ {t} : po'[u] = po[u]
  BY <1>1 DEF RestType
<1>5. RestType'
  BY <1>2, <1>3, <1>4 DEF RestType
<1>6. Frame(t)'
  BY <1>2, <1>3, <1>4, Sizes DEF Frame, Working, Second, Renaming
<1>7. \A u \in TA \ {t} : SameFrame(u)
  BY <1>2, <1>3, <1>4 DEF SameFrame
<1> QED
  BY <1>5, <1>6, <1>7, OneInstance

LEMMA EnumFields ==
    ASSUME NEW k \in Enum, NEW i \in Idx, NEW o \in Id \cup {None}
    PROVE  /\ LET r == [k EXCEPT !.idx = i, !.oid = o] IN
              /\ r \in Enum /\ r.fops = k.fops /\ r.dir = k.dir /\ r.stale = k.stale
              /\ r.idx = i /\ r.oid = o
           /\ LET r == [k EXCEPT !.oid = o] IN
              /\ r \in Enum /\ r.fops = k.fops /\ r.dir = k.dir /\ r.stale = k.stale
              /\ r.idx = k.idx /\ r.oid = o
BY DEF Enum

LEMMA StartFields ==
    /\ LET r == [NoEnum EXCEPT !.fops = TRUE] IN
       r \in Enum /\ r.fops /\ ~r.dir /\ ~r.stale
    /\ LET r == [NoEnum EXCEPT !.fops = TRUE, !.dir = TRUE] IN
       r \in Enum /\ r.fops /\ r.dir /\ ~r.stale
<1>1. PICK k \in Enum : k = NoEnum
  BY NothingTypes
<1>2. /\ [k EXCEPT !.fops = TRUE] \in Enum /\ [k EXCEPT !.fops = TRUE, !.dir = TRUE] \in Enum
  BY DEF Enum
<1>3. /\ LET r == [NoEnum EXCEPT !.fops = TRUE] IN r.fops /\ ~r.dir /\ ~r.stale
      /\ LET r == [NoEnum EXCEPT !.fops = TRUE, !.dir = TRUE] IN r.fops /\ r.dir /\ ~r.stale
  BY DEF NoEnum
<1> QED
  BY <1>1, <1>2, <1>3

\* The enumerator of a step, and the others.
LEMMA NextEnumFields ==
    ASSUME RefInv, NEW t \in TA, next_enum(t), en[t].dir, ~en[t].stale
    PROVE  /\ pc[t] = "idle" /\ en[t].fops /\ Goto(t, "enum_get")
           /\ en' \in [TA -> Enum] /\ \A u \in TA \ {t} : en'[u] = en[u]
           /\ en'[t].fops /\ en'[t].dir = en[t].dir /\ en'[t].stale = en[t].stale
           /\ en'[t].oid \in Id
           /\ UNCHANGED <<dent, dirh, tee_pobjs, obj, po, efh, dead, torn>>
<1> USE Known
<1> DEFINE i == tee_fs_dirfile_get_next(en[t].idx)
<1>1. /\ pc[t] = "idle" /\ en[t].fops /\ Goto(t, "enum_get") /\ i # 0
      /\ en' = [en EXCEPT ![t] = [en[t] EXCEPT !.idx = i, !.oid = dent[i].id]]
      /\ UNCHANGED <<dent, dirh, tee_pobjs, obj, po, efh, dead, torn>>
  <2>1. pc[t] = "idle" /\ en[t].fops /\ Goto(t, "enum_get") /\ i # 0
        /\ UNCHANGED <<dent, dirh, tee_pobjs, obj, po, efh, dead, torn>>
    BY DEF next_enum, At
  <2>2. en' = [en EXCEPT ![t].idx = i, ![t].oid = dent[i].id]
    BY Zenon DEF next_enum
  <2>3. PICK k \in Enum : k = en[t]
    OBVIOUS
  <2>4. [en EXCEPT ![t].idx = i, ![t].oid = dent[i].id]
          = [en EXCEPT ![t] = [en[t] EXCEPT !.idx = i, !.oid = dent[i].id]]
    <3> HIDE DEF i
    <3>1. en \in [TA -> Enum]
      BY DEF RestType
    <3> QED
      BY <3>1
  <2> QED
    BY <2>1, <2>2, <2>4
<1>2. i \in Idx /\ ~is_free(i)
  <2>1. en[t].idx \in Idx \cup {0}
    BY EnumTypes
  <2> QED
    BY <1>1, <2>1, NextFields
<1>3. dent[i].id \in Id
  BY <1>2, Types, DentTypes DEF is_free
<1> HIDE DEF i
<1>4. PICK j \in Idx : j = i
  BY <1>2
<1>5. PICK o \in Id \cup {None} : o = dent[i].id
  BY <1>3
<1>6. PICK k \in Enum : k = en[t]
  OBVIOUS
<1>7. LET r == [k EXCEPT !.idx = j, !.oid = o] IN
      /\ r \in Enum /\ r.fops = k.fops /\ r.dir = k.dir /\ r.stale = k.stale
      /\ r.idx = j /\ r.oid = o
  BY DEF Enum
<1>8. en' = [en EXCEPT ![t] = [k EXCEPT !.idx = j, !.oid = o]]
  BY <1>1, <1>4, <1>5, <1>6, Zenon
<1>9. en'[t] = [k EXCEPT !.idx = j, !.oid = o] /\ \A u \in TA \ {t} : en'[u] = en[u]
  BY <1>8 DEF RestType
<1>10. en'[t] \in Enum /\ en'[t].fops = k.fops /\ en'[t].dir = k.dir /\ en'[t].stale = k.stale
       /\ en'[t].oid = o
  BY <1>7, <1>9, Zenon
<1>11. en' \in [TA -> Enum]
  BY <1>8, <1>9, <1>10 DEF RestType
<1> QED
  BY <1>1, <1>3, <1>5, <1>6, <1>9, <1>10, <1>11

LEMMA EnumGetFields ==
    ASSUME RefInv, NEW t \in TA, enum_get(t)
    PROVE  /\ pc[t] = "enum_get" /\ en[t].fops /\ en[t].oid \in Id /\ po[t] = 0
           /\ en' \in [TA -> Enum] /\ \A u \in TA \ {t} : en'[u] = en[u]
           /\ en'[t].fops /\ en'[t].dir = en[t].dir /\ en'[t].stale = en[t].stale
<1> USE Known
<1>1. pc[t] = "enum_get"
  BY DEF enum_get, At
<1>2. en[t].fops /\ en[t].oid \in Id /\ po[t] = 0
  BY <1>1 DEF Frame, Second, Renaming
<1>3. PICK k \in Enum : k = en[t]
  OBVIOUS
<1>4. PICK o \in Id \cup {None} : o = None
  OBVIOUS
<1>5. LET r == [k EXCEPT !.oid = o] IN
      /\ r \in Enum /\ r.fops = k.fops /\ r.dir = k.dir /\ r.stale = k.stale
  BY DEF Enum
<1>6. en' = [en EXCEPT ![t] = [k EXCEPT !.oid = o]]
  BY <1>3, <1>4 DEF enum_get
<1>7. en'[t] = [k EXCEPT !.oid = o] /\ \A u \in TA \ {t} : en'[u] = en[u]
  BY <1>6 DEF RestType
<1>8. en'[t] \in Enum /\ en'[t].fops = k.fops /\ en'[t].dir = k.dir /\ en'[t].stale = k.stale
  BY <1>5, <1>7, Zenon
<1>9. en' \in [TA -> Enum]
  BY <1>6, <1>7, <1>8 DEF RestType
<1> QED
  BY <1>1, <1>2, <1>3, <1>7, <1>8, <1>9
\* What is in memory when the core has started.
LEMMA BootedFields ==
    ASSUME NEW why \in {"no", "file_number", "test_file", "dirh", "no dir", "freed dirh",
                         "closed dirf"},
           Booted(why)
    PROVE  /\ RestKept /\ dirh' = NoDirh /\ tee_pobjs' = <<>> /\ dent' = dent /\ torn' = {}
           /\ \A t \in TA : /\ pc'[t] = "idle" /\ po'[t] = 0 /\ ~efh'[t]
                            /\ obj'[t].po = 0 /\ ~obj'[t].fh /\ ~en'[t].dir /\ ~en'[t].fops
<1>1. /\ pc' = [t \in TA |-> "idle"] /\ obj' = [t \in TA |-> NoObj] /\ po' = [t \in TA |-> 0]
      /\ efh' = [t \in TA |-> FALSE] /\ en' = [t \in TA |-> NoEnum] /\ torn' = {} /\ dead' = why
      /\ dirh' = NoDirh /\ tee_pobjs' = <<>> /\ dent' = dent
  BY DEF Booted
<1>2. \A t \in TA : /\ pc'[t] = "idle" /\ po'[t] = 0 /\ ~efh'[t] /\ obj'[t].po = 0
                    /\ ~obj'[t].fh /\ ~en'[t].dir /\ ~en'[t].fops
  BY <1>1, NothingTypes
<1>3. RestType'
  BY <1>1, NothingTypes DEF RestType, Pcs
<1>4. Frames'
  BY <1>2 DEF Frames, Frame, Working, Second, Renaming
<1> QED
  BY <1>1, <1>2, <1>3, <1>4 DEF RestKept

\* The steps of an enumeration.
LEMMA NextEnumStep ==
    ASSUME RefInv, NEW t \in TA, next_enum(t), en[t].dir, ~en[t].stale
    PROVE  RestKept
<1> USE Known
<1>1. /\ pc[t] = "idle" /\ en[t].fops /\ Goto(t, "enum_get")
      /\ en' \in [TA -> Enum] /\ \A u \in TA \ {t} : en'[u] = en[u]
      /\ en'[t].fops /\ en'[t].dir = en[t].dir /\ en'[t].oid \in Id
      /\ UNCHANGED <<obj, po, efh, dead, torn>>
  BY NextEnumFields
<1>2. pc' \in [TA -> Pcs] /\ pc'[t] = "enum_get" /\ \A u \in TA \ {t} : pc'[u] = pc[u]
  BY <1>1, GotoFields DEF Pcs
<1>3. RestType'
  BY <1>1, <1>2 DEF RestType
<1>4. Frame(t)'
  BY <1>1, <1>2 DEF Frame, Working, Second, Renaming
<1>5. \A u \in TA \ {t} : SameFrame(u)
  BY <1>1, <1>2 DEF SameFrame
<1> QED
  BY <1>3, <1>4, <1>5, OneInstance

LEMMA EnumGetStep ==
    ASSUME RefInv, NEW t \in TA, enum_get(t)
    PROVE  RestKept
<1> USE Known
<1>1. /\ pc[t] = "enum_get" /\ en[t].fops /\ po[t] = 0
      /\ en' \in [TA -> Enum] /\ \A u \in TA \ {t} : en'[u] = en[u]
      /\ en'[t].fops /\ en'[t].dir = en[t].dir
  BY EnumGetFields
<1>2. UNCHANGED <<obj, efh, dead, torn>>
  BY DEF enum_get
<1>3. PICK p \in {"enum_open", "idle"} :
         /\ Goto(t, p)
         /\ \/ p = "idle" /\ po' = po
            \/ p = "enum_open" /\ \E s \in Places : po' = [po EXCEPT ![t] = s]
  BY DEF enum_get
<1>4. pc' \in [TA -> Pcs] /\ pc'[t] = p /\ \A u \in TA \ {t} : pc'[u] = pc[u]
  BY <1>3, GotoFields DEF Pcs
<1>5. /\ po' \in [TA -> Places \cup {0}] /\ \A u \in TA \ {t} : po'[u] = po[u]
      /\ po'[t] # 0 <=> p = "enum_open"
  <2>1. CASE p = "idle" /\ po' = po
    BY <1>1, <2>1 DEF RestType
  <2>2. CASE p = "enum_open" /\ \E s \in Places : po' = [po EXCEPT ![t] = s]
    <3>1. PICK s \in Places : po' = [po EXCEPT ![t] = s]
      BY <2>2
    <3>2. s # 0
      BY Sizes
    <3> QED
      BY <2>2, <3>1, <3>2 DEF RestType
  <2> QED
    BY <1>3, <2>1, <2>2
<1>6. RestType'
  BY <1>1, <1>2, <1>4, <1>5 DEF RestType
<1>7. Frame(t)'
  BY <1>1, <1>2, <1>3, <1>4, <1>5 DEF Frame, Working, Second, Renaming
<1>8. \A u \in TA \ {t} : SameFrame(u)
  BY <1>1, <1>2, <1>4, <1>5 DEF SameFrame
<1> QED
  BY <1>6, <1>7, <1>8, OneInstance

\* A step that changes the enumerator of t only, if anything.
LEMMA EnumChange ==
    ASSUME RefInv, NEW t \in TA, pc[t] = "idle", UNCHANGED <<pc, obj, po, efh, dead, torn>>,
           obj[t].po = 0, NEW e \in Enum, en' = [en EXCEPT ![t] = e], e.dir => e.fops
    PROVE  RestKept
<1> USE Known
<1>1. /\ en' \in [TA -> Enum] /\ en'[t] = e /\ \A u \in TA \ {t} : en'[u] = en[u]
  BY DEF RestType
<1>2. RestType'
  BY <1>1 DEF RestType
<1>3. Frame(t)'
  BY <1>1 DEF Frame, Working, Second, Renaming
<1>4. \A u \in TA \ {t} : SameFrame(u)
  BY <1>1 DEF SameFrame
<1> QED
  BY <1>2, <1>3, <1>4, OneInstance

\* enum_open() and enum_close(): the file is opened to look at it, and closed.
LEMMA EnumFileSteps ==
    ASSUME RefInv, NEW t \in TA, enum_open(t) \/ enum_close(t)
    PROVE  RestKept
<1> USE Known
<1>1. PICK p \in {"enum_close", "put"} :
         /\ Goto(t, p)
         /\ \/ pc[t] = "enum_open" /\ p = "put" /\ efh' = efh
            \/ pc[t] = "enum_open" /\ p = "enum_close" /\ efh' = [efh EXCEPT ![t] = TRUE]
            \/ pc[t] = "enum_close" /\ p = "put" /\ efh' = [efh EXCEPT ![t] = FALSE]
  BY DEF enum_open, enum_close, At
<1>2. UNCHANGED <<obj, po, dead, torn>>
  BY DEF enum_open, enum_close
<1>3. /\ en' \in [TA -> Enum]
      /\ \A u \in TA : en'[u].fops = en[u].fops /\ en'[u].dir = en[u].dir
                         /\ en'[u].oid = en[u].oid
  <2>1. CASE enum_close(t)
    BY <2>1 DEF enum_close, put_dirh_primitive, RestType
  <2>2. CASE \E refs \in Nat, fail \in BOOLEAN : \E bits : put_dirh(fail, refs, bits)
    BY <2>2, PutFields
  <2>3. enum_open(t) => \E refs \in Nat, fail \in BOOLEAN : \E bits : put_dirh(fail, refs, bits)
    <3>1. dirh.refcount + 1 \in Nat
      OBVIOUS
    <3>2. enum_open(t) => Kept(files) \/ Failed
      BY DEF enum_open
    <3> QED
      BY <3>1, <3>2 DEF Kept, Failed
  <2> QED
    BY <2>1, <2>2, <2>3
<1>4. pc' \in [TA -> Pcs] /\ pc'[t] = p /\ \A u \in TA \ {t} : pc'[u] = pc[u]
  BY <1>1, GotoFields DEF Pcs
<1>5. /\ efh' \in [TA -> BOOLEAN] /\ \A u \in TA \ {t} : efh'[u] = efh[u]
      /\ efh'[t] <=> p = "enum_close"
  BY <1>1 DEF RestType, Frame
<1>6. RestType'
  BY <1>2, <1>3, <1>4, <1>5 DEF RestType
<1>7. Frame(t)'
  BY <1>1, <1>2, <1>3, <1>4, <1>5 DEF Frame, Working, Second, Renaming
<1>8. \A u \in TA \ {t} : SameFrame(u)
  BY <1>2, <1>3, <1>4, <1>5 DEF SameFrame
<1> QED
  BY <1>6, <1>7, <1>8, OneInstance

\* Who uses a place of the list, and what it counts.
Handles(s) == {t \in TA : obj[t].po = s}
Seconds(s) == {t \in TA : po[t] = s}
Uses(s) == Cardinality(Handles(s)) + Cardinality(Seconds(s))
Refs(s) == IF s <= Len(tee_pobjs) THEN tee_pobjs[s].refcnt ELSE 0
ListType == Len(tee_pobjs) \in Places \cup {0} /\ tee_pobjs \in Seq(Pobj)

LEMMA UseTypes ==
    /\ \A s : Handles(s) \in SUBSET TA /\ Seconds(s) \in SUBSET TA
    /\ \A s : Uses(s) \in Nat /\ Uses(s) <= 2 * Cardinality(TA)
    /\ \A s : Uses(s) = 0 <=> Handles(s) = {} /\ Seconds(s) = {}
    /\ PobjRefsExact <=> \A s \in Places : Refs(s) = Uses(s)
<1>1. \A s : Handles(s) \in SUBSET TA /\ Seconds(s) \in SUBSET TA
  BY DEF Handles, Seconds
<1>2. \A s : /\ Cardinality(Handles(s)) \in Nat /\ Cardinality(Handles(s)) <= Cardinality(TA)
             /\ Cardinality(Seconds(s)) \in Nat /\ Cardinality(Seconds(s)) <= Cardinality(TA)
             /\ Cardinality(Handles(s)) = 0 <=> Handles(s) = {}
             /\ Cardinality(Seconds(s)) = 0 <=> Seconds(s) = {}
  BY <1>1, Counts
<1>3. PobjRefsExact <=> \A s \in Places : Refs(s) = Uses(s)
  BY DEF PobjRefsExact, Refs, Uses, Handles, Seconds
<1> QED
  BY <1>1, <1>2, <1>3, Sizes DEF Uses

\* The same, of the state after a step.
LEMMA UseTypesNext ==
    /\ \A s : Handles(s)' \in SUBSET TA /\ Seconds(s)' \in SUBSET TA
    /\ \A s : Uses(s)' \in Nat /\ Uses(s)' <= 2 * Cardinality(TA)
    /\ PobjRefsExact' <=> \A s \in Places : Refs(s)' = Uses(s)'
<1>1. \A s : Handles(s)' \in SUBSET TA /\ Seconds(s)' \in SUBSET TA
  BY DEF Handles, Seconds
<1>2. \A s : /\ Cardinality(Handles(s)') \in Nat /\ Cardinality(Handles(s)') <= Cardinality(TA)
             /\ Cardinality(Seconds(s)') \in Nat /\ Cardinality(Seconds(s)') <= Cardinality(TA)
  BY <1>1, Counts
<1>3. PobjRefsExact' <=> \A s \in Places : Refs(s)' = Uses(s)'
  BY DEF PobjRefsExact, Refs, Uses, Handles, Seconds
<1> QED
  BY <1>1, <1>2, <1>3, Sizes DEF Uses

\* Counts that are right and not zero are in range.
LEMMA ListCounted ==
    ASSUME tee_pobjs' \in Seq(Counted), Len(tee_pobjs') <= 2 * Cardinality(TA), PobjRefsExact',
           \A r \in 1 .. Len(tee_pobjs') : tee_pobjs'[r].refcnt >= 1
    PROVE  ListType'
<1>1. Len(tee_pobjs') \in Nat /\ Len(tee_pobjs') \in Places \cup {0}
  BY Sizes
<1>2. \A r \in 1 .. Len(tee_pobjs') : tee_pobjs'[r].refcnt \in Places
  <2> SUFFICES ASSUME NEW r \in 1 .. Len(tee_pobjs')
               PROVE  tee_pobjs'[r].refcnt \in Places
    OBVIOUS
  <2>1. r \in Places
    BY <1>1, Sizes
  <2>2. tee_pobjs'[r].refcnt = Uses(r)'
    BY <1>1, <2>1, UseTypesNext DEF Refs
  <2> QED
    BY <2>2, UseTypesNext, Sizes
<1> QED
  BY <1>1, <1>2, CountedList DEF ListType

\* One object of the list is used by one more or one fewer.
LEMMA RecountRefs ==
    ASSUME RefInv, NEW s \in DOMAIN tee_pobjs, NEW n \in Nat, n >= 1, Recounted(s, n),
           Uses(s)' = n, \A r \in Places \ {s} : Uses(r)' = Uses(r)
    PROVE  PobjRefsExact' /\ ListType'
<1>1. /\ DOMAIN tee_pobjs = 1 .. Len(tee_pobjs) /\ Len(tee_pobjs) \in Nat
      /\ Len(tee_pobjs) <= 2 * Cardinality(TA)
      /\ \A r \in DOMAIN tee_pobjs : tee_pobjs[r] \in Pobj /\ tee_pobjs[r].refcnt >= 1
  BY Types, Known, PobjTypes
<1>2. \A r \in Places : Refs(r) = Uses(r)
  BY Known, UseTypes
<1>3. \A r \in Places : Refs(r)' = Uses(r)'
  <2> TAKE r \in Places
  <2>1. CASE r = s
    BY <2>1, <1>1 DEF Refs, Recounted
  <2>2. CASE r # s
    BY <2>2, <1>1, <1>2, Sizes DEF Refs, Recounted
  <2> QED
    BY <2>1, <2>2
<1>4. PobjRefsExact'
  BY <1>3, UseTypesNext
<1> QED
  BY <1>1, <1>4, ListCounted DEF Recounted

\* An object is added, with one use.
LEMMA AddRefs ==
    ASSUME RefInv, NEW s \in Places, NEW id \in Id, NEW flags \in SUBSET FlagNames, NEW usage,
           Adds(id, flags, usage, s),
           Uses(s)' = Uses(s) + 1, \A r \in Places \ {s} : Uses(r)' = Uses(r)
    PROVE  PobjRefsExact' /\ ListType'
<1>1. /\ DOMAIN tee_pobjs = 1 .. Len(tee_pobjs) /\ Len(tee_pobjs) \in Nat
      /\ Len(tee_pobjs) <= 2 * Cardinality(TA)
      /\ \A r \in DOMAIN tee_pobjs : tee_pobjs[r] \in Pobj /\ tee_pobjs[r].refcnt >= 1
  BY Types, Known, PobjTypes
<1>2. \A r \in Places : Refs(r) = Uses(r)
  BY Known, UseTypes
<1>3. /\ s = Len(tee_pobjs) + 1 /\ Len(tee_pobjs') = s /\ tee_pobjs'[s].refcnt = 1
      /\ \A r \in DOMAIN tee_pobjs : tee_pobjs'[r] = tee_pobjs[r]
      /\ tee_pobjs' \in Seq(Counted)
  BY DEF Adds
<1>4. \A r \in Places : Refs(r)' = Uses(r)'
  <2> TAKE r \in Places
  <2>1. CASE r = s
    <3>1. Uses(s) = 0
      BY <1>1, <1>2, <1>3 DEF Refs
    <3>2. Refs(s)' = 1
      BY <1>3 DEF Refs
    <3> QED
      BY <2>1, <3>1, <3>2
  <2>2. CASE r # s
    BY <2>2, <1>1, <1>2, <1>3, Sizes DEF Refs
  <2> QED
    BY <2>1, <2>2
<1>5. PobjRefsExact'
  BY <1>4, UseTypesNext
<1>6. s <= 2 * Cardinality(TA)
  BY Sizes
<1> QED
  BY <1>1, <1>3, <1>5, <1>6, ListCounted

\* The last use of an object goes, and those behind it move up a place.
LEMMA DropRefs ==
    ASSUME RefInv, NEW s \in DOMAIN tee_pobjs, Drops(s),
           \A r \in Places : Uses(r)' = IF r < s THEN Uses(r)
                                        ELSE IF r < Len(tee_pobjs) THEN Uses(r + 1) ELSE 0
    PROVE  PobjRefsExact' /\ ListType'
<1>1. /\ DOMAIN tee_pobjs = 1 .. Len(tee_pobjs) /\ Len(tee_pobjs) \in Nat
      /\ Len(tee_pobjs) <= 2 * Cardinality(TA) /\ s \in Places
      /\ \A r \in DOMAIN tee_pobjs : tee_pobjs[r] \in Pobj /\ tee_pobjs[r].refcnt >= 1
  BY Types, Known, PobjTypes
<1>2. \A r \in Places : Refs(r) = Uses(r)
  BY Known, UseTypes
<1>3. /\ tee_pobjs' \in Seq(Pobj) /\ Len(tee_pobjs') = Len(tee_pobjs) - 1
      /\ \A r \in 1 .. Len(tee_pobjs) - 1 :
            tee_pobjs'[r] = IF r < s THEN tee_pobjs[r] ELSE tee_pobjs[r + 1]
  BY DEF Drops
<1>4. \A r \in Places : Refs(r)' = Uses(r)'
  <2> TAKE r \in Places
  <2>0. r \in Nat /\ r >= 1 /\ s \in Nat
    BY <1>1, Sizes
  <2>1. CASE r < s
    BY <2>0, <2>1, <1>1, <1>2, <1>3 DEF Refs
  <2>2. CASE r >= s /\ r < Len(tee_pobjs)
    <3>1. r + 1 \in Places /\ r + 1 <= Len(tee_pobjs)
      BY <2>0, <2>2, <1>1, Sizes
    <3>2. Refs(r + 1) = Uses(r + 1) /\ Refs(r + 1) = tee_pobjs[r + 1].refcnt
      BY <3>1, <1>2 DEF Refs
    <3>3. Refs(r)' = tee_pobjs[r + 1].refcnt
      BY <2>0, <2>2, <1>1, <1>3 DEF Refs
    <3> QED
      BY <2>0, <2>2, <3>2, <3>3
  <2>3. CASE r >= Len(tee_pobjs)
    BY <2>0, <2>3, <1>1, <1>3 DEF Refs
  <2> QED
    BY <2>0, <2>1, <2>2, <2>3, <1>1
<1>5. PobjRefsExact'
  BY <1>4, UseTypesNext
<1>6. Len(tee_pobjs') \in Places \cup {0}
  BY <1>1, <1>3, Sizes
<1> QED
  BY <1>3, <1>5, <1>6 DEF ListType

\* A count of one is one use.
LEMMA LastUse ==
    ASSUME RefInv, NEW s \in DOMAIN tee_pobjs, tee_pobjs[s].refcnt = 1
    PROVE  \A a, b \in TA : /\ obj[a].po = s /\ obj[b].po = s => a = b
                            /\ po[a] = s /\ po[b] = s => a = b
                            /\ ~(obj[a].po = s /\ po[b] = s)
<1>1. s \in Places /\ s <= Len(tee_pobjs)
  BY Types, Known
<1>2. Uses(s) = 1
  BY <1>1, Known, UseTypes DEF Refs
<1>3. /\ Cardinality(Handles(s)) \in Nat /\ Cardinality(Seconds(s)) \in Nat
      /\ Handles(s) \in SUBSET TA /\ Seconds(s) \in SUBSET TA
      /\ Cardinality(Handles(s)) + Cardinality(Seconds(s)) = 1
  BY <1>2, UseTypes, Counts DEF Uses
<1>4. \A a, b \in Nat : a + b = 1 => (a = 0 \/ b = 0) /\ a <= 1 /\ b <= 1
  OBVIOUS
<1>5. /\ Cardinality(Handles(s)) = 0 \/ Cardinality(Seconds(s)) = 0
      /\ Cardinality(Handles(s)) <= 1 /\ Cardinality(Seconds(s)) <= 1
  BY <1>3, <1>4, Zenon
<1>6. Handles(s) = {} \/ Seconds(s) = {}
  BY <1>3, <1>5, Counts
<1>7. /\ \A a, b \in Handles(s) : a = b
      /\ \A a, b \in Seconds(s) : a = b
  BY <1>3, <1>5, CountOne
<1> QED
  BY <1>6, <1>7 DEF Handles, Seconds

\* The list and its counts are right after a step.
ListKept == PobjRefsExact' /\ ListType'

\* No use of the list comes or goes.
SameUses == po' = po /\ \A u \in TA : obj'[u].po = obj[u].po

\* The list has the same objects, with the same counts.
SameCounts ==
    /\ tee_pobjs' \in Seq(Pobj) /\ Len(tee_pobjs') = Len(tee_pobjs)
    /\ \A r \in DOMAIN tee_pobjs : tee_pobjs'[r].refcnt = tee_pobjs[r].refcnt

LEMMA ListStill ==
    ASSUME RefInv, SameUses, SameCounts
    PROVE  ListKept
<1>1. \A r : Uses(r)' = Uses(r)
  <2> SUFFICES ASSUME NEW r PROVE Handles(r)' = Handles(r) /\ Seconds(r)' = Seconds(r)
    BY DEF Uses
  <2> QED
    BY DEF Handles, Seconds, SameUses
<1>2. DOMAIN tee_pobjs = 1 .. Len(tee_pobjs) /\ Len(tee_pobjs) \in Nat
  BY Types, Known
<1>3. Len(tee_pobjs) \in Places \cup {0}
  BY Known DEF TypeOK
<1>4. \A r \in Places : Refs(r)' = Refs(r)
  BY <1>2, Sizes DEF Refs, SameCounts
<1>5. \A r \in Places : Refs(r) = Uses(r)
  BY Known, UseTypes
<1>6. PobjRefsExact'
  BY <1>1, <1>4, <1>5, UseTypesNext
<1> QED
  BY <1>3, <1>6 DEF ListKept, ListType, SameCounts

LEMMA ListUnchanged ==
    ASSUME RefInv, SameUses, UNCHANGED tee_pobjs
    PROVE  ListKept
BY Types, Known, ListStill DEF SameCounts

\* tee_pobj_get() for a handle, or for the second object of a call.
LEMMA GetRefs ==
    ASSUME RefInv, NEW t \in TA, NEW s \in Places, NEW id \in Id, NEW flags \in SUBSET FlagNames,
           NEW usage, tee_pobj_get(id, flags, usage, s),
           \/ /\ obj[t].po = 0 /\ obj'[t].po = s /\ po' = po
              /\ \A u \in TA \ {t} : obj'[u].po = obj[u].po
           \/ /\ po[t] = 0 /\ po'[t] = s /\ \A u \in TA : obj'[u].po = obj[u].po
              /\ \A u \in TA \ {t} : po'[u] = po[u]
    PROVE  ListKept
<1>0. s # 0 /\ s \in Nat
  BY Sizes
<1>1. Uses(s)' = Uses(s) + 1
  <2>0. /\ Cardinality(Handles(s)) \in Nat /\ Cardinality(Seconds(s)) \in Nat
        /\ Handles(s) \in SUBSET TA /\ Seconds(s) \in SUBSET TA
    BY UseTypes, Counts
  <2>1. CASE /\ obj[t].po = 0 /\ obj'[t].po = s /\ po' = po
             /\ \A u \in TA \ {t} : obj'[u].po = obj[u].po
    <3>1. Handles(s)' = Handles(s) \cup {t} /\ t \notin Handles(s) /\ Seconds(s)' = Seconds(s)
      BY <2>1, <1>0 DEF Handles, Seconds
    <3> QED
      BY <2>0, <3>1, CountMore DEF Uses
  <2>2. CASE /\ po[t] = 0 /\ po'[t] = s /\ \A u \in TA : obj'[u].po = obj[u].po
             /\ \A u \in TA \ {t} : po'[u] = po[u]
    <3>1. Seconds(s)' = Seconds(s) \cup {t} /\ t \notin Seconds(s) /\ Handles(s)' = Handles(s)
      BY <2>2, <1>0 DEF Handles, Seconds
    <3> QED
      BY <2>0, <3>1, CountMore DEF Uses
  <2> QED
    BY <2>1, <2>2
<1>2. \A r \in Places \ {s} : Uses(r)' = Uses(r)
  <2> SUFFICES ASSUME NEW r \in Places \ {s}
               PROVE  Handles(r)' = Handles(r) /\ Seconds(r)' = Seconds(r)
    BY DEF Uses
  <2> QED
    BY Sizes DEF Handles, Seconds
<1>3. Joins(id, flags, usage, s) \/ Adds(id, flags, usage, s)
  BY GetFields, Known
<1>4. CASE Joins(id, flags, usage, s)
  <2>1. s \in DOMAIN tee_pobjs /\ Recounted(s, tee_pobjs[s].refcnt + 1)
    BY <1>4 DEF Joins
  <2>2. /\ s <= Len(tee_pobjs) /\ tee_pobjs[s].refcnt \in Nat
    BY <2>1, Types, Known, PobjTypes
  <2>3. Uses(s) = tee_pobjs[s].refcnt
    BY <2>2, Known, UseTypes DEF Refs
  <2>4. tee_pobjs[s].refcnt + 1 \in Nat /\ tee_pobjs[s].refcnt + 1 >= 1
    BY <2>2
  <2> QED
    BY <1>1, <1>2, <2>1, <2>3, <2>4, RecountRefs DEF ListKept
<1>5. CASE Adds(id, flags, usage, s)
  BY <1>1, <1>2, <1>5, AddRefs DEF ListKept
<1> QED
  BY <1>3, <1>4, <1>5

\* tee_pobj_release() of a place: one use of it goes.
LEMMA ReleaseRefs ==
    ASSUME RefInv, NEW t \in TA, NEW s \in DOMAIN tee_pobjs, tee_pobj_release(s),
           \/ /\ obj[t].po = s /\ obj'[t].po = 0 /\ \A u \in TA : po'[u] = Moved(s, po[u])
              /\ \A u \in TA \ {t} : obj'[u].po = Moved(s, obj[u].po)
           \/ /\ po[t] = s /\ po'[t] = 0 /\ \A u \in TA : obj'[u].po = Moved(s, obj[u].po)
              /\ \A u \in TA \ {t} : po'[u] = Moved(s, po[u])
    PROVE  ListKept
<1>0. /\ s # 0 /\ s \in Nat /\ s \in Places /\ s <= Len(tee_pobjs) /\ Len(tee_pobjs) \in Nat
      /\ tee_pobjs[s].refcnt \in Nat /\ tee_pobjs[s].refcnt >= 1
      /\ DOMAIN tee_pobjs = 1 .. Len(tee_pobjs)
  BY Types, Known, PobjTypes, Sizes
<1>1. Uses(s) = tee_pobjs[s].refcnt
  BY <1>0, Known, UseTypes DEF Refs
<1>2. /\ Cardinality(Handles(s)) \in Nat /\ Cardinality(Seconds(s)) \in Nat
      /\ Handles(s) \in SUBSET TA /\ Seconds(s) \in SUBSET TA
      /\ Uses(s) = Cardinality(Handles(s)) + Cardinality(Seconds(s))
  BY UseTypes, Counts DEF Uses
<1>3. \A u \in TA : /\ obj[u].po \in Nat /\ po[u] \in Nat
                    /\ obj[u].po # 0 => obj[u].po <= Len(tee_pobjs)
                    /\ po[u] # 0 => po[u] <= Len(tee_pobjs)
  BY Known, ObjTypes, InList, <1>0, Sizes
<1>4. CASE tee_pobjs[s].refcnt > 1 /\ Recounted(s, tee_pobjs[s].refcnt - 1)
  <2>1. \A x : Moved(s, x) = x
    BY <1>0, <1>4 DEF Moved
  <2>2. Uses(s)' = Uses(s) - 1
    <3>1. CASE /\ obj[t].po = s /\ obj'[t].po = 0 /\ \A u \in TA : po'[u] = Moved(s, po[u])
               /\ \A u \in TA \ {t} : obj'[u].po = Moved(s, obj[u].po)
      <4>1. Handles(s)' = Handles(s) \ {t} /\ t \in Handles(s) /\ Seconds(s)' = Seconds(s)
        BY <3>1, <2>1, <1>0 DEF Handles, Seconds
      <4> QED
        BY <1>2, <4>1, CountLess DEF Uses
    <3>2. CASE /\ po[t] = s /\ po'[t] = 0 /\ \A u \in TA : obj'[u].po = Moved(s, obj[u].po)
               /\ \A u \in TA \ {t} : po'[u] = Moved(s, po[u])
      <4>1. Seconds(s)' = Seconds(s) \ {t} /\ t \in Seconds(s) /\ Handles(s)' = Handles(s)
        BY <3>2, <2>1, <1>0 DEF Handles, Seconds
      <4> QED
        BY <1>2, <4>1, CountLess DEF Uses
    <3> QED
      BY <3>1, <3>2
  <2>3. \A r \in Places \ {s} : Uses(r)' = Uses(r)
    <3> SUFFICES ASSUME NEW r \in Places \ {s}
                 PROVE  Handles(r)' = Handles(r) /\ Seconds(r)' = Seconds(r)
      BY DEF Uses
    <3> QED
      BY Sizes, <2>1 DEF Handles, Seconds
  <2>4. tee_pobjs[s].refcnt - 1 \in Nat /\ tee_pobjs[s].refcnt - 1 >= 1
    BY <1>0, <1>4
  <2> QED
    BY <1>1, <1>4, <2>2, <2>3, <2>4, RecountRefs DEF ListKept
<1>5. CASE Drops(s)
  <2>1. tee_pobjs[s].refcnt = 1
    BY <1>5 DEF Drops
  <2>2. \A x \in Nat : Moved(s, x) = IF x > s THEN x - 1 ELSE x
    BY <2>1 DEF Moved
  <2>3. \A u \in TA \ {t} : obj[u].po # s /\ po[u] # s
    BY <2>1, LastUse
  <2>4. (obj[t].po = s => po[t] # s) /\ (po[t] = s => obj[t].po # s)
    BY <2>1, LastUse
  <2>5. \A u \in TA : /\ obj'[u].po = IF obj[u].po = s THEN 0
                                      ELSE IF obj[u].po > s THEN obj[u].po - 1 ELSE obj[u].po
                      /\ po'[u] = IF po[u] = s THEN 0
                                  ELSE IF po[u] > s THEN po[u] - 1 ELSE po[u]
    BY <1>3, <2>2, <2>3, <2>4
  <2>6. \A r \in Places : Uses(r)' = IF r < s THEN Uses(r)
                                     ELSE IF r < Len(tee_pobjs) THEN Uses(r + 1) ELSE 0
    <3> TAKE r \in Places
    <3>0. r \in Nat /\ r >= 1
      BY Sizes
    <3>1. CASE r < s
      <4>1. Handles(r)' = Handles(r) /\ Seconds(r)' = Seconds(r)
        BY <1>0, <1>3, <2>5, <3>0, <3>1 DEF Handles, Seconds
      <4> QED
        BY <3>1, <4>1 DEF Uses
    <3>2. CASE r >= s /\ r < Len(tee_pobjs)
      <4>1. Handles(r)' = Handles(r + 1) /\ Seconds(r)' = Seconds(r + 1)
        <5>0. \A x \in Nat : (IF x = s THEN 0 ELSE IF x > s THEN x - 1 ELSE x) = r <=> x = r + 1
          BY <1>0, <3>0, <3>2
        <5>1. \A u \in TA : obj'[u].po = r <=> obj[u].po = r + 1
          BY <1>3, <2>5, <5>0
        <5>2. \A u \in TA : po'[u] = r <=> po[u] = r + 1
          BY <1>3, <2>5, <5>0
        <5> QED
          BY <5>1, <5>2 DEF Handles, Seconds
      <4>2. Uses(r)' = Uses(r + 1)
        BY <4>1 DEF Uses
      <4> QED
        BY <1>0, <3>0, <3>2, <4>2
    <3>3. CASE r >= Len(tee_pobjs)
      <4>1. Handles(r)' = {} /\ Seconds(r)' = {}
        BY <1>0, <1>3, <2>5, <3>0, <3>3 DEF Handles, Seconds
      <4>2. Uses(r)' = 0
        BY <4>1, FS_EmptySet DEF Uses
      <4> QED
        BY <1>0, <3>0, <3>3, <4>2
    <3> QED
      BY <1>0, <3>0, <3>1, <3>2, <3>3
  <2> QED
    BY <1>5, <2>6, DropRefs DEF ListKept
<1> QED
  BY <1>4, <1>5, ReleaseFields, Known

-----------------------------------------------------------------------------
(* What a step does to the list.                                           *)

\* The whole core stops or is reset.
Restarts == \E why \in {"no", "file_number", "test_file", "dirh", "no dir", "freed dirh",
                         "closed dirf"} :
               Booted(why)

\* The steps that change what is in the list or who uses it.
ListSteps(t) ==
    \/ \E id \in Id, flags \in Flags : obj_open(t, id, flags) \/ obj_create(t, id, flags)
    \/ \E id \in Id : obj_rename(t, id)
    \/ obj_release(t) \/ put_second(t) \/ enum_get(t) \/ obj_create_final(t) \/ tee_pobj_rename(t)

\* A name is removed.
Removing(t) == obj_del(t) \/ remove_corrupt_obj(t) \/ create_unmake(t)

LEMMA RemovalFields ==
    ASSUME RefInv, NEW t \in TA, Removing(t)
    PROVE  /\ obj[t].po # 0 /\ pc[t] \in {"idle", "corrupt", "unmake"}
           /\ \E next \in After :
                /\ Removes(t, next)
                /\ next = "release" => ~obj[t].fh
                /\ next = "idle" => pc[t] = "corrupt"
<1>1. CASE obj_del(t)
  BY <1>1 DEF obj_del, Has, At, After
<1>2. CASE remove_corrupt_obj(t)
  BY <1>2, Known DEF remove_corrupt_obj, At, Frame, Working, After
<1>3. CASE create_unmake(t)
  BY <1>3, Known DEF create_unmake, At, Frame, Working, After
<1> QED
  BY <1>1, <1>2, <1>3 DEF Removing

LEMMA EntryThereFields ==
    ASSUME NEW k \in Dent, NEW b \in BOOLEAN
    PROVE  LET r == [k EXCEPT !.there = b] IN
           r \in Dent /\ r.id = k.id /\ r.file = k.file /\ r.there = b
BY DEF Dent

\* What a write does to the directory.
LEMMA SpoilFields ==
    ASSUME RefInv, NEW t \in TA
    PROVE  /\ Spoil(t) \in [Idx -> Dent]
           /\ \A i \in Idx : Spoil(t)[i].id = dent[i].id /\ Spoil(t)[i].file = dent[i].file
<1> DEFINE spoilt(i) == [dent[i] EXCEPT !.there = @ /\ ~(~is_free(i) /\ OnFile(t, dent[i].file))]
<1>1. Spoil(t) = [i \in Idx |-> spoilt(i)]
  BY DEF Spoil
<1>2. ASSUME NEW i \in Idx
      PROVE  /\ spoilt(i) \in Dent /\ spoilt(i).id = dent[i].id
             /\ spoilt(i).file = dent[i].file
  <2>1. PICK k \in Dent : k = dent[i]
    BY Types, Known
  <2>2. PICK b \in BOOLEAN : b = (k.there /\ ~(~is_free(i) /\ OnFile(t, dent[i].file)))
    OBVIOUS
  <2>3. LET e == [k EXCEPT !.there = b] IN e \in Dent /\ e.id = k.id /\ e.file = k.file
    BY EntryThereFields, Zenon
  <2>4. spoilt(i) = [k EXCEPT !.there = b]
    BY <2>1, <2>2
  <2> HIDE DEF spoilt
  <2> QED
    BY <2>1, <2>3, <2>4, Zenon
<1> HIDE DEF spoilt
<1> QED
  BY <1>1, <1>2

LEMMA WriteKinds ==
    ASSUME RefInv, NEW t \in TA,
           ree_fs_write_fails(t) \/ \E ok \in BOOLEAN : ree_fs_write(t, ok)
    PROVE  Wrote(t) \/ NotWritten(t)
<1>0. dent \in [Idx -> Dent]
  BY Types, Known
<1>1. ASSUME NEW ok \in BOOLEAN, ree_fs_write(t, ok) PROVE Wrote(t)
  <2>1. PICK written \in {dent, Spoil(t)}, fits \in Fits(t) :
           dent' = [written EXCEPT ![obj[t].idx].there = fits]
    BY <1>1, Zenon DEF ree_fs_write
  <2>2. /\ written \in [Idx -> Dent]
        /\ \A i \in Idx : written[i].id = dent[i].id /\ written[i].file = dent[i].file
    BY <1>0, <2>1, SpoilFields
  <2>3. fits \in BOOLEAN
    BY <2>1 DEF Fits
  <2>4. obj[t].idx \in Idx
    BY <1>1, Known, ObjTypes DEF ree_fs_write, Writes, Frame
  <2>5. PICK k \in Dent : k = written[obj[t].idx]
    BY <2>2, <2>4
  <2>6. PICK e \in Dent : e = [k EXCEPT !.there = fits] /\ e.id = k.id /\ e.file = k.file
    BY <2>3, EntryThereFields
  <2>7. dent' = [written EXCEPT ![obj[t].idx] = e]
    BY <2>1, <2>5, <2>6, Zenon
  <2>8. dent' \in [Idx -> Dent]
    BY <2>2, <2>4, <2>7
  <2>9. \A i \in Idx : dent'[i].id = dent[i].id /\ dent'[i].file = dent[i].file
    BY <2>2, <2>4, <2>5, <2>6, <2>7
  <2> QED
    BY <1>1, <2>8, <2>9, Zenon DEF ree_fs_write, Wrote
<1>2. CASE ree_fs_write_fails(t)
  <2>1. CASE UNCHANGED <<dent, obj, torn>>
    BY <1>2, <2>1 DEF ree_fs_write_fails, NotWritten
  <2>2. CASE /\ dent' \in {dent, Spoil(t)}
             /\ obj' = [u \in TA |-> Outdate(t, u)]
             /\ torn' = torn \cup TornBy(t)
    <3>1. /\ dent' \in [Idx -> Dent]
          /\ \A i \in Idx : dent'[i].id = dent[i].id /\ dent'[i].file = dent[i].file
      BY <1>0, <2>2, SpoilFields
    <3>2. Committed(FALSE, files)
      BY <1>2 DEF ree_fs_write_fails, Committed
    <3> QED
      BY <1>2, <2>2, <3>1, <3>2, Zenon DEF ree_fs_write_fails, Wrote
  <2> QED
    BY <1>2, <2>1, <2>2, Zenon DEF ree_fs_write_fails
<1> QED
  BY <1>1, <1>2

\* The steps that work on the directory.
DirSteps(t) ==
    \/ ree_fs_open(t) \/ ree_fs_open_fails(t) \/ ree_fs_create_fails(t)
    \/ \E ok \in BOOLEAN : ree_fs_create(t, ok) \/ ree_fs_rename(t, ok)
    \/ Wrote(t) \/ NotWritten(t)
    \/ ree_fs_rename_fails(t) \/ Removing(t) \/ ree_fs_close(t)
    \/ enum_open(t) \/ enum_close(t)

\* The steps of an enumerator, when they do not stop the core.
EnumSteps(t) ==
    \/ closedir(t) /\ ~en[t].stale
    \/ start_enum(t)
    \/ next_enum(t) /\ en[t].dir /\ ~en[t].stale

\* The steps that change nothing but a place in the code.
PlainSteps(t) == give_up(t) \/ tee_svc_storage_read_head(t) \/ ReadCorrupt(t) \/ obj_close(t)

LEMMA StepKinds ==
    ASSUME RefInv, Next
    PROVE  Restarts \/ \E t \in TA : ListSteps(t) \/ DirSteps(t) \/ EnumSteps(t) \/ PlainSteps(t)
<1>1. Reset => Restarts
  BY DEF Reset, Restarts
<1>2. ASSUME NEW t \in TA, closedir(t), en[t].stale PROVE Restarts
  BY <1>2 DEF closedir, Panic, Restarts
<1>3. ASSUME NEW t \in TA, next_enum(t), ~(en[t].dir /\ ~en[t].stale) PROVE Restarts
  BY <1>3 DEF next_enum, Panic, Restarts
<1>4. ASSUME NEW t \in TA, update_hash_asserts(t) PROVE Restarts
  BY <1>4 DEF update_hash_asserts, Panic, Restarts
<1>7. ASSUME NEW t \in TA, find_on_closed(t) PROVE Restarts
  BY <1>7 DEF find_on_closed, Panic, Restarts
<1>5. ASSUME NEW t \in TA, Syscall(t)
      PROVE  Restarts \/ ListSteps(t) \/ DirSteps(t) \/ EnumSteps(t) \/ PlainSteps(t)
  BY <1>2, <1>3, <1>4, <1>5, WriteKinds, Zenon
     DEF Syscall, ListSteps, DirSteps, EnumSteps, PlainSteps, Removing
<1>6. ASSUME NEW t \in TA, Step(t)
      PROVE  Restarts \/ ListSteps(t) \/ DirSteps(t) \/ EnumSteps(t) \/ PlainSteps(t)
  BY <1>6, <1>7, Zenon
     DEF Step, ListSteps, DirSteps, EnumSteps, PlainSteps, Removing
<1> QED
  BY <1>1, <1>5, <1>6 DEF Next

LEMMA FlagsTyped == \A flags \in Flags : flags \in SUBSET FlagNames
BY FlagsOK

\* The names in the list, when a place keeps the same name.
LEMMA ListRest ==
    ASSUME RefInv, NEW t \in TA, ListSteps(t)
    PROVE  RestKept
<1>1. CASE \E id \in Id, flags \in Flags : obj_open(t, id, flags) \/ obj_create(t, id, flags)
  BY <1>1, OpenSteps
<1>2. CASE \E id \in Id : obj_rename(t, id)
  BY <1>2, BeginRenameStep
<1>3. CASE obj_release(t) \/ put_second(t)
  BY <1>3, ReleaseSteps
<1>4. CASE enum_get(t)
  BY <1>4, EnumGetStep
<1>5. CASE obj_create_final(t) \/ tee_pobj_rename(t)
  BY <1>5, PlaceSteps
<1> QED
  BY <1>1, <1>2, <1>3, <1>4, <1>5, Zenon DEF ListSteps

LEMMA DirRest ==
    ASSUME RefInv, NEW t \in TA, DirSteps(t)
    PROVE  RestKept
<1>1. CASE ree_fs_open(t)
  BY <1>1, FsOpenStep
<1>2. CASE \/ ree_fs_open_fails(t) \/ ree_fs_create_fails(t) \/ NotWritten(t)
           \/ ree_fs_rename_fails(t)
  BY <1>2, FailSteps
<1>3. CASE \E ok \in BOOLEAN : ree_fs_create(t, ok)
  BY <1>3, CreateStep, RenameSteps
<1>4. CASE \E ok \in BOOLEAN : ree_fs_rename(t, ok)
  BY <1>4, RenameSteps
<1>5. CASE Wrote(t)
  BY <1>5, WriteStep
<1>6. CASE Removing(t)
  <2>1. obj[t].po # 0 /\ pc[t] \in {"idle", "corrupt", "unmake"}
    BY <1>6, RemovalFields
  <2>2. PICK next \in After : Removes(t, next) /\ (next = "release" => ~obj[t].fh)
    BY <1>6, RemovalFields
  <2>3. CASE \E ok \in BOOLEAN : ree_fs_remove(t, ok, next)
    BY <2>1, <2>2, <2>3, RemoveStep
  <2>4. CASE ree_fs_remove_fails(t, next)
    BY <2>1, <2>2, <2>4, FailSteps
  <2> QED
    BY <2>2, <2>3, <2>4 DEF Removes
<1>7. CASE ree_fs_close(t)
  BY <1>7, CloseStep
<1>8. CASE enum_open(t) \/ enum_close(t)
  BY <1>8, EnumFileSteps
<1> QED
  BY <1>1, <1>2, <1>3, <1>4, <1>5, <1>6, <1>7, <1>8, Zenon DEF DirSteps

LEMMA EnumRest ==
    ASSUME RefInv, NEW t \in TA, EnumSteps(t)
    PROVE  RestKept
<1>1. CASE closedir(t) /\ ~en[t].stale
  <2>1. /\ pc[t] = "idle" /\ en[t].fops /\ en' = [en EXCEPT ![t] = NoEnum]
        /\ UNCHANGED <<pc, obj, po, efh, dead, torn>>
    BY <1>1 DEF closedir, At
  <2>2. obj[t].po = 0
    BY <2>1, Known DEF Frame
  <2> QED
    BY <2>1, <2>2, EnumChange, NothingTypes
<1>2. CASE start_enum(t)
  <2>1. /\ pc[t] = "idle" /\ UNCHANGED <<pc, obj, po, efh, dead, torn>> /\ obj[t].po = 0
    BY <1>2 DEF start_enum, At, Unused
  <2>2. PICK e \in {[NoEnum EXCEPT !.fops = TRUE], [NoEnum EXCEPT !.fops = TRUE, !.dir = TRUE]} :
           en' = [en EXCEPT ![t] = e]
    BY <1>2, Zenon DEF start_enum
  <2>3. e \in Enum /\ (e.dir => e.fops)
    BY StartFields, <2>2
  <2> QED
    BY <2>1, <2>2, <2>3, EnumChange
<1>3. CASE next_enum(t) /\ en[t].dir /\ ~en[t].stale
  BY <1>3, NextEnumStep
<1> QED
  BY <1>1, <1>2, <1>3 DEF EnumSteps

LEMMA RestStep ==
    ASSUME RefInv, [Next]_vars
    PROVE  RestKept
<1>1. CASE UNCHANGED vars
  BY <1>1, Known DEF vars, RestKept, RestType, Frames, Frame
<1>2. CASE Restarts
  BY <1>2, BootedFields DEF Restarts
<1>3. CASE \E t \in TA : ListSteps(t) \/ DirSteps(t) \/ EnumSteps(t) \/ PlainSteps(t)
  BY <1>3, ListRest, DirRest, EnumRest, PlaceSteps DEF PlainSteps
<1> QED
  BY <1>1, <1>2, <1>3, StepKinds

\* The list after a restart.
LEMMA ListRestarts ==
    ASSUME Restarts
    PROVE  ListKept
<1>1. tee_pobjs' = <<>> /\ \A u \in TA : obj'[u].po = 0 /\ po'[u] = 0
  BY BootedFields DEF Restarts
<1>2. \A r \in Places : Handles(r)' = {} /\ Seconds(r)' = {}
  BY <1>1, Sizes DEF Handles, Seconds
<1>3. \A r \in Places : Uses(r)' = 0
  BY <1>2, FS_EmptySet DEF Uses
<1>4. tee_pobjs' \in Seq(Pobj) /\ Len(tee_pobjs') = 0
  BY <1>1
<1>5. \A r \in Places : Refs(r)' = 0
  BY <1>4, Sizes DEF Refs
<1> QED
  BY <1>3, <1>4, <1>5, UseTypesNext DEF ListKept, ListType

\* The steps that leave the list, and who uses it, alone.
LEMMA ListLeft ==
    ASSUME RefInv, NEW t \in TA, DirSteps(t) \/ EnumSteps(t) \/ PlainSteps(t)
    PROVE  SameUses /\ UNCHANGED tee_pobjs
<1>1. CASE ree_fs_open(t)
  BY <1>1, FsOpenFields DEF ree_fs_open, SameUses
<1>2. CASE \/ ree_fs_open_fails(t) \/ ree_fs_create_fails(t) \/ NotWritten(t)
           \/ ree_fs_rename_fails(t)
  BY <1>2 DEF ree_fs_open_fails, ree_fs_create_fails, NotWritten, ree_fs_rename_fails,
              SameUses
<1>3. CASE \E ok \in BOOLEAN : ree_fs_create(t, ok)
  <2>1. PICK ok \in BOOLEAN : ree_fs_create(t, ok)
    BY <1>3
  <2>2. UNCHANGED <<tee_pobjs, po>>
    BY <2>1 DEF ree_fs_create
  <2>3. CASE ok = TRUE
    BY <2>1, <2>2, <2>3, CreateFields DEF SameUses
  <2>4. CASE ok = FALSE
    BY <2>1, <2>2, <2>4 DEF SameUses, ree_fs_create
  <2> QED
    BY <2>3, <2>4
<1>4. CASE \E ok \in BOOLEAN : ree_fs_rename(t, ok)
  BY <1>4 DEF ree_fs_rename, SameUses
<1>5. CASE Wrote(t)
  BY <1>5, WriteFields DEF Wrote, SameUses
<1>6. CASE Removing(t)
  <2>1. obj[t].po # 0
    BY <1>6, RemovalFields
  <2>2. PICK next \in After : Removes(t, next) /\ (next = "release" => ~obj[t].fh)
    BY <1>6, RemovalFields
  <2>3. CASE \E ok \in BOOLEAN : ree_fs_remove(t, ok, next)
    BY <2>1, <2>3, RemoveFields DEF SameUses, ree_fs_remove
  <2>4. CASE ree_fs_remove_fails(t, next)
    BY <2>4 DEF ree_fs_remove_fails, SameUses
  <2> QED
    BY <2>2, <2>3, <2>4 DEF Removes
<1>7. CASE ree_fs_close(t)
  BY <1>7, CloseFields DEF ree_fs_close, SameUses
<1>8. CASE enum_open(t) \/ enum_close(t)
  BY <1>8 DEF enum_open, enum_close, SameUses
<1>9. CASE EnumSteps(t)
  BY <1>9 DEF EnumSteps, closedir, start_enum, next_enum, SameUses
<1>10. CASE PlainSteps(t)
  BY <1>10 DEF PlainSteps, give_up, tee_svc_storage_read_head, ReadCorrupt, obj_close, SameUses
<1> QED
  BY <1>1, <1>2, <1>3, <1>4, <1>5, <1>6, <1>7, <1>8, <1>9, <1>10, Zenon DEF DirSteps

\* The handle that obj_open() or obj_create() sets up.
LEMMA OpenFields ==
    ASSUME RefInv, NEW t \in TA, NEW id \in Id, NEW flags \in Flags,
           obj_open(t, id, flags) \/ obj_create(t, id, flags)
    PROVE  /\ flags \in SUBSET FlagNames /\ obj[t].po = 0 /\ pc[t] = "idle" /\ ~obj[t].fh
           /\ UNCHANGED <<dent, dirh, po, efh, en, torn>>
           /\ \E s \in Places :
                /\ \/ obj_open(t, id, flags) /\ tee_pobj_get(id, flags, "open", s)
                   \/ obj_create(t, id, flags) /\ tee_pobj_get(id, flags, "create", s)
                /\ obj' \in [TA -> Obj]
                /\ obj'[t].po = s /\ obj'[t].flags = flags /\ ~obj'[t].fh
                /\ \A u \in TA \ {t} : obj'[u] = obj[u]
<1>1. /\ obj[t].po = 0 /\ pc[t] = "idle" /\ UNCHANGED <<dent, dirh, po, efh, en, torn>>
  BY DEF obj_open, obj_create, At, Unused
<1>2. flags \in SUBSET FlagNames
  BY FlagsTyped
<1>3. PICK s \in Places :
         /\ \/ obj_open(t, id, flags) /\ tee_pobj_get(id, flags, "open", s)
            \/ obj_create(t, id, flags) /\ tee_pobj_get(id, flags, "create", s)
         /\ obj' = [obj EXCEPT ![t] = [NoObj EXCEPT !.po = s, !.flags = flags]]
  <2>1. CASE obj_open(t, id, flags)
    <3>1. PICK s \in Places :
             /\ tee_pobj_get(id, flags, "open", s)
             /\ obj' = [obj EXCEPT ![t] = [NoObj EXCEPT !.po = s, !.flags = flags]]
      BY <2>1, Zenon DEF obj_open
    <3> QED
      BY <2>1, <3>1, Zenon
  <2>2. CASE obj_create(t, id, flags)
    <3>1. PICK s \in Places :
             /\ tee_pobj_get(id, flags, "create", s)
             /\ obj' = [obj EXCEPT ![t] = [NoObj EXCEPT !.po = s, !.flags = flags]]
      BY <2>2, Zenon DEF obj_create
    <3> QED
      BY <2>2, <3>1, Zenon
  <2> QED
    BY <2>1, <2>2
<1>4. PICK k \in Obj : /\ k = [NoObj EXCEPT !.po = s, !.flags = flags]
                       /\ k.po = s /\ k.flags = flags /\ ~k.fh
  BY <1>2, OpenedFields
<1>5. obj' = [obj EXCEPT ![t] = k]
  BY <1>3, <1>4, Zenon
<1>6. obj \in [TA -> Obj]
  BY Known DEF RestType
<1>7. obj' \in [TA -> Obj] /\ obj'[t] = k /\ \A u \in TA \ {t} : obj'[u] = obj[u]
  BY <1>5, <1>6
<1>8. ~obj[t].fh
  BY <1>1, Known DEF Frame
<1> QED
  BY <1>1, <1>2, <1>3, <1>4, <1>7, <1>8

\* The second object of a rename, and of an enumeration.
LEMMA RenameFields ==
    ASSUME RefInv, NEW t \in TA, NEW id \in Id, obj_rename(t, id)
    PROVE  /\ pc[t] = "idle" /\ obj[t].fh /\ obj[t].po # 0 /\ "meta" \in obj[t].flags /\ po[t] = 0
           /\ UNCHANGED <<dent, dirh, obj, efh, en, torn>>
           /\ \E s \in Places :
                /\ tee_pobj_get(id, {"meta"}, "rename", s) /\ po'[t] = s
                /\ \A u \in TA \ {t} : po'[u] = po[u]
<1>1. /\ UNCHANGED <<dent, dirh, obj, efh, en, torn>> /\ pc[t] = "idle" /\ obj[t].fh
      /\ obj[t].po # 0 /\ "meta" \in obj[t].flags
  BY DEF obj_rename, Has, At
<1>2. po[t] = 0
  BY <1>1, Known DEF Frame, Second, Renaming
<1>3. po \in [TA -> Places \cup {0}]
  BY Known DEF RestType
<1> QED
  BY <1>1, <1>2, <1>3 DEF obj_rename

LEMMA EnumGetMoves ==
    ASSUME RefInv, NEW t \in TA, enum_get(t)
    PROVE  /\ UNCHANGED <<dent, dirh, obj, efh, torn>> /\ po[t] = 0
           /\ \/ UNCHANGED <<tee_pobjs, po>>
              \/ \E s \in Places :
                   /\ tee_pobj_get(en[t].oid, {}, "enum", s) /\ po'[t] = s
                   /\ \A u \in TA \ {t} : po'[u] = po[u]
<1>1. UNCHANGED <<dent, dirh, obj, efh, torn>>
  BY DEF enum_get
<1>2. po[t] = 0
  BY EnumGetFields
<1>3. po \in [TA -> Places \cup {0}]
  BY Known DEF RestType
<1> QED
  BY <1>1, <1>2, <1>3 DEF enum_get

\* The object that tee_pobj_create_final() and tee_pobj_rename() change.
LEMMA FinalFields ==
    ASSUME RefInv, NEW t \in TA, obj_create_final(t)
    PROVE  /\ pc[t] = "final" /\ UNCHANGED <<dent, dirh, obj, po, efh, en, torn>> /\ SameCounts
           /\ \A r \in DOMAIN tee_pobjs :
                /\ tee_pobjs'[r].id = tee_pobjs[r].id /\ tee_pobjs'[r].flags = tee_pobjs[r].flags
                /\ tee_pobjs'[r].creating => tee_pobjs[r].creating
<1>1. pc[t] = "final" /\ UNCHANGED <<dent, dirh, obj, po, efh, en, torn>>
  BY DEF obj_create_final, At
<1>2. obj[t].po \in DOMAIN tee_pobjs
  BY <1>1, Known, InList DEF Frame, Working
<1>3. /\ tee_pobjs \in Seq(Pobj) /\ DOMAIN tee_pobjs = 1 .. Len(tee_pobjs)
      /\ \A s \in DOMAIN tee_pobjs : tee_pobjs[s] \in Pobj
  BY Types, Known
<1>4. CASE UNCHANGED tee_pobjs
  BY <1>1, <1>3, <1>4 DEF SameCounts
<1>5. CASE tee_pobjs' = [tee_pobjs EXCEPT ![obj[t].po].creating = FALSE]
  <2>1. PICK k \in Pobj : k = tee_pobjs[obj[t].po]
    BY <1>2, <1>3
  <2>2. PICK l \in Pobj : /\ l = [k EXCEPT !.creating = FALSE] /\ l.id = k.id
                          /\ l.flags = k.flags /\ l.creating = FALSE /\ l.refcnt = k.refcnt
    BY CreatingFields
  <2>3. tee_pobjs' = [tee_pobjs EXCEPT ![obj[t].po] = l]
    BY <1>5, <2>1, <2>2, Zenon
  <2>4. /\ tee_pobjs' \in Seq(Pobj) /\ Len(tee_pobjs') = Len(tee_pobjs)
        /\ \A r \in DOMAIN tee_pobjs : tee_pobjs'[r] = IF r = obj[t].po THEN l ELSE tee_pobjs[r]
    BY <1>2, <1>3, <2>3
  <2> QED
    BY <1>1, <2>1, <2>2, <2>4 DEF SameCounts
<1> QED
  BY <1>4, <1>5 DEF obj_create_final

LEMMA PobjRenameFields ==
    ASSUME RefInv, NEW t \in TA, tee_pobj_rename(t)
    PROVE  /\ pc[t] = "pobj_rename" /\ UNCHANGED <<dent, dirh, obj, po, efh, en>> /\ SameCounts
           /\ obj[t].po \in DOMAIN tee_pobjs /\ po[t] \in DOMAIN tee_pobjs
           /\ \/ /\ tee_pobjs[obj[t].po].refcnt = 1 /\ torn' = torn
                 /\ \A r \in DOMAIN tee_pobjs :
                      /\ tee_pobjs'[r].id = tee_pobjs[IF r = obj[t].po THEN po[t] ELSE r].id
                      /\ tee_pobjs'[r].flags = tee_pobjs[r].flags
                      /\ tee_pobjs'[r].creating = tee_pobjs[r].creating
              \/ UNCHANGED tee_pobjs /\ torn' = torn \cup {t}
<1>1. pc[t] = "pobj_rename" /\ UNCHANGED <<dent, dirh, obj, po, efh, en>>
  BY DEF tee_pobj_rename, At
<1>2. /\ obj[t].po \in DOMAIN tee_pobjs /\ po[t] \in DOMAIN tee_pobjs
      /\ tee_pobjs[po[t]].id \in Id
  BY <1>1, Known, InList DEF Frame, Working, Second, Renaming
<1>3. /\ tee_pobjs \in Seq(Pobj) /\ DOMAIN tee_pobjs = 1 .. Len(tee_pobjs)
      /\ \A s \in DOMAIN tee_pobjs : tee_pobjs[s] \in Pobj
  BY Types, Known
<1>4. CASE UNCHANGED tee_pobjs /\ torn' = torn \cup {t}
  BY <1>1, <1>2, <1>3, <1>4 DEF SameCounts
<1>5. CASE /\ tee_pobjs[obj[t].po].refcnt = 1 /\ torn' = torn
           /\ tee_pobjs' = [tee_pobjs EXCEPT ![obj[t].po].id = tee_pobjs[po[t]].id]
  <2>1. PICK k \in Pobj : k = tee_pobjs[obj[t].po]
    BY <1>2, <1>3
  <2>0. PICK n \in Id : n = tee_pobjs[po[t]].id
    BY <1>2
  <2>2. PICK l \in Pobj : /\ l = [k EXCEPT !.id = n] /\ l.id = n
                          /\ l.flags = k.flags /\ l.creating = k.creating /\ l.refcnt = k.refcnt
    BY NameFields
  <2>3. tee_pobjs' = [tee_pobjs EXCEPT ![obj[t].po] = l]
    BY <1>5, <2>0, <2>1, <2>2, Zenon
  <2>4. /\ tee_pobjs' \in Seq(Pobj) /\ Len(tee_pobjs') = Len(tee_pobjs)
        /\ \A r \in DOMAIN tee_pobjs : tee_pobjs'[r] = IF r = obj[t].po THEN l ELSE tee_pobjs[r]
    BY <1>2, <1>3, <2>3
  <2> QED
    BY <1>1, <1>2, <1>5, <2>0, <2>1, <2>2, <2>4 DEF SameCounts
<1> QED
  BY <1>4, <1>5 DEF tee_pobj_rename

LEMMA ListListed ==
    ASSUME RefInv, NEW t \in TA, ListSteps(t)
    PROVE  ListKept
<1>1. CASE \E id \in Id, flags \in Flags : obj_open(t, id, flags) \/ obj_create(t, id, flags)
  <2>1. PICK id \in Id, flags \in Flags : obj_open(t, id, flags) \/ obj_create(t, id, flags)
    BY <1>1
  <2>2. flags \in SUBSET FlagNames /\ obj[t].po = 0 /\ po' = po
    BY <2>1, OpenFields
  <2>3. PICK s \in Places :
           /\ tee_pobj_get(id, flags, "open", s) \/ tee_pobj_get(id, flags, "create", s)
           /\ obj'[t].po = s /\ \A u \in TA \ {t} : obj'[u] = obj[u]
    BY <2>1, OpenFields
  <2>4. CASE tee_pobj_get(id, flags, "open", s)
    BY <2>2, <2>3, <2>4, GetRefs
  <2>5. CASE tee_pobj_get(id, flags, "create", s)
    BY <2>2, <2>3, <2>5, GetRefs
  <2> QED
    BY <2>3, <2>4, <2>5
<1>2. CASE \E id \in Id : obj_rename(t, id)
  <2>1. PICK id \in Id : obj_rename(t, id)
    BY <1>2
  <2>2. PICK s \in Places : /\ tee_pobj_get(id, {"meta"}, "rename", s) /\ po'[t] = s
                            /\ \A u \in TA \ {t} : po'[u] = po[u]
    BY <2>1, RenameFields
  <2>3. obj' = obj /\ po[t] = 0 /\ {"meta"} \in SUBSET FlagNames
    BY <2>1, RenameFields DEF FlagNames
  <2> QED
    BY <2>2, <2>3, GetRefs
<1>3. CASE obj_release(t)
  <2>1. /\ obj[t].po \in DOMAIN tee_pobjs /\ obj'[t].po = 0
        /\ \A u \in TA : po'[u] = Moved(obj[t].po, po[u])
        /\ \A u \in TA \ {t} : obj'[u].po = Moved(obj[t].po, obj[u].po)
    BY <1>3, ReleaseMoves, NothingTypes
  <2>2. tee_pobj_release(obj[t].po)
    BY <1>3 DEF obj_release
  <2> QED
    BY <2>1, <2>2, ReleaseRefs
<1>4. CASE put_second(t)
  <2>1. /\ po[t] \in DOMAIN tee_pobjs /\ po'[t] = 0
        /\ \A u \in TA \ {t} : po'[u] = Moved(po[t], po[u])
        /\ \A u \in TA : obj'[u].po = Moved(po[t], obj[u].po)
    BY <1>4, PutMoves
  <2>2. tee_pobj_release(po[t])
    BY <1>4 DEF put_second
  <2> QED
    BY <2>1, <2>2, ReleaseRefs
<1>5. CASE enum_get(t)
  <2>1. obj' = obj /\ po[t] = 0 /\ en[t].oid \in Id /\ {} \in SUBSET FlagNames
    BY <1>5, EnumGetMoves, EnumGetFields
  <2>2. CASE UNCHANGED <<tee_pobjs, po>>
    BY <2>1, <2>2, ListUnchanged DEF SameUses
  <2>3. CASE \E s \in Places : /\ tee_pobj_get(en[t].oid, {}, "enum", s) /\ po'[t] = s
                               /\ \A u \in TA \ {t} : po'[u] = po[u]
    BY <2>1, <2>3, GetRefs
  <2> QED
    BY <1>5, <2>2, <2>3, EnumGetMoves
<1>6. CASE obj_create_final(t)
  BY <1>6, FinalFields, ListStill DEF SameUses
<1>7. CASE tee_pobj_rename(t)
  BY <1>7, PobjRenameFields, ListStill DEF SameUses
<1> QED
  BY <1>1, <1>2, <1>3, <1>4, <1>5, <1>6, <1>7, Zenon DEF ListSteps

LEMMA ListStep ==
    ASSUME RefInv, [Next]_vars
    PROVE  ListKept
<1>1. CASE UNCHANGED vars
  BY <1>1, ListUnchanged DEF vars, SameUses
<1>2. CASE Restarts
  BY <1>2, ListRestarts
<1>3. CASE \E t \in TA : ListSteps(t) \/ DirSteps(t) \/ EnumSteps(t) \/ PlainSteps(t)
  BY <1>3, ListListed, ListLeft, ListUnchanged
<1> QED
  BY <1>1, <1>2, <1>3, StepKinds

-----------------------------------------------------------------------------
(* The directory and the references to it.                                 *)

Opens == {t \in TA : obj[t].fh}
Looks == {t \in TA : efh[t]}
Enums == {t \in TA : en[t].dir}
Holds == Cardinality(Opens) + Cardinality(Looks) + Cardinality(Enums)

DirhType ==
    dirh \in [open : BOOLEAN, files : SUBSET Files, refcount : 0 .. 3 * Cardinality(TA)]

\* The handle of the directory is right after a step.
DirhKept == DirhType' /\ DirhRefsExact' /\ DirsOpen'

LEMMA HoldTypes ==
    /\ Opens \in SUBSET TA /\ Looks \in SUBSET TA /\ Enums \in SUBSET TA
    /\ Opens' \in SUBSET TA /\ Looks' \in SUBSET TA /\ Enums' \in SUBSET TA
    /\ Cardinality(Opens) \in Nat /\ Cardinality(Looks) \in Nat /\ Cardinality(Enums) \in Nat
    /\ Holds' \in Nat /\ Holds' <= 3 * Cardinality(TA)
<1>1. /\ Opens \in SUBSET TA /\ Looks \in SUBSET TA /\ Enums \in SUBSET TA
      /\ Opens' \in SUBSET TA /\ Looks' \in SUBSET TA /\ Enums' \in SUBSET TA
  BY DEF Opens, Looks, Enums
<1>2. Cardinality(Opens) \in Nat /\ Cardinality(Looks) \in Nat /\ Cardinality(Enums) \in Nat
  BY <1>1, Counts
<1>3. /\ Cardinality(Opens') \in Nat /\ Cardinality(Opens') <= Cardinality(TA)
      /\ Cardinality(Looks') \in Nat /\ Cardinality(Looks') <= Cardinality(TA)
      /\ Cardinality(Enums') \in Nat /\ Cardinality(Enums') <= Cardinality(TA)
      /\ Cardinality(TA) \in Nat
  BY <1>1, Counts
<1>4. \A a, b, c, d \in Nat : a <= d /\ b <= d /\ c <= d => a + b + c \in Nat /\ a + b + c <= 3 * d
  OBVIOUS
<1>5. Holds' = Cardinality(Opens') + Cardinality(Looks') + Cardinality(Enums')
  BY DEF Holds
<1> QED
  BY <1>1, <1>2, <1>3, <1>4, <1>5

LEMMA HoldsExact ==
    ASSUME RefInv
    PROVE  dirh.refcount = Holds /\ (dirh.open => Named \subseteq dirh.files)
BY Known DEF DirhRefsExact, Holds, Opens, Looks, Enums

\* A handle with the count of those who hold it, and the numbers of the entries.
LEMMA DirhAfter ==
    ASSUME NEW b \in BOOLEAN, NEW fs \in SUBSET Files, NEW n \in Nat,
           dirh' = [open |-> b, files |-> fs, refcount |-> n],
           n = Holds', b => n > 0 /\ Named' \subseteq fs
    PROVE  DirhType' /\ DirhRefsExact'
<1>1. dirh'.open = b /\ dirh'.files = fs /\ dirh'.refcount = n
  OBVIOUS
<1>2. n \in 0 .. 3 * Cardinality(TA)
  BY HoldTypes, Sizes
<1>3. DirhType'
  BY <1>2 DEF DirhType
<1>4. DirhRefsExact'
  BY <1>1 DEF DirhRefsExact, Holds, Opens, Looks, Enums
<1> QED
  BY <1>3, <1>4

\* put_dirh() at the end of an operation.
LEMMA PutAfter ==
    ASSUME RefInv, NEW fail \in BOOLEAN, NEW bits \in SUBSET Files, NEW n \in Nat,
           put_dirh(fail, n, bits), fail \/ Named' \subseteq bits,
           Cardinality(Opens') + Cardinality(Looks') + Cardinality(Enums) = n
    PROVE  DirhKept
<1>1. /\ dirh' = [open |-> n > 0 /\ ~fail, refcount |-> n,
                  files |-> IF n > 0 /\ ~fail THEN bits ELSE {}]
      /\ \A u \in TA : en'[u].dir = en[u].dir
      /\ DirsOpen'
  BY PutFields, Known
<1>2. Enums' = Enums
  BY <1>1 DEF Enums
<1>3. n = Holds'
  BY <1>2 DEF Holds
<1>4. PICK b \in BOOLEAN : b = (n > 0 /\ ~fail)
  OBVIOUS
<1>5. PICK fs \in SUBSET Files : fs = IF b THEN bits ELSE {}
  OBVIOUS
<1>6. dirh' = [open |-> b, files |-> fs, refcount |-> n]
  BY <1>1, <1>4, <1>5
<1>7. b => n > 0 /\ Named' \subseteq fs
  BY <1>4, <1>5
<1>8. DirhType' /\ DirhRefsExact'
  BY <1>3, <1>6, <1>7, DirhAfter
<1> QED
  BY <1>1, <1>8 DEF DirhKept

\* No reference is kept; or one is, for a handle or for a look at a file.
LEMMA PutKeeps ==
    ASSUME RefInv, NEW fail \in BOOLEAN, NEW bits \in SUBSET Files,
           put_dirh(fail, dirh.refcount, bits), fail \/ Named' \subseteq bits,
           \A u \in TA : obj'[u].fh = obj[u].fh, efh' = efh
    PROVE  DirhKept
<1>1. Opens' = Opens /\ Looks' = Looks
  BY DEF Opens, Looks
<1>2. Cardinality(Opens') + Cardinality(Looks') + Cardinality(Enums) = dirh.refcount
  BY <1>1, HoldsExact DEF Holds
<1>3. dirh.refcount \in Nat
  BY Known
<1> QED
  BY <1>2, <1>3, PutAfter

LEMMA PutMore ==
    ASSUME RefInv, NEW t \in TA, NEW bits \in SUBSET Files, Kept(bits), Named' \subseteq bits,
           \/ /\ ~obj[t].fh /\ obj'[t].fh /\ efh' = efh
              /\ \A u \in TA \ {t} : obj'[u].fh = obj[u].fh
           \/ /\ ~efh[t] /\ efh'[t] /\ obj' = obj
              /\ \A u \in TA \ {t} : efh'[u] = efh[u]
    PROVE  DirhKept
<1>1. /\ Cardinality(Opens) \in Nat /\ Cardinality(Looks) \in Nat /\ Cardinality(Enums) \in Nat
      /\ Opens \in SUBSET TA /\ Looks \in SUBSET TA
  BY HoldTypes
<1>2. \/ Opens' = Opens \cup {t} /\ t \notin Opens /\ Looks' = Looks
      \/ Looks' = Looks \cup {t} /\ t \notin Looks /\ Opens' = Opens
  BY DEF Opens, Looks
<1>3. Cardinality(Opens') + Cardinality(Looks') + Cardinality(Enums) = dirh.refcount + 1
  <2>1. \A a, b, c, d \in Nat : d = a + b + c => (a + 1) + b + c = d + 1 /\ a + (b + 1) + c = d + 1
    OBVIOUS
  <2>2. \/ Cardinality(Opens') = Cardinality(Opens) + 1 /\ Looks' = Looks
        \/ Cardinality(Looks') = Cardinality(Looks) + 1 /\ Opens' = Opens
    BY <1>1, <1>2, CountMore
  <2>3. dirh.refcount = Cardinality(Opens) + Cardinality(Looks) + Cardinality(Enums)
    BY HoldsExact DEF Holds
  <2> QED
    BY <1>1, <2>1, <2>2, <2>3, Known
<1>4. dirh.refcount + 1 \in Nat
  BY Known
<1>5. put_dirh(FALSE, dirh.refcount + 1, bits)
  BY DEF Kept
<1> QED
  BY <1>3, <1>4, <1>5, PutAfter

\* put_dirh_primitive(), of a handle or a look.
LEMMA PutFewer ==
    ASSUME RefInv, NEW t \in TA, put_dirh_primitive, dent' = dent,
           \/ /\ obj[t].fh /\ ~obj'[t].fh /\ efh' = efh
              /\ \A u \in TA \ {t} : obj'[u].fh = obj[u].fh
           \/ /\ efh[t] /\ ~efh'[t] /\ obj' = obj
              /\ \A u \in TA \ {t} : efh'[u] = efh[u]
    PROVE  DirhKept
<1>1. /\ Cardinality(Opens) \in Nat /\ Cardinality(Looks) \in Nat /\ Cardinality(Enums) \in Nat
      /\ Opens \in SUBSET TA /\ Looks \in SUBSET TA /\ Enums \in SUBSET TA
  BY HoldTypes
<1>2. \/ Opens' = Opens \ {t} /\ t \in Opens /\ Looks' = Looks
      \/ Looks' = Looks \ {t} /\ t \in Looks /\ Opens' = Opens
  BY DEF Opens, Looks
<1>3. en' = en /\ Enums' = Enums
  BY DEF put_dirh_primitive, Enums
<1>4. \/ Cardinality(Opens') = Cardinality(Opens) - 1 /\ Cardinality(Opens) # 0 /\ Looks' = Looks
      \/ Cardinality(Looks') = Cardinality(Looks) - 1 /\ Cardinality(Looks) # 0 /\ Opens' = Opens
  BY <1>1, <1>2, CountLess, Counts
<1>5. dirh.refcount = Cardinality(Opens) + Cardinality(Looks) + Cardinality(Enums)
  BY HoldsExact DEF Holds
<1>6. /\ dirh.refcount \in Nat /\ dirh.refcount >= 1 /\ dirh.refcount - 1 \in Nat
      /\ Cardinality(Enums) # 0 => dirh.refcount > 1
      /\ Cardinality(Opens') + Cardinality(Looks') + Cardinality(Enums) = dirh.refcount - 1
  <2>1. \A a, b, c, d \in Nat : d = a + b + c /\ (a # 0 \/ b # 0) =>
           /\ d >= 1 /\ (c # 0 => d > 1) /\ d - 1 \in Nat
           /\ (a - 1) + b + c = d - 1 /\ a + (b - 1) + c = d - 1
    OBVIOUS
  <2> QED
    BY <1>1, <1>4, <1>5, <2>1, Known
<1>7. dirh.refcount - 1 = Holds'
  BY <1>3, <1>6 DEF Holds
<1>8. PICK b \in BOOLEAN : b = (dirh.open /\ dirh.refcount > 1)
  OBVIOUS
<1>9. dirh.files \in SUBSET Files
  BY Known DEF TypeOK
<1>10. PICK fs \in SUBSET Files : fs = IF dirh.refcount > 1 THEN dirh.files ELSE {}
  BY <1>9
<1>11. dirh' = [open |-> b, files |-> fs, refcount |-> dirh.refcount - 1]
  BY <1>8, <1>10 DEF put_dirh_primitive
<1>12. Named' = Named
  BY DEF Named, is_free
<1>13. b => dirh.refcount - 1 > 0 /\ Named' \subseteq fs
  <2> SUFFICES ASSUME b PROVE dirh.refcount - 1 > 0 /\ Named' \subseteq fs
    OBVIOUS
  <2>1. dirh.open /\ dirh.refcount > 1
    BY <1>8
  <2>2. fs = dirh.files
    BY <1>10, <2>1
  <2>3. Named \subseteq dirh.files
    BY <2>1, HoldsExact
  <2>4. dirh.refcount - 1 > 0
    BY <1>6, <2>1
  <2> QED
    BY <1>12, <2>2, <2>3, <2>4
<1>14. DirhType' /\ DirhRefsExact'
  BY <1>6, <1>7, <1>11, <1>13, DirhAfter
<1>15. DirsOpen'
  <2> SUFFICES ASSUME NEW u \in TA, en[u].dir, ~en[u].stale PROVE dirh'.open
    BY <1>3 DEF DirsOpen
  <2>1. dirh.open
    BY Known DEF DirsOpen
  <2>2. Cardinality(Enums) # 0
    BY <1>1, Counts DEF Enums
  <2> QED
    BY <1>6, <1>8, <1>11, <2>1, <2>2
<1> QED
  BY <1>14, <1>15 DEF DirhKept

\* Opening and closing an enumerator.
LEMMA EnumDirh ==
    ASSUME RefInv, NEW t \in TA, EnumSteps(t)
    PROVE  DirhKept /\ dent' = dent
<1>0. dent' = dent /\ obj' = obj /\ efh' = efh
  BY DEF EnumSteps, closedir, start_enum, next_enum
<1>1. Opens' = Opens /\ Looks' = Looks /\ Named' = Named
  BY <1>0 DEF Opens, Looks, Named, is_free
<1>2. /\ Cardinality(Opens) \in Nat /\ Cardinality(Looks) \in Nat /\ Cardinality(Enums) \in Nat
      /\ Enums \in SUBSET TA /\ dirh.refcount \in Nat
      /\ dirh.refcount = Cardinality(Opens) + Cardinality(Looks) + Cardinality(Enums)
      /\ Holds' = Cardinality(Opens) + Cardinality(Looks) + Cardinality(Enums')
  BY <1>1, HoldTypes, Known, HoldsExact DEF Holds
<1>3. dirh.files \in SUBSET Files /\ files \in SUBSET Files /\ Named \subseteq files
  BY Known, FilesFields DEF TypeOK
<1>4. dirh \in [open : BOOLEAN, files : SUBSET Files, refcount : Nat] /\ en \in [TA -> Enum]
  BY <1>2, Known DEF TypeOK, RestType
<1>5. CASE closedir(t) /\ ~en[t].stale /\ ~en[t].dir
  <2>1. dirh' = dirh /\ en' = [en EXCEPT ![t] = NoEnum]
    BY <1>5 DEF closedir
  <2>2. ~en'[t].dir /\ \A u \in TA \ {t} : en'[u] = en[u]
    BY <1>4, <2>1, NothingTypes
  <2>3. DirsOpen'
    BY <1>5, <2>1, <2>2, Known DEF DirsOpen
  <2>4. Enums' = Enums
    BY <1>5, <2>2 DEF Enums
  <2>5. DirhRefsExact'
    BY <1>1, <2>1, <2>4, Known DEF DirhRefsExact, Opens, Looks, Enums
  <2>6. DirhType'
    BY <2>1, Known DEF DirhType, TypeOK
  <2> QED
    BY <1>0, <2>3, <2>5, <2>6 DEF DirhKept
<1>6. CASE closedir(t) /\ ~en[t].stale /\ en[t].dir
  <2>1. /\ dirh' = [open |-> dirh.refcount > 1,
                    files |-> IF dirh.refcount > 1 THEN dirh.files ELSE {},
                    refcount |-> dirh.refcount - 1]
        /\ en' = [en EXCEPT ![t] = NoEnum]
    BY <1>6 DEF closedir
  <2>2. ~en'[t].dir /\ \A u \in TA \ {t} : en'[u] = en[u]
    BY <1>4, <2>1, NothingTypes
  <2>3. Enums' = Enums \ {t} /\ t \in Enums
    BY <1>6, <2>2 DEF Enums
  <2>4. Cardinality(Enums') = Cardinality(Enums) - 1 /\ Cardinality(Enums) # 0
    BY <1>2, <2>3, CountLess, Counts
  <2>5. dirh.refcount - 1 \in Nat /\ dirh.refcount - 1 = Holds'
    <3>1. \A a, b, c, d \in Nat : d = a + b + c /\ c # 0 => d - 1 \in Nat /\ a + b + (c - 1) = d - 1
      OBVIOUS
    <3> QED
      BY <1>2, <2>4, <3>1
  <2>6. dirh.open
    BY <1>6, Known DEF DirsOpen
  <2>7. PICK b \in BOOLEAN : b = (dirh.open /\ dirh.refcount > 1)
    OBVIOUS
  <2>8. PICK fs \in SUBSET Files : fs = IF b THEN dirh.files ELSE {}
    BY <1>3
  <2>9. dirh' = [open |-> b, files |-> fs, refcount |-> dirh.refcount - 1]
    <3>1. CASE dirh.refcount > 1
      <4>1. b = TRUE /\ fs = dirh.files
        BY <2>6, <2>7, <2>8, <3>1
      <4>2. dirh' = [open |-> TRUE, files |-> dirh.files, refcount |-> dirh.refcount - 1]
        BY <2>1, <3>1
      <4> QED
        BY <4>1, <4>2
    <3>2. CASE ~(dirh.refcount > 1)
      <4>1. b = FALSE /\ fs = {}
        BY <2>7, <2>8, <3>2
      <4>2. dirh' = [open |-> FALSE, files |-> {}, refcount |-> dirh.refcount - 1]
        <5>1. (dirh.refcount > 1) = FALSE
          BY <3>2
        <5>2. dirh' = [open |-> FALSE, files |-> IF FALSE THEN dirh.files ELSE {},
                       refcount |-> dirh.refcount - 1]
          BY <2>1, <5>1, Zenon
        <5> QED
          BY <5>2
      <4> QED
        BY <4>1, <4>2
    <3> QED
      BY <3>1, <3>2
  <2>10. Named \subseteq dirh.files
    BY <2>6, HoldsExact
  <2>11. b => dirh.refcount - 1 > 0 /\ Named' \subseteq fs
    <3> SUFFICES ASSUME b PROVE dirh.refcount - 1 > 0 /\ Named' \subseteq fs
      OBVIOUS
    <3>1. dirh.refcount > 1
      BY <2>7
    <3>2. dirh.refcount - 1 > 0
      BY <1>2, <3>1
    <3>3. fs = dirh.files
      BY <2>8
    <3> QED
      BY <1>1, <2>10, <3>2, <3>3
  <2>12. DirhType' /\ DirhRefsExact'
    BY <2>5, <2>9, <2>11, DirhAfter
  <2>13. DirsOpen'
    <3> SUFFICES ASSUME NEW u \in TA \ {t}, en[u].dir PROVE dirh'.open
      BY <2>2 DEF DirsOpen
    <3>1. u \in Enums'
      BY <2>2 DEF Enums
    <3>2. Cardinality(Enums') # 0
      BY <3>1, HoldTypes, Counts
    <3>3. dirh.refcount > 1
      <4>1. \A a, b1, c, d, e \in Nat : d = a + b1 + c /\ e = c - 1 /\ e # 0 => d > 1
        OBVIOUS
      <4>2. Cardinality(Enums') \in Nat
        BY HoldTypes, Counts
      <4> QED
        BY <1>2, <2>4, <3>2, <4>1, <4>2
    <3> QED
      BY <2>6, <2>7, <2>9, <3>3
  <2> QED
    BY <1>0, <2>12, <2>13 DEF DirhKept
<1>7. CASE /\ start_enum(t) /\ tee_fs_dirfile_get_next(0) # 0
           /\ dirh' = [open |-> TRUE, files |-> files, refcount |-> dirh.refcount + 1]
           /\ en' = [en EXCEPT ![t] = [NoEnum EXCEPT !.fops = TRUE, !.dir = TRUE]]
  <2>1. ~en[t].dir
    BY <1>7, Known DEF start_enum, Unused, Frame
  <2>2. PICK e \in Enum : e = [NoEnum EXCEPT !.fops = TRUE, !.dir = TRUE] /\ e.dir
    BY StartFields
  <2>3. en' = [en EXCEPT ![t] = e]
    BY <1>7, <2>2, Zenon
  <2>4. en'[t].dir /\ \A u \in TA \ {t} : en'[u] = en[u]
    BY <1>4, <2>2, <2>3
  <2>5. Enums' = Enums \cup {t} /\ t \notin Enums
    BY <2>1, <2>4 DEF Enums
  <2>6. Cardinality(Enums') = Cardinality(Enums) + 1
    BY <1>2, <2>5, CountMore
  <2>7. dirh.refcount + 1 \in Nat /\ dirh.refcount + 1 = Holds' /\ dirh.refcount + 1 > 0
    <3>1. \A a, b, c, d \in Nat : d = a + b + c => d + 1 \in Nat /\ a + b + (c + 1) = d + 1 /\ d + 1 > 0
      OBVIOUS
    <3> QED
      BY <1>2, <2>6, <3>1
  <2>8. DirhType' /\ DirhRefsExact'
    BY <1>1, <1>3, <1>7, <2>7, DirhAfter
  <2>9. DirsOpen'
    BY <1>7 DEF DirsOpen
  <2> QED
    BY <1>0, <2>8, <2>9 DEF DirhKept
<1>8. CASE /\ start_enum(t) /\ en' = [en EXCEPT ![t] = [NoEnum EXCEPT !.fops = TRUE]]
           /\ \/ UNCHANGED dirh
              \/ dirh.refcount > 0 /\ dirh' = [dirh EXCEPT !.open = TRUE, !.files = files]
  <2>1. ~en[t].dir
    BY <1>8, Known DEF start_enum, Unused, Frame
  <2>2. PICK e \in Enum : e = [NoEnum EXCEPT !.fops = TRUE] /\ ~e.dir
    BY StartFields
  <2>3. en' = [en EXCEPT ![t] = e]
    BY <1>8, <2>2, Zenon
  <2>4. ~en'[t].dir /\ \A u \in TA \ {t} : en'[u] = en[u]
    BY <1>4, <2>2, <2>3
  <2>5. Enums' = Enums
    BY <2>1, <2>4 DEF Enums
  <2>6. dirh.refcount = Holds'
    BY <1>2, <2>5
  <2>7. CASE UNCHANGED dirh
    <3>1. DirhRefsExact'
      BY <1>1, <2>5, <2>7, Known DEF DirhRefsExact, Opens, Looks, Enums
    <3>2. DirhType'
      BY <2>7, Known DEF DirhType, TypeOK
    <3>3. DirsOpen'
      BY <2>4, <2>7, Known DEF DirsOpen
    <3> QED
      BY <1>0, <3>1, <3>2, <3>3 DEF DirhKept
  <2>8. CASE dirh.refcount > 0 /\ dirh' = [dirh EXCEPT !.open = TRUE, !.files = files]
    <3>1. dirh' = [open |-> TRUE, files |-> files, refcount |-> dirh.refcount]
      BY <1>4, <2>8
    <3>2. DirhType' /\ DirhRefsExact'
      BY <1>1, <1>2, <1>3, <2>6, <2>8, <3>1, DirhAfter
    <3>3. DirsOpen'
      BY <3>1 DEF DirsOpen
    <3> QED
      BY <1>0, <3>2, <3>3 DEF DirhKept
  <2> QED
    BY <1>8, <2>7, <2>8
<1>9. CASE next_enum(t) /\ en[t].dir /\ ~en[t].stale
  <2>1. dirh' = dirh /\ \A u \in TA : en'[u].dir = en[u].dir /\ en'[u].stale = en[u].stale
    BY <1>9, NextEnumFields
  <2>2. Enums' = Enums
    BY <2>1 DEF Enums
  <2>3. DirhRefsExact'
    BY <1>1, <2>1, <2>2, Known DEF DirhRefsExact, Opens, Looks, Enums
  <2>4. DirhType'
    BY <2>1, Known DEF DirhType, TypeOK
  <2>5. DirsOpen'
    BY <2>1, Known DEF DirsOpen
  <2> QED
    BY <1>0, <2>3, <2>4, <2>5 DEF DirhKept
<1> QED
  BY <1>5, <1>6, <1>7, <1>8, <1>9 DEF EnumSteps, start_enum

LEMMA EntryFields ==
    ASSUME NEW a \in Id, NEW n \in Files, NEW b \in BOOLEAN
    PROVE  LET r == [id |-> a, file |-> n, there |-> b] IN
           r \in Dent /\ r.id = a /\ r.file = n
BY DEF Dent

LEMMA EntryNameFields ==
    ASSUME NEW k \in Dent, NEW a \in Id
    PROVE  LET r == [k EXCEPT !.id = a] IN
           r \in Dent /\ r.id = a /\ r.file = k.file /\ r.there = k.there
BY DEF Dent

\* What a step does to the entries.
DentKept == dent' \in [Idx -> Dent] /\ DirectoryUnique'

\* An entry is given another name, or another file, or is cleared; the rest stays.
LEMMA EntryAfter ==
    ASSUME RefInv, NEW i \in Idx, NEW e \in Dent, dent' = [dent EXCEPT ![i] = e],
           e.id # None => \A j \in Idx \ {i} :
               ~is_free(j) => e.id # dent[j].id /\ e.file # dent[j].file
    PROVE  /\ DentKept
           /\ \A n \in Named' : n = e.file \/ \E j \in Idx \ {i} : ~is_free(j) /\ n = dent[j].file
           /\ e.id = None => \A n \in Named' : \E j \in Idx \ {i} : ~is_free(j) /\ n = dent[j].file
<1>1. dent \in [Idx -> Dent] /\ DirectoryUnique
  BY Types, Known
<1>2. dent' \in [Idx -> Dent] /\ dent'[i] = e /\ \A j \in Idx \ {i} : dent'[j] = dent[j]
  BY <1>1
<1>3. DirectoryUnique'
  <2> SUFFICES ASSUME NEW j \in Idx, NEW k \in Idx, j # k, dent'[j].id # None, dent'[k].id # None
               PROVE  dent'[j].id # dent'[k].id /\ dent'[j].file # dent'[k].file
    BY DEF DirectoryUnique, is_free
  <2>1. CASE j # i /\ k # i
    BY <1>1, <1>2, <2>1 DEF DirectoryUnique, is_free
  <2>2. CASE j = i \/ k = i
    BY <1>2, <2>2 DEF is_free
  <2> QED
    BY <2>1, <2>2
<1>4. \A n \in Named' : \E j \in Idx : dent'[j].id # None /\ n = dent'[j].file
  BY DEF Named, is_free
<1>5. \A n \in Named' : n = e.file \/ \E j \in Idx \ {i} : ~is_free(j) /\ n = dent[j].file
  BY <1>2, <1>4 DEF is_free
<1>6. e.id = None => \A n \in Named' : \E j \in Idx \ {i} : ~is_free(j) /\ n = dent[j].file
  BY <1>2, <1>4 DEF is_free
<1> QED
  BY <1>2, <1>3, <1>5, <1>6 DEF DentKept

LEMMA NamedFile == \A j \in Idx : ~is_free(j) => dent[j].file \in Named
BY DEF Named

LEMMA DentSame ==
    ASSUME RefInv, dent' = dent
    PROVE  DentKept /\ Named' = Named
<1>1. dent \in [Idx -> Dent] /\ DirectoryUnique
  BY Types, Known
<1> QED
  BY <1>1 DEF DentKept, Named, is_free, DirectoryUnique

\* A creation.
LEMMA CreateDent ==
    ASSUME RefInv, NEW t \in TA, NEW ok \in BOOLEAN, ree_fs_create(t, ok)
    PROVE  DentKept /\ Named' \subseteq files \cup {tee_fs_dirfile_get_tmp}
<1> DEFINE i == Place(t)
           n == tee_fs_dirfile_get_tmp
<1>1. /\ MyId(t) \in Id /\ n \in Files /\ n \notin files /\ i \in Idx
      /\ \/ is_free(i) /\ \A j \in Idx : dent[j].id # MyId(t)
         \/ ~is_free(i) /\ dent[i].id = MyId(t)
      /\ dent' = [dent EXCEPT ![i] = [id |-> MyId(t), file |-> n, there |-> ok]]
  BY CreateEntry
<1> HIDE DEF i, n
<1>2. PICK e \in Dent : /\ e = [id |-> MyId(t), file |-> n, there |-> ok]
                        /\ e.id = MyId(t) /\ e.file = n
  <2>1. PICK a \in Id, m \in Files : a = MyId(t) /\ m = n
    BY <1>1
  <2>2. LET r == [id |-> a, file |-> m, there |-> ok] IN r \in Dent /\ r.id = a /\ r.file = m
    BY EntryFields
  <2> QED
    BY <2>1, <2>2
<1>3. Named \subseteq files
  BY Known, FilesFields
<1>4. \A j \in Idx \ {i} : ~is_free(j) => MyId(t) # dent[j].id /\ n # dent[j].file
  <2>1. \A j \in Idx : ~is_free(j) => n # dent[j].file
    BY <1>1, <1>3, NamedFile
  <2>2. \A j \in Idx \ {i} : ~is_free(j) => MyId(t) # dent[j].id
    BY <1>1, Known DEF DirectoryUnique
  <2> QED
    BY <2>1, <2>2
<1>5. dent' = [dent EXCEPT ![i] = e]
  BY <1>1, <1>2
<1>6. /\ DentKept
      /\ \A m \in Named' : m = e.file \/ \E j \in Idx \ {i} : ~is_free(j) /\ m = dent[j].file
  <2>1. i \in Idx
    BY <1>1
  <2>2. \A j \in Idx \ {i} : ~is_free(j) => e.id # dent[j].id /\ e.file # dent[j].file
    BY <1>2, <1>4
  <2> QED
    BY <1>5, <2>1, <2>2, EntryAfter
<1> QED
  BY <1>2, <1>3, <1>6, NamedFile DEF n

\* A removal.
LEMMA RemoveDent ==
    ASSUME RefInv, NEW t \in TA, obj[t].po # 0, NEW ok \in BOOLEAN, NEW next,
           ree_fs_remove(t, ok, next)
    PROVE  DentKept /\ Named' \subseteq files \ {dent[tee_fs_dirfile_find(MyId(t))].file}
<1> DEFINE i == tee_fs_dirfile_find(MyId(t))
<1>1. i \in Idx /\ ~is_free(i) /\ dent' = [dent EXCEPT ![i] = Cleared]
  BY RemoveFields
<1> HIDE DEF i
<1>2. Cleared \in Dent /\ Cleared.id = None
  BY Sizes DEF Cleared, Dent
<1>3. /\ DentKept /\ \A m \in Named' : \E j \in Idx \ {i} : ~is_free(j) /\ m = dent[j].file
  BY <1>1, <1>2, EntryAfter
<1>4. Named \subseteq files
  BY Known, FilesFields
<1>5. \A j \in Idx \ {i} : ~is_free(j) => dent[j].file # dent[i].file
  BY <1>1, Known DEF DirectoryUnique
<1>6. Named' \subseteq files \ {dent[i].file}
  BY <1>3, <1>4, <1>5, NamedFile
<1> QED
  BY <1>3, <1>6 DEF i

\* A rename: the entry keeps its file.
LEMMA RenameDent ==
    ASSUME RefInv, NEW t \in TA, NEW ok \in BOOLEAN, ree_fs_rename(t, ok)
    PROVE  LET i == tee_fs_dirfile_find(MyId(t)) IN
           /\ pc[t] = "rename" /\ i \in Idx /\ dent[i].id = MyId(t) /\ ~is_free(i)
           /\ tee_pobjs[po[t]].id \in Id
           /\ \A j \in Idx : dent[j].id # tee_pobjs[po[t]].id
           /\ dent'[i].id = tee_pobjs[po[t]].id /\ dent'[i].file = dent[i].file
           /\ dent'[i].there = dent[i].there
           /\ \A j \in Idx \ {i} : dent'[j] = dent[j]
           /\ DentKept /\ Named' \subseteq files
<1> DEFINE i == tee_fs_dirfile_find(MyId(t))
           new == tee_pobjs[po[t]].id
<1>1. /\ pc[t] = "rename" /\ tee_fs_dirfile_find(new) = 0 /\ i # 0
      /\ dent' = [dent EXCEPT ![i].id = new]
  BY DEF ree_fs_rename, At
<1>2. MyId(t) \in Id /\ new \in Id
  BY <1>1, Known, InList DEF Frame, Working, Second, Renaming
<1>3. i \in Idx /\ dent[i].id = MyId(t) /\ ~is_free(i)
  BY <1>1, <1>2, Known, FindFields
<1>4. \A j \in Idx : dent[j].id # new
  BY <1>1, <1>2, Known, FindFields
<1> HIDE DEF i, new
<1>5. dent \in [Idx -> Dent]
  BY Types, Known
<1>6. PICK k \in Dent : k = dent[i]
  BY <1>3, <1>5
<1>7. PICK e \in Dent : e = [k EXCEPT !.id = new] /\ e.id = new /\ e.file = k.file
                          /\ e.there = k.there
  BY <1>2, EntryNameFields
<1>8. dent' = [dent EXCEPT ![i] = e]
  BY <1>1, <1>6, <1>7, Zenon
<1>9. \A j \in Idx \ {i} : ~is_free(j) => e.id # dent[j].id /\ e.file # dent[j].file
  BY <1>3, <1>4, <1>6, <1>7, Known DEF DirectoryUnique
<1>10. /\ DentKept
       /\ \A n \in Named' : n = e.file \/ \E j \in Idx \ {i} : ~is_free(j) /\ n = dent[j].file
  BY <1>3, <1>8, <1>9, EntryAfter
<1>11. Named' \subseteq files
  <2>1. Named' \subseteq Named
    BY <1>3, <1>6, <1>7, <1>10, NamedFile
  <2> QED
    BY <2>1, Known, FilesFields
<1>12. dent'[i] = e /\ \A j \in Idx \ {i} : dent'[j] = dent[j]
  BY <1>3, <1>5, <1>8
<1>13. dent'[i].id = new /\ dent'[i].file = dent[i].file /\ dent'[i].there = dent[i].there
  BY <1>6, <1>7, <1>12
<1> QED
  BY <1>1, <1>2, <1>3, <1>4, <1>10, <1>11, <1>12, <1>13 DEF i, new

\* A write: the entries keep their names and files.
LEMMA WriteDent ==
    ASSUME RefInv, NEW t \in TA, Wrote(t)
    PROVE  /\ \A i \in Idx : dent'[i].id = dent[i].id /\ dent'[i].file = dent[i].file
           /\ DentKept /\ Named' \subseteq files
<1>1. /\ dent' \in [Idx -> Dent]
      /\ \A i \in Idx : dent'[i].id = dent[i].id /\ dent'[i].file = dent[i].file
  BY Zenon DEF Wrote
<1>2. DirectoryUnique'
  BY <1>1, Known DEF DirectoryUnique, is_free
<1>3. Named' \subseteq Named
  BY <1>1 DEF Named, is_free
<1> QED
  BY <1>1, <1>2, <1>3, Known, FilesFields DEF DentKept

\* The directory is right after a step.
DirKept == DirhKept /\ DentKept

\* A step that does not touch the handle of the directory.
LEMMA DirhSame ==
    ASSUME RefInv, dent' = dent, dirh' = dirh, \A u \in TA : obj'[u].fh <=> obj[u].fh,
           \A u \in TA : efh'[u] <=> efh[u],
           \A u \in TA : (en'[u].dir <=> en[u].dir) /\ (en'[u].stale <=> en[u].stale)
    PROVE  DirKept
<1>1. Opens' = Opens /\ Looks' = Looks /\ Enums' = Enums
  BY DEF Opens, Looks, Enums
<1>2. DentKept /\ Named' = Named
  BY DentSame
<1>3. DirhRefsExact'
  BY <1>1, <1>2, Known DEF DirhRefsExact, Opens, Looks, Enums
<1>4. DirhType'
  BY Known DEF DirhType, TypeOK
<1>5. DirsOpen'
  BY Known DEF DirsOpen
<1> QED
  BY <1>2, <1>3, <1>4, <1>5 DEF DirhKept, DirKept

LEMMA DirRestarts ==
    ASSUME RefInv, Restarts
    PROVE  DirKept
<1>1. /\ dirh' = [open |-> FALSE, files |-> {}, refcount |-> 0] /\ dent' = dent
      /\ \A t \in TA : ~efh'[t] /\ ~obj'[t].fh /\ ~en'[t].dir
  BY BootedFields DEF Restarts, NoDirh
<1>2. Opens' = {} /\ Looks' = {} /\ Enums' = {}
  BY <1>1 DEF Opens, Looks, Enums
<1>3. Holds' = 0
  BY <1>2, FS_EmptySet DEF Holds
<1>4. DirhType' /\ DirhRefsExact'
  BY <1>1, <1>3, DirhAfter
<1>5. DirsOpen'
  BY <1>1 DEF DirsOpen
<1> QED
  BY <1>1, <1>4, <1>5, DentSame DEF DirKept, DirhKept

\* An operation that fails, and one that has committed its change.
LEMMA FailedPut ==
    ASSUME RefInv, Failed, \A u \in TA : obj'[u].fh = obj[u].fh, efh' = efh
    PROVE  DirhKept
<1>1. {} \in SUBSET Files
  OBVIOUS
<1>2. put_dirh(TRUE, dirh.refcount, {})
  BY DEF Failed
<1> QED
  BY <1>1, <1>2, PutKeeps

LEMMA CommittedPut ==
    ASSUME RefInv, NEW ok \in BOOLEAN, NEW bits \in SUBSET Files, Committed(ok, bits),
           Named' \subseteq bits, \A u \in TA : obj'[u].fh = obj[u].fh, efh' = efh
    PROVE  DirhKept
<1>1. CASE ok
  <2>1. put_dirh(FALSE, dirh.refcount, bits)
    BY <1>1 DEF Committed, Done
  <2> QED
    BY <2>1, PutKeeps
<1>2. CASE ~ok
  BY <1>2, FailedPut DEF Committed
<1> QED
  BY <1>1, <1>2

LEMMA DirDir ==
    ASSUME RefInv, NEW t \in TA, DirSteps(t)
    PROVE  DirKept
<1>0. files \in SUBSET Files /\ Named \subseteq files
  BY Known, FilesFields
<1>1. CASE ree_fs_open(t)
  <2>1. dent' = dent /\ efh' = efh /\ Kept(files)
    BY <1>1 DEF ree_fs_open
  <2>2. ~obj[t].fh /\ obj'[t].fh /\ \A u \in TA \ {t} : obj'[u].fh = obj[u].fh
    BY <1>1, FsOpenFields
  <2>3. DentKept /\ Named' = Named
    BY <2>1, DentSame
  <2>4. DirhKept
    BY <1>0, <2>1, <2>2, <2>3, PutMore
  <2> QED
    BY <2>3, <2>4 DEF DirKept
<1>2. CASE \/ ree_fs_open_fails(t) \/ ree_fs_create_fails(t) \/ NotWritten(t)
           \/ ree_fs_rename_fails(t)
  <2>1. dent' = dent /\ efh' = efh /\ obj' = obj /\ Failed
    BY <1>2, Zenon DEF ree_fs_open_fails, ree_fs_create_fails, NotWritten,
                       ree_fs_rename_fails
  <2> QED
    BY <2>1, FailedPut, DentSame DEF DirKept
<1>3. CASE ree_fs_create(t, TRUE)
  <2>1. efh' = efh /\ Kept(files \cup {tee_fs_dirfile_get_tmp})
    BY <1>3 DEF ree_fs_create
  <2>2. ~obj[t].fh /\ tee_fs_dirfile_get_tmp \in Files
    BY <1>3, CreateEntry
  <2>3. obj'[t].fh /\ \A u \in TA \ {t} : obj'[u].fh = obj[u].fh
    BY <1>3, CreateFields
  <2>4. DentKept /\ Named' \subseteq files \cup {tee_fs_dirfile_get_tmp}
    BY <1>3, CreateDent
  <2>5. PICK bits \in SUBSET Files : bits = files \cup {tee_fs_dirfile_get_tmp}
    BY <1>0, <2>2
  <2>6. Kept(bits) /\ Named' \subseteq bits
    BY <2>1, <2>4, <2>5, Zenon
  <2>7. DirhKept
    BY <2>1, <2>2, <2>3, <2>6, PutMore
  <2> QED
    BY <2>4, <2>7 DEF DirKept
<1>4. CASE ree_fs_create(t, FALSE)
  <2>1. efh' = efh /\ Failed /\ obj' = obj
    BY <1>4 DEF ree_fs_create
  <2> QED
    BY <1>4, <2>1, FailedPut, CreateDent DEF DirKept
<1>5. CASE \E ok \in BOOLEAN : ree_fs_rename(t, ok)
  <2>1. PICK ok \in BOOLEAN : ree_fs_rename(t, ok)
    BY <1>5
  <2>2. efh' = efh /\ Committed(ok, files) /\ obj' = obj
    BY <2>1 DEF ree_fs_rename
  <2>3. DentKept /\ Named' \subseteq files
    BY <2>1, RenameDent
  <2> QED
    BY <1>0, <2>2, <2>3, CommittedPut DEF DirKept
<1>6. CASE Wrote(t)
  <2>1. PICK ok \in BOOLEAN : Committed(ok, files)
    BY <1>6 DEF Wrote
  <2>2. efh' = efh /\ Committed(ok, files)
    BY <1>6, <2>1 DEF Wrote
  <2>3. DentKept /\ Named' \subseteq files
    BY <1>6, WriteDent
  <2>4. \A u \in TA : obj'[u].fh = obj[u].fh
    BY <1>6, WriteFields
  <2> QED
    BY <1>0, <2>2, <2>3, <2>4, CommittedPut DEF DirKept
<1>7. CASE Removing(t)
  <2>1. obj[t].po # 0
    BY <1>7, RemovalFields
  <2>2. PICK next \in After : Removes(t, next) /\ (next = "release" => ~obj[t].fh)
    BY <1>7, RemovalFields
  <2>3. CASE \E ok \in BOOLEAN : ree_fs_remove(t, ok, next)
    <3>1. PICK ok \in BOOLEAN : ree_fs_remove(t, ok, next)
      BY <2>3
    <3>2. PICK bits \in SUBSET Files : bits = files \ {dent[tee_fs_dirfile_find(MyId(t))].file}
      BY <1>0
    <3>3. efh' = efh /\ Committed(ok, bits)
      BY <3>1, <3>2, Zenon DEF ree_fs_remove
    <3>4. DentKept /\ Named' \subseteq bits
      BY <2>1, <3>1, <3>2, RemoveDent
    <3>5. \A u \in TA : obj'[u].fh = obj[u].fh
      BY <2>1, <3>1, RemoveFields
    <3> QED
      BY <3>3, <3>4, <3>5, CommittedPut DEF DirKept
  <2>4. CASE ree_fs_remove_fails(t, next)
    BY <2>4, FailedPut, DentSame DEF ree_fs_remove_fails, DirKept
  <2> QED
    BY <2>2, <2>3, <2>4 DEF Removes
<1>8. CASE ree_fs_close(t)
  <2>1. dent' = dent /\ efh' = efh
    BY <1>8 DEF ree_fs_close
  <2>2. ~obj'[t].fh /\ \A u \in TA \ {t} : obj'[u] = obj[u]
    BY <1>8, CloseFields
  <2>3. CASE obj[t].fh
    <3>1. put_dirh_primitive
      BY <1>8, <2>3 DEF ree_fs_close
    <3> QED
      BY <2>1, <2>2, <2>3, <3>1, PutFewer, DentSame DEF DirKept
  <2>4. CASE ~obj[t].fh
    <3>1. dirh' = dirh /\ en' = en
      BY <1>8, <2>4 DEF ree_fs_close
    <3> QED
      BY <2>1, <2>2, <2>4, <3>1, DirhSame
  <2> QED
    BY <2>3, <2>4
<1>9. CASE enum_open(t)
  <2>1. dent' = dent /\ obj' = obj /\ pc[t] = "enum_open"
    BY <1>9 DEF enum_open, At
  <2>2. ~efh[t] /\ efh \in [TA -> BOOLEAN]
    BY <2>1, Known DEF Frame, RestType
  <2>3. DentKept /\ Named' = Named
    BY <2>1, DentSame
  <2>4. CASE Kept(files) /\ efh' = [efh EXCEPT ![t] = TRUE]
    <3>1. efh'[t] /\ \A u \in TA \ {t} : efh'[u] = efh[u]
      BY <2>2, <2>4
    <3> QED
      BY <1>0, <2>1, <2>2, <2>3, <2>4, <3>1, PutMore DEF DirKept
  <2>5. CASE Failed /\ efh' = efh
    BY <2>1, <2>3, <2>5, FailedPut DEF DirKept
  <2> QED
    BY <1>9, <2>4, <2>5 DEF enum_open
<1>10. CASE enum_close(t)
  <2>1. /\ dent' = dent /\ obj' = obj /\ pc[t] = "enum_close" /\ put_dirh_primitive
        /\ efh' = [efh EXCEPT ![t] = FALSE]
    BY <1>10 DEF enum_close, At
  <2>2. efh[t] /\ efh \in [TA -> BOOLEAN]
    BY <2>1, Known DEF Frame, RestType
  <2>3. ~efh'[t] /\ \A u \in TA \ {t} : efh'[u] = efh[u]
    BY <2>1, <2>2
  <2> QED
    BY <2>1, <2>2, <2>3, PutFewer, DentSame DEF DirKept
<1> QED
  BY <1>1, <1>2, <1>3, <1>4, <1>5, <1>6, <1>7, <1>8, <1>9, <1>10 DEF DirSteps

LEMMA ListDir ==
    ASSUME RefInv, NEW t \in TA, ListSteps(t) \/ PlainSteps(t)
    PROVE  DirKept
<1>1. CASE \E id \in Id, flags \in Flags : obj_open(t, id, flags) \/ obj_create(t, id, flags)
  BY <1>1, OpenFields, DirhSame
<1>2. CASE \E id \in Id : obj_rename(t, id)
  BY <1>2, RenameFields, DirhSame
<1>3. CASE obj_release(t)
  <2>1. UNCHANGED <<dent, dirh, efh, en>>
    BY <1>3 DEF obj_release
  <2>2. \A u \in TA : obj'[u].fh <=> obj[u].fh
    BY <1>3, ReleaseMoves, NothingTypes
  <2> QED
    BY <2>1, <2>2, DirhSame
<1>4. CASE put_second(t)
  <2>1. UNCHANGED <<dent, dirh, efh, en>>
    BY <1>4 DEF put_second
  <2> QED
    BY <1>4, <2>1, PutMoves, DirhSame
<1>5. CASE enum_get(t)
  <2>1. UNCHANGED <<dent, dirh, obj, efh>>
    BY <1>5, EnumGetMoves
  <2>2. \A u \in TA : en'[u].dir = en[u].dir /\ en'[u].stale = en[u].stale
    BY <1>5, EnumGetFields
  <2> QED
    BY <2>1, <2>2, DirhSame
<1>6. CASE obj_create_final(t)
  BY <1>6, FinalFields, DirhSame
<1>7. CASE tee_pobj_rename(t)
  BY <1>7, PobjRenameFields, DirhSame
<1>8. CASE PlainSteps(t)
  <2>1. UNCHANGED <<dent, dirh, obj, efh, en>>
    BY <1>8, Zenon DEF PlainSteps, give_up, tee_svc_storage_read_head, ReadCorrupt, obj_close
  <2> QED
    BY <2>1, DirhSame
<1> QED
  BY <1>1, <1>2, <1>3, <1>4, <1>5, <1>6, <1>7, <1>8, Zenon DEF ListSteps

LEMMA DirStep ==
    ASSUME RefInv, [Next]_vars
    PROVE  DirKept
<1>1. CASE UNCHANGED vars
  <2>1. UNCHANGED <<dent, dirh, obj, efh, en>>
    BY <1>1 DEF vars
  <2> QED
    BY <2>1, DirhSame
<1>2. CASE Restarts
  BY <1>2, DirRestarts
<1>3. CASE \E t \in TA : ListSteps(t) \/ DirSteps(t) \/ EnumSteps(t) \/ PlainSteps(t)
  <2>1. PICK t \in TA : ListSteps(t) \/ DirSteps(t) \/ EnumSteps(t) \/ PlainSteps(t)
    BY <1>3
  <2>2. EnumSteps(t) => DirKept
    BY EnumDirh, DentSame DEF DirKept
  <2> QED
    BY <2>1, <2>2, ListDir, DirDir
<1> QED
  BY <1>1, <1>2, <1>3, StepKinds

\* The types, from what the steps keep.
LEMMA TypesKept ==
    ASSUME dent' \in [Idx -> Dent], DirhType', ListType', RestType'
    PROVE  TypeOK'
BY DEF TypeOK, Dent, DirhType, ListType, RestType, Pobj, Obj, Enum

LEMMA RefInvInit ==
    ASSUME Init
    PROVE  RefInv
<1>1. /\ dent = [i \in Idx |-> Cleared] /\ dirh = [open |-> FALSE, files |-> {}, refcount |-> 0]
      /\ tee_pobjs = <<>>
      /\ \A t \in TA : /\ pc[t] = "idle" /\ obj[t].po = 0 /\ ~obj[t].fh /\ po[t] = 0 /\ ~efh[t]
                       /\ ~en[t].fops /\ ~en[t].dir
  BY NothingTypes DEF Init, NoDirh
<1>2. Cleared \in Dent /\ Cleared.id = None
  BY Sizes DEF Cleared, Dent
<1>3. \A i \in Idx : dent[i] \in Dent /\ is_free(i)
  BY <1>1, <1>2 DEF is_free
<1>4. /\ pc \in [TA -> Pcs] /\ obj \in [TA -> Obj] /\ po \in [TA -> Places \cup {0}]
      /\ efh \in [TA -> BOOLEAN] /\ en \in [TA -> Enum] /\ dead = "no" /\ torn = {}
  BY NothingTypes DEF Init, Pcs
<1>5. Frames
  BY <1>1 DEF Frames, Frame, Working, Second, Renaming
<1>6. PobjRefsExact
  <2>1. \A s \in Places : Handles(s) = {} /\ Seconds(s) = {}
    BY <1>1, Sizes DEF Handles, Seconds
  <2>2. \A s \in Places : Uses(s) = 0
    BY <2>1, FS_EmptySet DEF Uses
  <2>3. \A s \in Places : Refs(s) = 0
    BY <1>1, Sizes DEF Refs
  <2> QED
    BY <2>2, <2>3, UseTypes
<1>7. DirhRefsExact
  <2>1. Opens = {} /\ Looks = {} /\ Enums = {}
    BY <1>1 DEF Opens, Looks, Enums
  <2>2. Cardinality(Opens) + Cardinality(Looks) + Cardinality(Enums) = 0
    BY <2>1, FS_EmptySet
  <2> QED
    BY <1>1, <2>2 DEF DirhRefsExact, Opens, Looks, Enums
<1>8. DirsOpen /\ DirectoryUnique
  BY <1>1, <1>3 DEF DirsOpen, DirectoryUnique
<1>9. TypeOK
  <2>1. dent \in [Idx -> Dent]
    BY <1>1, <1>2
  <2>2. 0 \in 0 .. 3 * Cardinality(TA)
    BY Sizes
  <2>3. dirh \in [open : BOOLEAN, files : SUBSET Files, refcount : 0 .. 3 * Cardinality(TA)]
    BY <1>1, <2>2
  <2>4. Len(tee_pobjs) \in Places \cup {0} /\ tee_pobjs \in Seq(Pobj)
    BY <1>1
  <2> QED
    BY <1>4, <2>1, <2>3, <2>4 DEF TypeOK, Dent, Pobj, Obj, Enum
<1> QED
  BY <1>5, <1>6, <1>7, <1>8, <1>9 DEF RefInv

LEMMA RefInvStep ==
    ASSUME RefInv, [Next]_vars
    PROVE  RefInv'
<1>1. RestType' /\ Frames'
  BY RestStep DEF RestKept
<1>2. PobjRefsExact' /\ ListType'
  BY ListStep DEF ListKept
<1>3. DirhType' /\ DirhRefsExact' /\ DirsOpen' /\ dent' \in [Idx -> Dent] /\ DirectoryUnique'
  BY DirStep DEF DirKept, DirhKept, DentKept
<1>4. TypeOK'
  BY <1>1, <1>2, <1>3, TypesKept
<1> QED
  BY <1>1, <1>2, <1>3, <1>4 DEF RefInv

(* The reference counts of tee_pobj.c and of the directory handle count    *)
(* exactly who uses them after every step, error and reset, and the state  *)
(* stays in its types.                                                     *)
THEOREM ReferencesCounted == Spec => []RefsExact
<1>1. Init => RefInv
  BY RefInvInit
<1>2. RefInv /\ [Next]_vars => RefInv'
  BY RefInvStep
<1>3. RefInv => RefsExact
  BY DEF RefInv, RefsExact
<1> QED
  BY <1>1, <1>2, <1>3, PTL DEF Spec

(* The directory never has a name twice, nor a file number under two       *)
(* names: ree_fs_create() and ree_fs_rename() never reuse one.             *)
THEOREM NamesUnique == Spec => []DirectoryUnique
<1>1. Init => RefInv
  BY RefInvInit
<1>2. RefInv /\ [Next]_vars => RefInv'
  BY RefInvStep
<1>3. RefInv => DirectoryUnique
  BY DEF RefInv
<1> QED
  BY <1>1, <1>2, <1>3, PTL DEF Spec

-----------------------------------------------------------------------------
(* The directory as a store of objects.                                    *)

FileOf(id) == LET i == tee_fs_dirfile_find(id) IN IF i = 0 THEN None ELSE dent[i].file
Stored == [id \in Id |-> FileOf(id)]

\* What it says of a name is what the one entry of that name says.
FileFacts ==
    /\ \A id \in Id : \/ FileOf(id) = None /\ \A j \in Idx : dent[j].id # id
                      \/ \E i \in Idx : dent[i].id = id /\ dent[i].file = FileOf(id)
    /\ \A id \in Id, i \in Idx : dent[i].id = id => FileOf(id) = dent[i].file
    /\ \A i \in Idx : dent[i].file \in Files /\ dent[i].file # None

LEMMA FileOfFields == RefInv => FileFacts
<1> SUFFICES ASSUME RefInv PROVE FileFacts
  OBVIOUS
<1>1. dent \in [Idx -> Dent] /\ DirectoryUnique /\ TypeOK
  BY Types, Known
<1>2. \A id \in Id : \/ FileOf(id) = None /\ \A j \in Idx : dent[j].id # id
                     \/ \E i \in Idx : dent[i].id = id /\ dent[i].file = FileOf(id)
  <2> TAKE id \in Id
  <2>1. CASE tee_fs_dirfile_find(id) = 0 /\ \A j \in Idx : dent[j].id # id
    BY <2>1 DEF FileOf
  <2>2. CASE /\ tee_fs_dirfile_find(id) \in Idx /\ tee_fs_dirfile_find(id) # 0
             /\ dent[tee_fs_dirfile_find(id)].id = id
    BY <2>2 DEF FileOf
  <2> QED
    BY <1>1, <2>1, <2>2, FindFields
<1>3. \A id \in Id, i \in Idx : dent[i].id = id => FileOf(id) = dent[i].file
  <2> SUFFICES ASSUME NEW id \in Id, NEW i \in Idx, dent[i].id = id PROVE FileOf(id) = dent[i].file
    OBVIOUS
  <2>1. PICK j \in Idx : dent[j].id = id /\ dent[j].file = FileOf(id)
    BY <1>2
  <2>2. ~is_free(i) /\ ~is_free(j)
    BY <2>1, NoneOK DEF is_free
  <2>3. i = j
    BY <1>1, <2>1, <2>2 DEF DirectoryUnique
  <2> QED
    BY <2>1, <2>3
<1>4. \A i \in Idx : dent[i].file \in Files /\ dent[i].file # None
  BY <1>1, DentTypes, NoneOK DEF Files
<1> QED
  BY <1>2, <1>3, <1>4 DEF FileFacts

LEMMA FileOfNext == RefInv' => FileFacts'
BY FileOfFields, PTL

\* Entries that keep their names and their files keep what is stored.
LEMMA StoredSame ==
    ASSUME RefInv, RefInv', \A i \in Idx : dent'[i].id = dent[i].id /\ dent'[i].file = dent[i].file
    PROVE  Stored' = Stored
<1>1. FileFacts /\ FileFacts'
  BY FileOfFields, FileOfNext
<1>2. \A id \in Id : FileOf(id)' = FileOf(id)
  <2> TAKE id \in Id
  <2>1. CASE \A j \in Idx : dent[j].id # id
    <3>1. FileOf(id) = None
      BY <1>1, <2>1 DEF FileFacts
    <3>2. FileOf(id)' = None
      BY <1>1, <2>1 DEF FileFacts
    <3> QED
      BY <3>1, <3>2
  <2>2. ASSUME NEW j \in Idx, dent[j].id = id PROVE FileOf(id)' = FileOf(id)
    <3>1. FileOf(id) = dent[j].file
      BY <1>1, <2>2 DEF FileFacts
    <3>2. FileOf(id)' = dent'[j].file
      BY <1>1, <2>2 DEF FileFacts
    <3> QED
      BY <3>1, <3>2
  <2> QED
    BY <2>1, <2>2
<1> QED
  BY <1>2 DEF Stored

\* One entry changes: so does what is stored under its name before and after.
LEMMA StoredEntry ==
    ASSUME RefInv, RefInv', NEW i \in Idx, \A j \in Idx \ {i} : dent'[j] = dent[j]
    PROVE  /\ \A id \in Id : id # dent[i].id /\ id # dent'[i].id => FileOf(id)' = FileOf(id)
           /\ \A id \in Id : dent[i].id = id => FileOf(id) = dent[i].file
           /\ \A id \in Id : dent'[i].id = id => FileOf(id)' = dent'[i].file
           /\ \A id \in Id : dent[i].id = id /\ dent'[i].id # id => FileOf(id)' = None
           /\ \A id \in Id : dent'[i].id = id /\ dent[i].id # id => FileOf(id) = None
<1>1. FileFacts /\ FileFacts'
  BY FileOfFields, FileOfNext
<1>2. ASSUME NEW id \in Id, id # dent[i].id, id # dent'[i].id PROVE FileOf(id)' = FileOf(id)
  <2>1. CASE \A j \in Idx : dent[j].id # id
    <3>1. FileOf(id) = None
      BY <1>1, <2>1 DEF FileFacts
    <3>2. \A j \in Idx : dent'[j].id # id
      BY <1>2, <2>1
    <3>3. FileOf(id)' = None
      BY <1>1, <3>2 DEF FileFacts
    <3> QED
      BY <3>1, <3>3
  <2>2. ASSUME NEW j \in Idx, dent[j].id = id PROVE FileOf(id)' = FileOf(id)
    <3>1. FileOf(id) = dent[j].file
      BY <1>1, <2>2 DEF FileFacts
    <3>2. dent'[j] = dent[j]
      BY <1>2, <2>2
    <3>3. FileOf(id)' = dent'[j].file
      BY <1>1, <2>2, <3>2 DEF FileFacts
    <3> QED
      BY <3>1, <3>2, <3>3
  <2> QED
    BY <2>1, <2>2
<1>3. /\ \A id \in Id : dent[i].id = id => FileOf(id) = dent[i].file
      /\ \A id \in Id : dent'[i].id = id => FileOf(id)' = dent'[i].file
  BY <1>1 DEF FileFacts
<1>4. ASSUME NEW id \in Id, dent[i].id = id, dent'[i].id # id PROVE FileOf(id)' = None
  <2>1. \A j \in Idx \ {i} : dent[j].id # id
    BY <1>4, Known, NoneOK DEF DirectoryUnique, is_free
  <2>2. \A j \in Idx : dent'[j].id # id
    BY <1>4, <2>1
  <2> QED
    BY <1>1, <2>2 DEF FileFacts
<1>5. ASSUME NEW id \in Id, dent'[i].id = id, dent[i].id # id PROVE FileOf(id) = None
  <2>0. DirectoryUnique'
    BY DEF RefInv
  <2>1. \A j \in Idx \ {i} : dent'[j].id # id
    BY <1>5, <2>0, NoneOK DEF DirectoryUnique, is_free
  <2>2. \A j \in Idx : dent[j].id # id
    BY <1>5, <2>1
  <2> QED
    BY <1>1, <2>2 DEF FileFacts
<1> QED
  BY <1>2, <1>3, <1>4, <1>5

\* The steps of the store, in terms of FileOf.
Fills(id) ==
    /\ id \in Id /\ \A o \in Id \ {id} : FileOf(o)' = FileOf(o)
    /\ FileOf(id)' \in Files /\ \A o \in Id : FileOf(id)' # FileOf(o)

Empties(id) ==
    /\ id \in Id /\ FileOf(id) # None /\ FileOf(id)' = None
    /\ \A o \in Id \ {id} : FileOf(o)' = FileOf(o)

Passes(old, new) ==
    /\ old \in Id /\ new \in Id /\ old # new
    /\ FileOf(old) # None /\ FileOf(new) = None
    /\ FileOf(old)' = None /\ FileOf(new)' = FileOf(old)
    /\ \A o \in Id \ {old, new} : FileOf(o)' = FileOf(o)

Shown ==
    \/ Stored' = Stored
    \/ \E id \in Id : Fills(id) \/ Empties(id)
    \/ \E old, new \in Id : Passes(old, new)

LEMMA CreateShown ==
    ASSUME RefInv, RefInv', NEW t \in TA, NEW ok \in BOOLEAN, ree_fs_create(t, ok)
    PROVE  \E id \in Id : Fills(id)
<1> DEFINE i == Place(t)
           n == tee_fs_dirfile_get_tmp
<1>1. PICK id \in Id :
      /\ n \in Files /\ n \notin files /\ i \in Idx /\ (is_free(i) \/ dent[i].id = id)
      /\ dent' = [dent EXCEPT ![i] = [id |-> id, file |-> n, there |-> ok]]
  BY CreateEntry
<1>2. PICK k \in Idx : k = i
  BY CreateEntry
<1>3. PICK m \in Files : m = n /\ m \notin files
  BY CreateEntry
<1> HIDE DEF i, n
<1>4. dent \in [Idx -> Dent]
  BY Types, Known
<1>5. dent'[k].id = id /\ dent'[k].file = m /\ \A j \in Idx \ {k} : dent'[j] = dent[j]
  BY <1>1, <1>2, <1>3, <1>4
<1>6. is_free(k) \/ dent[k].id = id
  BY <1>1, <1>2
<1>7. /\ \A o \in Id : o # dent[k].id /\ o # dent'[k].id => FileOf(o)' = FileOf(o)
      /\ FileOf(id)' = m
  BY <1>5, StoredEntry
<1>8. \A o \in Id \ {id} : FileOf(o)' = FileOf(o)
  BY <1>5, <1>6, <1>7, NoneOK DEF is_free
<1>9. \A o \in Id : FileOf(o) # m
  <2> SUFFICES ASSUME NEW o \in Id, FileOf(o) = m PROVE FALSE
    OBVIOUS
  <2>1. m # None
    BY NoneOK DEF Files
  <2>2. PICK j \in Idx : dent[j].id = o /\ dent[j].file = m
    BY <2>1, FileOfFields DEF FileFacts
  <2>3. m \in Named
    BY <2>2, NamedFile, NoneOK DEF is_free
  <2> QED
    BY <1>3, <2>3, Known, FilesFields
<1> QED
  BY <1>7, <1>8, <1>9 DEF Fills

LEMMA RemoveShown ==
    ASSUME RefInv, RefInv', NEW t \in TA, obj[t].po # 0, NEW ok \in BOOLEAN, NEW next,
           ree_fs_remove(t, ok, next)
    PROVE  \E id \in Id : Empties(id)
<1>1. PICK i \in Idx : /\ dent[i].id = MyId(t) /\ dent' = [dent EXCEPT ![i] = Cleared]
  BY RemoveFields
<1>2. PICK id \in Id : id = MyId(t)
  BY InList
<1>3. dent \in [Idx -> Dent] /\ Cleared.id = None
  BY Types, Known DEF Cleared
<1>4. dent[i].id = id /\ dent'[i].id = None /\ \A j \in Idx \ {i} : dent'[j] = dent[j]
  BY <1>1, <1>2, <1>3
<1>5. id # None
  BY NoneOK
<1>6. /\ \A o \in Id : o # dent[i].id /\ o # dent'[i].id => FileOf(o)' = FileOf(o)
      /\ FileOf(id) = dent[i].file /\ FileOf(id)' = None
  BY <1>4, <1>5, StoredEntry
<1>7. FileOf(id) # None
  BY <1>6, FileOfFields DEF FileFacts
<1>8. \A o \in Id \ {id} : FileOf(o)' = FileOf(o)
  BY <1>4, <1>6, NoneOK
<1> QED
  BY <1>6, <1>7, <1>8 DEF Empties

LEMMA RenameShown ==
    ASSUME RefInv, RefInv', NEW t \in TA, NEW ok \in BOOLEAN, ree_fs_rename(t, ok)
    PROVE  \E old, new \in Id : Passes(old, new)
<1>1. PICK i \in Idx :
         /\ dent[i].id = MyId(t) /\ \A j \in Idx : dent[j].id # tee_pobjs[po[t]].id
         /\ tee_pobjs[po[t]].id \in Id /\ pc[t] = "rename"
         /\ dent'[i].id = tee_pobjs[po[t]].id /\ dent'[i].file = dent[i].file
         /\ \A j \in Idx \ {i} : dent'[j] = dent[j]
  BY RenameDent
<1>2. MyId(t) \in Id
  BY <1>1, Known, InList DEF Frame, Working
<1>3. PICK old \in Id : old = dent[i].id
  BY <1>1, <1>2
<1>4. PICK new \in Id : new = dent'[i].id /\ new # old
  BY <1>1, <1>3
<1>5. /\ \A o \in Id : o # old /\ o # new => FileOf(o)' = FileOf(o)
      /\ FileOf(old) = dent[i].file /\ FileOf(new)' = dent'[i].file
      /\ FileOf(old)' = None /\ FileOf(new) = None
  BY <1>1, <1>3, <1>4, StoredEntry
<1>6. FileOf(old) # None
  BY <1>5, FileOfFields DEF FileFacts
<1> QED
  BY <1>1, <1>4, <1>5, <1>6 DEF Passes

\* Every step is one of those, or leaves what is stored alone.
LEMMA ShownStep ==
    ASSUME RefInv, RefInv', [Next]_vars
    PROVE  Shown
<1>1. CASE dent' = dent
  BY <1>1, StoredSame DEF Shown
<1>2. ASSUME NEW t \in TA, DirSteps(t)
      PROVE  Shown
  <2>1. CASE \E ok \in BOOLEAN : ree_fs_create(t, ok)
    BY <2>1, CreateShown DEF Shown
  <2>2. CASE \E ok \in BOOLEAN : ree_fs_rename(t, ok)
    BY <2>2, RenameShown DEF Shown
  <2>3. CASE Wrote(t)
    BY <2>3, WriteDent, StoredSame DEF Shown
  <2>4. CASE Removing(t)
    <3>1. obj[t].po # 0
      BY <2>4, RemovalFields
    <3>2. PICK next \in After : Removes(t, next) /\ (next = "release" => ~obj[t].fh)
      BY <2>4, RemovalFields
    <3>3. CASE \E ok \in BOOLEAN : ree_fs_remove(t, ok, next)
      BY <3>1, <3>3, RemoveShown DEF Shown
    <3>4. CASE ree_fs_remove_fails(t, next)
      BY <1>1, <3>4 DEF ree_fs_remove_fails
    <3> QED
      BY <3>2, <3>3, <3>4 DEF Removes
  <2>5. CASE \/ ree_fs_open(t) \/ ree_fs_open_fails(t) \/ ree_fs_create_fails(t)
             \/ NotWritten(t) \/ ree_fs_rename_fails(t) \/ ree_fs_close(t)
             \/ enum_open(t) \/ enum_close(t)
    <3>1. dent' = dent
      BY <2>5, Zenon DEF ree_fs_open, ree_fs_open_fails, ree_fs_create_fails, NotWritten,
                         ree_fs_rename_fails, ree_fs_close, enum_open, enum_close
    <3> QED
      BY <1>1, <3>1
  <2> QED
    BY <1>2, <2>1, <2>2, <2>3, <2>4, <2>5, Zenon DEF DirSteps
<1>3. ASSUME NEW t \in TA, EnumSteps(t) \/ PlainSteps(t)
      PROVE  dent' = dent
  <2>1. EnumSteps(t) => dent' = dent
    BY EnumDirh
  <2>2. PlainSteps(t) => dent' = dent
    BY Zenon DEF PlainSteps, give_up, tee_svc_storage_read_head, ReadCorrupt, obj_close
  <2> QED
    BY <1>3, <2>1, <2>2
<1>4. ASSUME NEW t \in TA, ListSteps(t)
      PROVE  dent' = dent
  BY <1>4, Zenon DEF ListSteps, obj_open, obj_create, obj_rename, obj_release, put_second,
       enum_get, obj_create_final, tee_pobj_rename
<1>5. Restarts \/ UNCHANGED vars => dent' = dent
  BY BootedFields DEF Restarts, vars
<1> QED
  BY <1>1, <1>2, <1>3, <1>4, <1>5, StepKinds

LEMMA ShownNext ==
    ASSUME Shown
    PROVE  [Store!Next]_Stored
<1> DEFINE st == Stored
<1>0. st = [id \in Id |-> FileOf(id)] /\ st' = [id \in Id |-> FileOf(id)']
  BY DEF Stored
<1>1. CASE Stored' = Stored
  BY <1>1
<1>2. ASSUME NEW id \in Id, Fills(id), st' # st PROVE Store!Next
  <2>1. PICK f \in Files : f = FileOf(id)'
    BY <1>2 DEF Fills
  <2>2. st' = [st EXCEPT ![id] = f]
    BY <1>0, <1>2, <2>1 DEF Fills
  <2>3. \A o \in Id : st[o] # f
    BY <1>0, <1>2, <2>1 DEF Fills
  <2>4. f \notin {st[o] : o \in Id} \ {None}
    BY <2>3
  <2>5. Store!Create(id)
    BY <2>2, <2>4 DEF Store!Create, Store!Used, Stored, FileOf
  <2> QED
    BY <1>2, <2>5 DEF Store!Next, Stored, FileOf
<1>3. ASSUME NEW id \in Id, Empties(id), st' # st PROVE Store!Next
  <2>1. st[id] # None /\ st' = [st EXCEPT ![id] = None]
    BY <1>0, <1>3 DEF Empties
  <2>2. Store!Delete(id)
    BY <2>1 DEF Store!Delete, Stored, FileOf
  <2> QED
    BY <1>3, <2>2 DEF Store!Next, Stored, FileOf
<1>4. ASSUME NEW old \in Id, NEW new \in Id, Passes(old, new), st' # st PROVE Store!Next
  <2>1. /\ st[old] # None /\ st[new] = None
        /\ st' = [st EXCEPT ![old] = None, ![new] = st[old]]
    BY <1>0, <1>4 DEF Passes
  <2>2. Store!Rename(old, new)
    BY <2>1 DEF Store!Rename, Stored, FileOf
  <2> QED
    BY <1>4, <2>2 DEF Store!Next, Stored, FileOf
<1> QED
  BY <1>1, <1>2, <1>3, <1>4 DEF Shown

(* The storage syscalls implement the store of ObjectStore: every section  *)
(* under ree_fs_mutex, whether it succeeds or fails, makes one change of   *)
(* the names or none.                                                      *)
THEOREM StoreImplemented == Spec => ImplementsStore
<1>1. Init => Store!Init
  <2> SUFFICES ASSUME Init PROVE Store!Init
    OBVIOUS
  <2>1. FileFacts /\ \A i \in Idx : dent[i].id = None
    BY RefInvInit, FileOfFields DEF Init, Cleared
  <2>2. \A id \in Id : FileOf(id) = None
    BY <2>1, NoneOK DEF FileFacts
  <2>3. Stored = [id \in Id |-> None]
    BY <2>2 DEF Stored
  <2> QED
    BY <2>3 DEF Store!Init, Stored, FileOf
<1>2. RefInv /\ RefInv' /\ [Next]_vars => [Store!Next]_Stored
  BY ShownStep, ShownNext
<1>3. Init => RefInv
  BY RefInvInit
<1>4. RefInv /\ [Next]_vars => RefInv'
  BY RefInvStep
<1> QED
  BY <1>1, <1>2, <1>3, <1>4, PTL DEF Spec, ImplementsStore, Store!Spec, Stored, FileOf

-----------------------------------------------------------------------------
(* Who may have an object open together.                                   *)

\* The flags that tee_pobj_check_access() looks at.
LEMMA AccessFacts ==
    \A a, b, d :
           /\ tee_pobj_check_access(a, b) => tee_pobj_check_access(b, a)
           /\ tee_pobj_check_access(a \ {"overwrite"}, b) <=> tee_pobj_check_access(a, b)
           /\ tee_pobj_check_access(a, b \ {"overwrite"}) <=> tee_pobj_check_access(a, b)
           /\ tee_pobj_check_access(a, b) /\ tee_pobj_check_access(b, d)
                => tee_pobj_check_access(a, d)
           /\ tee_pobj_check_access(a, b) /\ tee_pobj_check_access(a, d)
                => tee_pobj_check_access(b, d)
           /\ tee_pobj_check_access(a, b) => "meta" \notin a /\ "meta" \notin b
BY DEF tee_pobj_check_access, Both, Either

\* Flags that are the same but for "overwrite".
Alike(a, b) == a \ {"overwrite"} = b \ {"overwrite"}

LEMMA AlikeFacts ==
    ASSUME NEW a, NEW b, NEW d, Alike(a, b)
    PROVE  /\ tee_pobj_check_access(a, d) <=> tee_pobj_check_access(b, d)
           /\ tee_pobj_check_access(d, a) <=> tee_pobj_check_access(d, b)
           /\ \A f \in FlagNames \ {"overwrite"} : f \in a <=> f \in b
<1>1. \A f \in FlagNames \ {"overwrite"} : f \in a <=> f \in b
  <2>1. \A f : f # "overwrite" => (f \in a <=> f \in a \ {"overwrite"})
    OBVIOUS
  <2>2. \A f : f # "overwrite" => (f \in b <=> f \in b \ {"overwrite"})
    OBVIOUS
  <2> QED
    BY <2>1, <2>2 DEF Alike
<1> QED
  BY <1>1 DEF tee_pobj_check_access, Both, Either, FlagNames

LEMMA AlikeAccess ==
    \A a, b, d : Alike(a, b) /\ tee_pobj_check_access(d, b) => tee_pobj_check_access(d, a)
BY AlikeFacts

\* The list keeps its order, and every use its object, when places are renumbered by f.
Renumbered(f) ==
    /\ f \in [DOMAIN tee_pobjs' -> DOMAIN tee_pobjs] /\ 0 \notin DOMAIN tee_pobjs'
    /\ \A r, s \in DOMAIN tee_pobjs' : r < s <=> f[r] < f[s]
    /\ \A r, s \in DOMAIN tee_pobjs' : f[r] = f[s] => r = s
    /\ \A r \in DOMAIN tee_pobjs' :
         /\ tee_pobjs'[r].id = tee_pobjs[f[r]].id /\ tee_pobjs'[r].flags = tee_pobjs[f[r]].flags
         /\ tee_pobjs'[r].creating => tee_pobjs[f[r]].creating
    /\ \A u \in TA : obj'[u].po # 0 =>
         /\ obj'[u].po \in DOMAIN tee_pobjs' /\ f[obj'[u].po] = obj[u].po /\ obj[u].po # 0
         /\ Alike(obj'[u].flags, obj[u].flags)
    /\ \A u \in TA : pc'[u] \in Renaming =>
         /\ pc[u] \in Renaming /\ obj'[u].po # 0
         /\ po'[u] \in DOMAIN tee_pobjs' /\ f[po'[u]] = po[u]

LEMMA ListRenumbered ==
    ASSUME ListInv, NEW f, Renumbered(f)
    PROVE  ListInv'
<1> USE DEF Renumbered
<1>1. FlagsAgree'
  <2> SUFFICES ASSUME NEW u \in TA, obj'[u].po # 0
               PROVE  \/ tee_pobjs'[obj'[u].po].flags = obj'[u].flags \ {"overwrite"}
                      \/ tee_pobj_check_access(tee_pobjs'[obj'[u].po].flags, obj'[u].flags)
    BY DEF FlagsAgree, tee_pobj_check_access, Both, Either
  <2>1. tee_pobjs'[obj'[u].po].flags = tee_pobjs[obj[u].po].flags
    OBVIOUS
  <2>2. Alike(obj'[u].flags, obj[u].flags)
    OBVIOUS
  <2>3. \/ tee_pobjs[obj[u].po].flags = obj[u].flags \ {"overwrite"}
        \/ tee_pobj_check_access(tee_pobjs[obj[u].po].flags, obj[u].flags)
    BY DEF ListInv, FlagsAgree
  <2>4. CASE tee_pobjs[obj[u].po].flags = obj[u].flags \ {"overwrite"}
    BY <2>1, <2>2, <2>4 DEF Alike
  <2>5. CASE tee_pobj_check_access(tee_pobjs[obj[u].po].flags, obj[u].flags)
    <3>1. tee_pobj_check_access(tee_pobjs[obj[u].po].flags, obj'[u].flags)
      BY <2>2, <2>5, AlikeAccess, Zenon
    <3> QED
      BY <2>1, <3>1
  <2> QED
    BY <2>3, <2>4, <2>5
<1>2. HandlesAgree'
  <2> SUFFICES ASSUME NEW t \in TA, NEW u \in TA, t # u, obj'[t].po # 0, obj'[t].po = obj'[u].po
               PROVE  tee_pobj_check_access(obj'[t].flags, obj'[u].flags)
    BY DEF HandlesAgree, tee_pobj_check_access, Both, Either
  <2>1. tee_pobj_check_access(obj[t].flags, obj[u].flags)
    BY DEF ListInv, HandlesAgree
  <2> QED
    BY <2>1, AlikeFacts
<1>3. \A s \in DOMAIN tee_pobjs' : Reserved(f[s]) =>
         tee_pobjs'[s].flags = {"meta"} /\ \A u \in TA : obj'[u].po # s
  BY DEF Reserved
<1>4. NamesOK'
  <2> SUFFICES ASSUME NEW r \in DOMAIN tee_pobjs', NEW s \in DOMAIN tee_pobjs', r < s,
                      tee_pobjs'[r].id = tee_pobjs'[s].id
               PROVE  tee_pobjs'[s].flags = {"meta"} /\ \A u \in TA : obj'[u].po # s
    BY DEF NamesOK, Reserved
  <2>1. Reserved(f[s])
    BY DEF ListInv, NamesOK
  <2> QED
    BY <1>3, <2>1
<1>5. RenamesOK'
  <2>1. ASSUME NEW t \in TA, pc'[t] \in Renaming
        PROVE  /\ obj'[t].po < po'[t] /\ tee_pobjs'[po'[t]].flags = {"meta"}
               /\ \A u \in TA : obj'[u].po # po'[t]
               /\ \A r \in DOMAIN tee_pobjs' : tee_pobjs'[r].id = tee_pobjs'[po'[t]].id => r = po'[t]
    <3>1. /\ obj[t].po < po[t] /\ Reserved(po[t])
          /\ \A r \in DOMAIN tee_pobjs : tee_pobjs[r].id = tee_pobjs[po[t]].id => r = po[t]
      BY <2>1 DEF ListInv, RenamesOK
    <3>2. PICK p \in DOMAIN tee_pobjs' : p = po'[t] /\ f[p] = po[t]
      BY <2>1
    <3>3. obj'[t].po < p
      BY <2>1, <3>1, <3>2
    <3>4. tee_pobjs'[p].flags = {"meta"} /\ \A u \in TA : obj'[u].po # p
      BY <1>3, <3>1, <3>2
    <3>5. \A r \in DOMAIN tee_pobjs' : tee_pobjs'[r].id = tee_pobjs'[p].id => r = p
      BY <3>1, <3>2
    <3> QED
      BY <3>2, <3>3, <3>4, <3>5
  <2>2. ASSUME NEW t \in TA, NEW u \in TA, t # u, pc'[t] \in Renaming, pc'[u] \in Renaming
        PROVE  po'[t] # po'[u]
    BY <2>2 DEF ListInv, RenamesOK
  <2> QED
    BY <2>1, <2>2 DEF RenamesOK, Reserved
<1>6. AloneOK'
  BY DEF ListInv, AloneOK
<1> QED
  BY <1>1, <1>2, <1>4, <1>5, <1>6 DEF ListInv

\* The places that the instances keep, and renames.
UsesListed ==
    \A u \in TA : /\ obj[u].po # 0 => obj[u].po \in DOMAIN tee_pobjs
                  /\ pc[u] \in Renaming => po[u] \in DOMAIN tee_pobjs /\ obj[u].po # 0
                  /\ obj[u].po \in Nat /\ po[u] \in Nat

LEMMA UsesInList ==
    ASSUME RefInv
    PROVE  UsesListed
<1> SUFFICES ASSUME NEW u \in TA
             PROVE  /\ obj[u].po # 0 => obj[u].po \in DOMAIN tee_pobjs
                    /\ pc[u] \in Renaming => po[u] \in DOMAIN tee_pobjs /\ obj[u].po # 0
                    /\ obj[u].po \in Nat /\ po[u] \in Nat
  BY DEF UsesListed
<1>1. Frame(u) /\ obj[u] \in Obj /\ po[u] \in Places \cup {0}
  BY Known
<1>2. obj[u].po \in Nat /\ po[u] \in Nat
  BY <1>1, ObjTypes, Sizes
<1>3. pc[u] \in Renaming => po[u] # 0 /\ obj[u].po # 0
  BY <1>1 DEF Frame, Renaming, Second, Working
<1> QED
  BY <1>2, <1>3, InList

\* Places that stay as they are.
LEMMA SamePlaces ==
    ASSUME RefInv, ListInv, Len(tee_pobjs') = Len(tee_pobjs), tee_pobjs' \in Seq(Pobj),
           \A r \in DOMAIN tee_pobjs :
              /\ tee_pobjs'[r].id = tee_pobjs[r].id /\ tee_pobjs'[r].flags = tee_pobjs[r].flags
              /\ tee_pobjs'[r].creating => tee_pobjs[r].creating,
           \A u \in TA : /\ obj'[u].po = obj[u].po /\ Alike(obj'[u].flags, obj[u].flags)
                         /\ pc'[u] \in Renaming => pc[u] \in Renaming /\ po'[u] = po[u]
    PROVE  ListInv'
<1> DEFINE f == [r \in DOMAIN tee_pobjs |-> r]
<1>1. /\ DOMAIN tee_pobjs = 1 .. Len(tee_pobjs) /\ Len(tee_pobjs) \in Nat
      /\ DOMAIN tee_pobjs' = DOMAIN tee_pobjs
  BY Types, Known
<1>2. \A u \in TA : /\ obj[u].po # 0 => obj[u].po \in DOMAIN tee_pobjs
                    /\ pc[u] \in Renaming => obj[u].po # 0 /\ po[u] \in DOMAIN tee_pobjs
  BY UsesInList DEF UsesListed
<1>3. /\ f \in [DOMAIN tee_pobjs' -> DOMAIN tee_pobjs] /\ 0 \notin DOMAIN tee_pobjs'
      /\ \A r \in DOMAIN tee_pobjs : f[r] = r
  BY <1>1
<1> HIDE DEF f
<1>4. Renumbered(f)
  BY <1>1, <1>2, <1>3 DEF Renumbered
<1> QED
  BY <1>4, ListRenumbered

\* A use of s is given up, and the places behind move up if it was the last.
LEMMA ReleasePlaces ==
    ASSUME RefInv, ListInv, NEW t \in TA, NEW s \in DOMAIN tee_pobjs, tee_pobj_release(s),
           \/ obj[t].po = s /\ obj'[t].po = 0 /\ \A u \in TA : po'[u] = Moved(s, po[u])
           \/ po[t] = s /\ po'[t] = 0 /\ \A u \in TA \ {t} : po'[u] = Moved(s, po[u]),
           \A u \in TA : \/ u = t /\ obj[t].po = s /\ obj'[t].po = 0
                         \/ obj'[u].po = Moved(s, obj[u].po) /\ obj'[u].flags = obj[u].flags,
           \A u \in TA : pc'[u] \in Renaming => pc[u] \in Renaming /\ u # t
    PROVE  ListInv'
<1>0. /\ DOMAIN tee_pobjs = 1 .. Len(tee_pobjs) /\ Len(tee_pobjs) \in Nat
      /\ tee_pobjs \in Seq(Pobj) /\ s \in Nat
  BY Types, Known
<1>1. \A u \in TA : /\ obj[u].po # 0 => obj[u].po \in DOMAIN tee_pobjs
                    /\ pc[u] \in Renaming => obj[u].po # 0 /\ po[u] \in DOMAIN tee_pobjs
                    /\ obj[u].po \in Nat /\ po[u] \in Nat
  BY UsesInList DEF UsesListed
<1>2. \A a : Alike(a, a)
  BY DEF Alike
<1>3. CASE tee_pobjs[s].refcnt > 1 /\ Recounted(s, tee_pobjs[s].refcnt - 1)
  <2> DEFINE f == [r \in DOMAIN tee_pobjs |-> r]
  <2>1. \A x : Moved(s, x) = x
    BY <1>3 DEF Moved
  <2>2. /\ DOMAIN tee_pobjs' = DOMAIN tee_pobjs
        /\ \A r \in DOMAIN tee_pobjs :
             /\ tee_pobjs'[r].id = tee_pobjs[r].id /\ tee_pobjs'[r].flags = tee_pobjs[r].flags
             /\ tee_pobjs'[r].creating = tee_pobjs[r].creating
    BY <1>0, <1>3 DEF Recounted
  <2>3. /\ f \in [DOMAIN tee_pobjs' -> DOMAIN tee_pobjs] /\ 0 \notin DOMAIN tee_pobjs'
        /\ \A r \in DOMAIN tee_pobjs : f[r] = r
    BY <1>0, <2>2
  <2> HIDE DEF f
  <2>4. Renumbered(f)
    <3>1. \A u \in TA : obj'[u].po # 0 => obj'[u].po = obj[u].po /\ obj'[u].flags = obj[u].flags
      BY <2>1
    <3>2. \A u \in TA : pc'[u] \in Renaming =>
             pc[u] \in Renaming /\ po'[u] = po[u] /\ obj'[u].po = obj[u].po
      BY <2>1
    <3> QED
      BY <1>1, <1>2, <2>2, <2>3, <3>1, <3>2 DEF Renumbered
  <2> QED
    BY <2>4, ListRenumbered
<1>4. CASE Drops(s)
  <2>0. /\ tee_pobjs[s].refcnt = 1 /\ Len(tee_pobjs') = Len(tee_pobjs) - 1
        /\ tee_pobjs' \in Seq(Pobj)
        /\ \A r \in 1 .. Len(tee_pobjs) - 1 :
             tee_pobjs'[r] = IF r < s THEN tee_pobjs[r] ELSE tee_pobjs[r + 1]
    BY <1>4 DEF Drops
  <2>1. \A x \in Nat : Moved(s, x) = IF x > s THEN x - 1 ELSE x
    BY <2>0 DEF Moved
  <2>2. DOMAIN tee_pobjs' = 1 .. Len(tee_pobjs) - 1
    BY <1>0, <2>0
  <2> DEFINE f == [r \in DOMAIN tee_pobjs' |-> IF r < s THEN r ELSE r + 1]
  <2>3. /\ f \in [DOMAIN tee_pobjs' -> DOMAIN tee_pobjs] /\ 0 \notin DOMAIN tee_pobjs'
        /\ \A r \in DOMAIN tee_pobjs' : f[r] = IF r < s THEN r ELSE r + 1
    BY <1>0, <2>2
  <2> HIDE DEF f
  <2>4. /\ \A r, q \in DOMAIN tee_pobjs' : r < q <=> f[r] < f[q]
        /\ \A r, q \in DOMAIN tee_pobjs' : f[r] = f[q] => r = q
    BY <1>0, <2>2, <2>3
  <2>5. \A r \in DOMAIN tee_pobjs' : tee_pobjs'[r] = tee_pobjs[f[r]]
    BY <1>0, <2>0, <2>2, <2>3
  <2>6. \A x \in DOMAIN tee_pobjs : x # s =>
           Moved(s, x) \in DOMAIN tee_pobjs' /\ f[Moved(s, x)] = x
    BY <1>0, <2>1, <2>2, <2>3
  <2>7. \A u \in TA : obj'[u].po # 0 => obj[u].po # 0 /\ obj[u].po # s
                        /\ obj'[u].po = Moved(s, obj[u].po) /\ obj'[u].flags = obj[u].flags
    <3> SUFFICES ASSUME NEW u \in TA, obj'[u].po # 0
                 PROVE  obj[u].po # 0 /\ obj[u].po # s /\ obj'[u].po = Moved(s, obj[u].po)
                          /\ obj'[u].flags = obj[u].flags
      OBVIOUS
    <3>1. obj'[u].po = Moved(s, obj[u].po) /\ obj'[u].flags = obj[u].flags
      OBVIOUS
    <3>2. obj[u].po # 0
      BY <1>0, <2>1, <3>1
    <3>3. obj[u].po # s
      BY <2>0, LastUse
    <3> QED
      BY <3>1, <3>2, <3>3
  <2>8. \A u \in TA : pc'[u] \in Renaming =>
           /\ pc[u] \in Renaming /\ obj'[u].po # 0 /\ po[u] # s /\ po'[u] = Moved(s, po[u])
    <3> SUFFICES ASSUME NEW u \in TA, pc'[u] \in Renaming
                 PROVE  /\ pc[u] \in Renaming /\ obj'[u].po # 0 /\ po[u] # s
                        /\ po'[u] = Moved(s, po[u])
      OBVIOUS
    <3>1. pc[u] \in Renaming /\ u # t /\ po'[u] = Moved(s, po[u])
      OBVIOUS
    <3>2. po[u] # s /\ obj[u].po # s
      BY <2>0, <3>1, LastUse
    <3>3. obj'[u].po = Moved(s, obj[u].po) /\ obj[u].po \in DOMAIN tee_pobjs
      BY <1>1, <3>1
    <3>4. obj'[u].po \in DOMAIN tee_pobjs'
      BY <2>6, <3>2, <3>3
    <3> QED
      BY <2>3, <3>1, <3>2, <3>4
  <2>9. Renumbered(f)
    BY <1>1, <1>2, <2>3, <2>4, <2>5, <2>6, <2>7, <2>8 DEF Renumbered
  <2> QED
    BY <2>9, ListRenumbered
<1> QED
  BY <1>3, <1>4, ReleaseFields, Known

\* The object that tee_pobj_get() puts at the end of the list.
Added(id, flags, s) ==
    /\ DOMAIN tee_pobjs' = DOMAIN tee_pobjs \cup {s} /\ s = Len(tee_pobjs) + 1
    /\ s \notin DOMAIN tee_pobjs
    /\ tee_pobjs'[s].id = id /\ tee_pobjs'[s].flags = flags \ {"overwrite"}
    /\ \A r \in DOMAIN tee_pobjs : tee_pobjs[r].id # id
    /\ \A r \in DOMAIN tee_pobjs : tee_pobjs'[r] = tee_pobjs[r]

LEMMA GetAdds ==
    ASSUME RefInv, NEW id, NEW flags, NEW usage, NEW s, Adds(id, flags, usage, s)
    PROVE  Added(id, flags, s)
<1>1. DOMAIN tee_pobjs = 1 .. Len(tee_pobjs) /\ Len(tee_pobjs) \in Nat
  BY Types, Known
<1>2. /\ s = Len(tee_pobjs) + 1 /\ Len(tee_pobjs') = s
      /\ \A r \in DOMAIN tee_pobjs : tee_pobjs'[r] = tee_pobjs[r]
      /\ tee_pobjs' \in Seq(Counted) /\ \A r \in DOMAIN tee_pobjs : tee_pobjs[r].id # id
      /\ tee_pobjs'[s].id = id /\ tee_pobjs'[s].flags = flags \ {"overwrite"}
  BY DEF Adds
<1>3. DOMAIN tee_pobjs' = 1 .. Len(tee_pobjs) + 1
  BY <1>2
<1>4. DOMAIN tee_pobjs' = DOMAIN tee_pobjs \cup {s} /\ s \notin DOMAIN tee_pobjs
  BY <1>1, <1>2, <1>3
<1> QED
  BY <1>2, <1>4 DEF Added

\* What tee_pobj_get() leaves alone: the objects that were in the list.
LEMMA GetKeeps ==
    ASSUME RefInv, NEW id \in Id, NEW flags \in SUBSET FlagNames, NEW usage, NEW s,
           Joins(id, flags, usage, s) \/ Adds(id, flags, usage, s)
    PROVE  /\ DOMAIN tee_pobjs = 1 .. Len(tee_pobjs) /\ Len(tee_pobjs) \in Nat
           /\ \A r \in DOMAIN tee_pobjs :
                /\ tee_pobjs'[r].id = tee_pobjs[r].id /\ tee_pobjs'[r].flags = tee_pobjs[r].flags
                /\ tee_pobjs'[r].creating = tee_pobjs[r].creating
           /\ \A u \in TA : /\ obj[u].po # 0 => obj[u].po \in DOMAIN tee_pobjs
                            /\ pc[u] \in Renaming => po[u] \in DOMAIN tee_pobjs /\ obj[u].po # 0
                            /\ obj[u].po \in Nat /\ po[u] \in Nat
           /\ Joins(id, flags, usage, s) => DOMAIN tee_pobjs' = DOMAIN tee_pobjs
<1>1. DOMAIN tee_pobjs = 1 .. Len(tee_pobjs) /\ Len(tee_pobjs) \in Nat
  BY Types, Known
<1>2. \A u \in TA : /\ obj[u].po # 0 => obj[u].po \in DOMAIN tee_pobjs
                    /\ pc[u] \in Renaming => po[u] \in DOMAIN tee_pobjs /\ obj[u].po # 0
                    /\ obj[u].po \in Nat /\ po[u] \in Nat
  BY UsesInList DEF UsesListed
<1>3. CASE Joins(id, flags, usage, s)
  <2>1. Recounted(s, tee_pobjs[s].refcnt + 1)
    BY <1>3 DEF Joins
  <2>2. ~Adds(id, flags, usage, s)
    BY <1>1, <1>3 DEF Joins, Adds
  <2> QED
    BY <1>1, <1>2, <2>1, <2>2 DEF Recounted
<1>4. CASE Adds(id, flags, usage, s)
  <2>1. ~Joins(id, flags, usage, s)
    BY <1>1, <1>4 DEF Joins, Adds
  <2>2. \A r \in DOMAIN tee_pobjs : tee_pobjs'[r] = tee_pobjs[r]
    BY <1>4, GetAdds DEF Added
  <2> QED
    BY <1>1, <1>2, <2>1, <2>2
<1> QED
  BY <1>3, <1>4

\* t gets the object s and a handle of it.
LEMMA GetHandle ==
    ASSUME RefInv, ListInv, NEW t \in TA, NEW id \in Id, NEW flags \in SUBSET FlagNames,
           NEW usage \in {"open", "create"}, NEW s,
           Joins(id, flags, usage, s) \/ Adds(id, flags, usage, s),
           obj[t].po = 0, obj'[t].po = s, obj'[t].flags = flags,
           \A u \in TA \ {t} : obj'[u] = obj[u],
           \A u \in TA : pc'[u] \in Renaming => pc[u] \in Renaming /\ po'[u] = po[u] /\ u # t
    PROVE  ListInv'
<1>k. /\ DOMAIN tee_pobjs = 1 .. Len(tee_pobjs) /\ Len(tee_pobjs) \in Nat
      /\ \A r \in DOMAIN tee_pobjs :
           /\ tee_pobjs'[r].id = tee_pobjs[r].id /\ tee_pobjs'[r].flags = tee_pobjs[r].flags
           /\ tee_pobjs'[r].creating = tee_pobjs[r].creating
      /\ \A u \in TA : /\ obj[u].po # 0 => obj[u].po \in DOMAIN tee_pobjs
                       /\ pc[u] \in Renaming => po[u] \in DOMAIN tee_pobjs /\ obj[u].po # 0
                       /\ obj[u].po \in Nat /\ po[u] \in Nat
  BY GetKeeps
<1>j. Joins(id, flags, usage, s) => DOMAIN tee_pobjs' = DOMAIN tee_pobjs
  BY GetKeeps
<1> USE <1>k, <1>j
<1>0. \A u \in TA \ {t} : obj'[u].po = obj[u].po /\ obj'[u].flags = obj[u].flags
  OBVIOUS
<1>1. CASE Joins(id, flags, usage, s)
  <2>0. /\ s \in DOMAIN tee_pobjs /\ tee_pobj_check_access(tee_pobjs[s].flags, flags)
        /\ ~tee_pobjs[s].creating
    BY <1>1 DEF Joins, Admitted
  <2>1. "meta" \notin tee_pobjs[s].flags
    BY <2>0, AccessFacts
  <2>2. \A r \in DOMAIN tee_pobjs : Reserved(r) => r # s
    BY <2>1 DEF Reserved
  <2>3. \A r \in DOMAIN tee_pobjs : Reserved(r) =>
           tee_pobjs'[r].flags = {"meta"} /\ \A u \in TA : obj'[u].po # r
    BY <2>2, <1>0 DEF Reserved
  <2>4. FlagsAgree'
    <3> SUFFICES ASSUME NEW u \in TA, obj'[u].po # 0
                 PROVE  \/ tee_pobjs'[obj'[u].po].flags = obj'[u].flags \ {"overwrite"}
                        \/ tee_pobj_check_access(tee_pobjs'[obj'[u].po].flags, obj'[u].flags)
      BY DEF FlagsAgree, tee_pobj_check_access, Both, Either
    <3>1. CASE u = t
      BY <2>0, <3>1
    <3>2. CASE u # t
      <4>1. tee_pobjs'[obj[u].po].flags = tee_pobjs[obj[u].po].flags /\ obj[u].po # 0
        BY <1>0, <3>2
      <4>2. \/ tee_pobjs[obj[u].po].flags = obj[u].flags \ {"overwrite"}
            \/ tee_pobj_check_access(tee_pobjs[obj[u].po].flags, obj[u].flags)
        BY <4>1 DEF ListInv, FlagsAgree
      <4> QED
        BY <1>0, <3>2, <4>1, <4>2
    <3> QED
      BY <3>1, <3>2
  <2>5. \A u \in TA \ {t} : obj[u].po = s => tee_pobj_check_access(obj[u].flags, flags)
    <3> SUFFICES ASSUME NEW u \in TA \ {t}, obj[u].po = s
                 PROVE  tee_pobj_check_access(obj[u].flags, flags)
      OBVIOUS
    <3>1. s # 0
      BY <2>0
    <3>2. \/ tee_pobjs[s].flags = obj[u].flags \ {"overwrite"}
          \/ tee_pobj_check_access(tee_pobjs[s].flags, obj[u].flags)
      BY <3>1 DEF ListInv, FlagsAgree
    <3>3. CASE tee_pobjs[s].flags = obj[u].flags \ {"overwrite"}
      <4>1. tee_pobj_check_access(obj[u].flags \ {"overwrite"}, flags)
        BY <2>0, <3>3
      <4> QED
        BY <4>1 DEF tee_pobj_check_access, Both, Either
    <3>4. CASE tee_pobj_check_access(tee_pobjs[s].flags, obj[u].flags)
      BY <2>0, <3>4, AccessFacts, Zenon
    <3> QED
      BY <3>2, <3>3, <3>4
  <2>6. HandlesAgree'
    <3> SUFFICES ASSUME NEW v \in TA, NEW u \in TA, v # u, obj'[v].po # 0, obj'[v].po = obj'[u].po
                 PROVE  tee_pobj_check_access(obj'[v].flags, obj'[u].flags)
      BY DEF HandlesAgree, tee_pobj_check_access, Both, Either
    <3>1. CASE v # t /\ u # t
      BY <1>0, <3>1 DEF ListInv, HandlesAgree
    <3>2. CASE u = t
      BY <1>0, <2>5, <3>2
    <3>3. CASE v = t
      <4>1. tee_pobj_check_access(obj'[u].flags, obj'[v].flags)
        BY <1>0, <2>5, <3>3
      <4> QED
        BY <4>1, AccessFacts
    <3> QED
      BY <3>1, <3>2, <3>3
  <2>7. NamesOK'
    BY <1>1, <2>3 DEF ListInv, NamesOK, Reserved
  <2>8. RenamesOK'
    <3>1. ASSUME NEW u \in TA, pc'[u] \in Renaming
          PROVE  /\ obj'[u].po < po'[u] /\ tee_pobjs'[po'[u]].flags = {"meta"}
                 /\ \A v \in TA : obj'[v].po # po'[u]
                 /\ \A r \in DOMAIN tee_pobjs' : tee_pobjs'[r].id = tee_pobjs'[po'[u]].id => r = po'[u]
      BY <1>0, <1>1, <2>3, <3>1 DEF ListInv, RenamesOK
    <3>2. \A v, u \in TA : v # u /\ pc'[v] \in Renaming /\ pc'[u] \in Renaming => po'[v] # po'[u]
      BY DEF ListInv, RenamesOK
    <3> QED
      BY <3>1, <3>2 DEF RenamesOK, Reserved
  <2>9. AloneOK'
    BY <1>0, <2>0 DEF ListInv, AloneOK
  <2> QED
    BY <2>4, <2>6, <2>7, <2>8, <2>9 DEF ListInv
<1>2. CASE Adds(id, flags, usage, s)
  <2>a. /\ DOMAIN tee_pobjs' = DOMAIN tee_pobjs \cup {s} /\ s = Len(tee_pobjs) + 1
        /\ s \notin DOMAIN tee_pobjs
        /\ tee_pobjs'[s].id = id /\ tee_pobjs'[s].flags = flags \ {"overwrite"}
        /\ \A r \in DOMAIN tee_pobjs : tee_pobjs[r].id # id
    <3>1. Added(id, flags, s)
      BY <1>2, GetAdds, Zenon
    <3> QED
      BY <3>1 DEF Added
  <2> USE <2>a
  <2>0. \A u \in TA \ {t} : obj'[u].po # s /\ obj[u].po # s
    BY <1>0, <1>2
  <2>1. \A r \in DOMAIN tee_pobjs : Reserved(r) =>
           tee_pobjs'[r].flags = {"meta"} /\ \A u \in TA : obj'[u].po # r
    BY <1>0, <1>2 DEF Reserved
  <2>2. FlagsAgree'
    <3> SUFFICES ASSUME NEW u \in TA, obj'[u].po # 0
                 PROVE  \/ tee_pobjs'[obj'[u].po].flags = obj'[u].flags \ {"overwrite"}
                        \/ tee_pobj_check_access(tee_pobjs'[obj'[u].po].flags, obj'[u].flags)
      BY DEF FlagsAgree, tee_pobj_check_access, Both, Either
    <3>1. CASE u = t
      BY <1>2, <3>1
    <3>2. CASE u # t
      <4>1. tee_pobjs'[obj[u].po].flags = tee_pobjs[obj[u].po].flags /\ obj[u].po # 0
        BY <1>0, <3>2
      <4>2. \/ tee_pobjs[obj[u].po].flags = obj[u].flags \ {"overwrite"}
            \/ tee_pobj_check_access(tee_pobjs[obj[u].po].flags, obj[u].flags)
        BY <4>1 DEF ListInv, FlagsAgree
      <4> QED
        BY <1>0, <3>2, <4>1, <4>2
    <3> QED
      BY <3>1, <3>2
  <2>3. HandlesAgree'
    <3> SUFFICES ASSUME NEW v \in TA, NEW u \in TA, v # u, obj'[v].po # 0, obj'[v].po = obj'[u].po
                 PROVE  tee_pobj_check_access(obj'[v].flags, obj'[u].flags)
      BY DEF HandlesAgree, tee_pobj_check_access, Both, Either
    <3>1. v # t /\ u # t
      BY <2>0
    <3> QED
      BY <1>0, <3>1 DEF ListInv, HandlesAgree
  <2>4. NamesOK'
    <3> SUFFICES ASSUME NEW r \in DOMAIN tee_pobjs', NEW q \in DOMAIN tee_pobjs', r < q,
                        tee_pobjs'[r].id = tee_pobjs'[q].id
                 PROVE  tee_pobjs'[q].flags = {"meta"} /\ \A u \in TA : obj'[u].po # q
      BY DEF NamesOK, Reserved
    <3>1. r # s /\ q # s /\ r \in DOMAIN tee_pobjs /\ q \in DOMAIN tee_pobjs
      BY <1>2
    <3>2. Reserved(q)
      BY <3>1 DEF ListInv, NamesOK
    <3> QED
      BY <2>1, <3>1, <3>2
  <2>5. RenamesOK'
    <3>1. ASSUME NEW u \in TA, pc'[u] \in Renaming
          PROVE  /\ obj'[u].po < po'[u] /\ tee_pobjs'[po'[u]].flags = {"meta"}
                 /\ \A v \in TA : obj'[v].po # po'[u]
                 /\ \A r \in DOMAIN tee_pobjs' : tee_pobjs'[r].id = tee_pobjs'[po'[u]].id => r = po'[u]
      BY <1>0, <1>2, <2>1, <3>1 DEF ListInv, RenamesOK
    <3>2. \A v, u \in TA : v # u /\ pc'[v] \in Renaming /\ pc'[u] \in Renaming => po'[v] # po'[u]
      BY DEF ListInv, RenamesOK
    <3> QED
      BY <3>1, <3>2 DEF RenamesOK, Reserved
  <2>6. AloneOK'
    <3> SUFFICES ASSUME NEW v \in TA, NEW u \in TA, v # u, obj'[v].po # 0, obj'[v].po = obj'[u].po
                 PROVE  ~tee_pobjs'[obj'[v].po].creating
      BY DEF AloneOK
    <3>1. v # t /\ u # t
      BY <2>0
    <3> QED
      BY <1>0, <3>1 DEF ListInv, AloneOK
  <2> QED
    BY <2>2, <2>3, <2>4, <2>5, <2>6 DEF ListInv
<1> QED
  BY <1>1, <1>2

\* t gets a second object: an enumeration step takes any, a rename one of its own.
LEMMA GetSecond ==
    ASSUME RefInv, ListInv, NEW t \in TA, NEW id \in Id, NEW flags \in SUBSET FlagNames,
           NEW usage, NEW s, Joins(id, flags, usage, s) \/ Adds(id, flags, usage, s),
           \A u \in TA : obj'[u] = obj[u],
           \A u \in TA \ {t} : pc'[u] = pc[u] /\ po'[u] = po[u],
           \/ pc'[t] \notin Renaming
           \/ usage = "rename" /\ flags = {"meta"} /\ po'[t] = s /\ obj[t].po # 0
    PROVE  ListInv'
<1>k. /\ DOMAIN tee_pobjs = 1 .. Len(tee_pobjs) /\ Len(tee_pobjs) \in Nat
      /\ \A r \in DOMAIN tee_pobjs :
           /\ tee_pobjs'[r].id = tee_pobjs[r].id /\ tee_pobjs'[r].flags = tee_pobjs[r].flags
           /\ tee_pobjs'[r].creating = tee_pobjs[r].creating
      /\ \A u \in TA : /\ obj[u].po # 0 => obj[u].po \in DOMAIN tee_pobjs
                       /\ pc[u] \in Renaming => po[u] \in DOMAIN tee_pobjs /\ obj[u].po # 0
                       /\ obj[u].po \in Nat /\ po[u] \in Nat
  BY GetKeeps
<1> USE <1>k
<1>0. \A u \in TA : obj'[u].po = obj[u].po /\ obj'[u].flags = obj[u].flags
  OBVIOUS
<1>3. \A r \in DOMAIN tee_pobjs : Reserved(r) =>
         tee_pobjs'[r].flags = {"meta"} /\ \A u \in TA : obj'[u].po # r
  BY <1>0 DEF Reserved
<1>4. FlagsAgree'
  <2> SUFFICES ASSUME NEW u \in TA, obj'[u].po # 0
               PROVE  \/ tee_pobjs'[obj'[u].po].flags = obj'[u].flags \ {"overwrite"}
                      \/ tee_pobj_check_access(tee_pobjs'[obj'[u].po].flags, obj'[u].flags)
    BY DEF FlagsAgree, tee_pobj_check_access, Both, Either
  <2>1. tee_pobjs'[obj[u].po].flags = tee_pobjs[obj[u].po].flags /\ obj[u].po # 0
    BY <1>0
  <2>2. \/ tee_pobjs[obj[u].po].flags = obj[u].flags \ {"overwrite"}
        \/ tee_pobj_check_access(tee_pobjs[obj[u].po].flags, obj[u].flags)
    BY <2>1 DEF ListInv, FlagsAgree
  <2> QED
    BY <1>0, <2>1, <2>2
<1>5. HandlesAgree'
  <2> SUFFICES ASSUME NEW v \in TA, NEW u \in TA, v # u, obj'[v].po # 0, obj'[v].po = obj'[u].po
               PROVE  tee_pobj_check_access(obj'[v].flags, obj'[u].flags)
    BY DEF HandlesAgree, tee_pobj_check_access, Both, Either
  <2> QED
    BY <1>0 DEF ListInv, HandlesAgree
<1>6. AloneOK'
  BY <1>0 DEF ListInv, AloneOK
<1>7. CASE Joins(id, flags, usage, s)
  <2>1. pc'[t] \notin Renaming
    <3> SUFFICES ASSUME usage = "rename", flags = {"meta"}
                 PROVE  FALSE
      OBVIOUS
    <3>1. tee_pobj_check_access(tee_pobjs[s].flags, {"meta"})
      BY <1>7 DEF Joins, Admitted
    <3> QED
      BY <3>1 DEF tee_pobj_check_access, Either
  <2>2. DOMAIN tee_pobjs' = DOMAIN tee_pobjs
    BY <1>7, GetKeeps
  <2>3. NamesOK'
    BY <1>3, <2>2 DEF ListInv, NamesOK, Reserved
  <2>4. \A u \in TA : pc'[u] \in Renaming => pc[u] \in Renaming /\ po'[u] = po[u]
    BY <2>1
  <2>5. RenamesOK'
    <3>1. ASSUME NEW u \in TA, pc'[u] \in Renaming
          PROVE  /\ obj'[u].po < po'[u] /\ tee_pobjs'[po'[u]].flags = {"meta"}
                 /\ \A v \in TA : obj'[v].po # po'[u]
                 /\ \A r \in DOMAIN tee_pobjs' : tee_pobjs'[r].id = tee_pobjs'[po'[u]].id => r = po'[u]
      BY <1>0, <1>3, <2>2, <2>4, <3>1 DEF ListInv, RenamesOK
    <3>2. \A v, u \in TA : v # u /\ pc'[v] \in Renaming /\ pc'[u] \in Renaming => po'[v] # po'[u]
      BY <2>4 DEF ListInv, RenamesOK
    <3> QED
      BY <3>1, <3>2 DEF RenamesOK, Reserved
  <2> QED
    BY <1>4, <1>5, <1>6, <2>3, <2>5 DEF ListInv
<1>8. CASE Adds(id, flags, usage, s)
  <2>a. /\ DOMAIN tee_pobjs' = DOMAIN tee_pobjs \cup {s} /\ s = Len(tee_pobjs) + 1
        /\ s \notin DOMAIN tee_pobjs
        /\ tee_pobjs'[s].id = id /\ tee_pobjs'[s].flags = flags \ {"overwrite"}
        /\ \A r \in DOMAIN tee_pobjs : tee_pobjs[r].id # id
    <3>1. Added(id, flags, s)
      BY <1>8, GetAdds, Zenon
    <3> QED
      BY <3>1 DEF Added
  <2> USE <2>a
  <2>4. NamesOK'
    <3> SUFFICES ASSUME NEW r \in DOMAIN tee_pobjs', NEW q \in DOMAIN tee_pobjs', r < q,
                        tee_pobjs'[r].id = tee_pobjs'[q].id
                 PROVE  tee_pobjs'[q].flags = {"meta"} /\ \A u \in TA : obj'[u].po # q
      BY DEF NamesOK, Reserved
    <3>1. r # s /\ q # s /\ r \in DOMAIN tee_pobjs /\ q \in DOMAIN tee_pobjs
      OBVIOUS
    <3>2. Reserved(q)
      BY <3>1 DEF ListInv, NamesOK
    <3> QED
      BY <1>3, <3>1, <3>2
  <2>5. RenamesOK'
    <3>1. ASSUME NEW u \in TA, pc'[u] \in Renaming
          PROVE  /\ obj'[u].po < po'[u] /\ tee_pobjs'[po'[u]].flags = {"meta"}
                 /\ \A v \in TA : obj'[v].po # po'[u]
                 /\ \A r \in DOMAIN tee_pobjs' : tee_pobjs'[r].id = tee_pobjs'[po'[u]].id => r = po'[u]
      <4>1. CASE u # t
        BY <1>0, <1>3, <3>1, <4>1 DEF ListInv, RenamesOK
      <4>2. CASE u = t
        <5>1. flags = {"meta"} /\ po'[t] = s /\ obj[t].po # 0
          BY <3>1, <4>2
        <5>2. {"meta"} \ {"overwrite"} = {"meta"}
          OBVIOUS
        <5>3. tee_pobjs'[s].flags = {"meta"}
          BY <5>1, <5>2
        <5>4. obj'[t].po < s /\ \A v \in TA : obj'[v].po # s
          BY <1>0, <5>1
        <5> QED
          BY <4>2, <5>1, <5>3, <5>4
      <4> QED
        BY <4>1, <4>2
    <3>2. ASSUME NEW v \in TA, NEW u \in TA, v # u, pc'[v] \in Renaming, pc'[u] \in Renaming
          PROVE  po'[v] # po'[u]
      BY <3>2 DEF ListInv, RenamesOK
    <3> QED
      BY <3>1, <3>2 DEF RenamesOK, Reserved
  <2> QED
    BY <1>4, <1>5, <1>6, <2>4, <2>5 DEF ListInv
<1> QED
  BY <1>7, <1>8

\* The object takes its new name: it has one handle, and the place that kept the name is
\* behind it and used by no handle.
LEMMA NewName ==
    ASSUME RefInv, ListInv, NEW t \in TA, pc[t] \in Renaming, pc'[t] \notin Renaming,
           \A u \in TA \ {t} : pc'[u] = pc[u], UNCHANGED <<obj, po>>,
           tee_pobjs' \in Seq(Pobj), Len(tee_pobjs') = Len(tee_pobjs),
           tee_pobjs[obj[t].po].refcnt = 1,
           \A r \in DOMAIN tee_pobjs :
              /\ tee_pobjs'[r].id = tee_pobjs[IF r = obj[t].po THEN po[t] ELSE r].id
              /\ tee_pobjs'[r].flags = tee_pobjs[r].flags
              /\ tee_pobjs'[r].creating = tee_pobjs[r].creating
    PROVE  ListInv'
<1>1. /\ DOMAIN tee_pobjs = 1 .. Len(tee_pobjs) /\ Len(tee_pobjs) \in Nat
      /\ DOMAIN tee_pobjs' = DOMAIN tee_pobjs
  BY Types, Known
<1>2. \A u \in TA : /\ obj[u].po # 0 => obj[u].po \in DOMAIN tee_pobjs
                    /\ pc[u] \in Renaming => obj[u].po # 0 /\ po[u] \in DOMAIN tee_pobjs
                    /\ obj[u].po \in Nat /\ po[u] \in Nat
  BY UsesInList DEF UsesListed
<1>3. PICK o \in DOMAIN tee_pobjs, q \in DOMAIN tee_pobjs : o = obj[t].po /\ q = po[t]
  BY <1>2
<1>4. \A a \in TA : (obj[a].po = o => a = t) /\ po[a] # o
  BY <1>3, LastUse
<1>5. /\ o < q /\ Reserved(q)
      /\ \A r \in DOMAIN tee_pobjs : tee_pobjs[r].id = tee_pobjs[q].id => r = q
  BY <1>3 DEF ListInv, RenamesOK
<1>6. \A r \in DOMAIN tee_pobjs :
         /\ r # o => tee_pobjs'[r].id = tee_pobjs[r].id
         /\ tee_pobjs'[o].id = tee_pobjs[q].id
         /\ tee_pobjs'[r].flags = tee_pobjs[r].flags
         /\ tee_pobjs'[r].creating = tee_pobjs[r].creating
  BY <1>3
<1>7. FlagsAgree'
  <2> SUFFICES ASSUME NEW u \in TA, obj[u].po # 0
               PROVE  \/ tee_pobjs'[obj[u].po].flags = obj[u].flags \ {"overwrite"}
                      \/ tee_pobj_check_access(tee_pobjs'[obj[u].po].flags, obj[u].flags)
    BY DEF FlagsAgree, tee_pobj_check_access, Both, Either
  <2>1. tee_pobjs'[obj[u].po].flags = tee_pobjs[obj[u].po].flags
    BY <1>2, <1>6
  <2>2. \/ tee_pobjs[obj[u].po].flags = obj[u].flags \ {"overwrite"}
        \/ tee_pobj_check_access(tee_pobjs[obj[u].po].flags, obj[u].flags)
    BY DEF ListInv, FlagsAgree
  <2> QED
    BY <2>1, <2>2
<1>8. HandlesAgree'
  <2> SUFFICES ASSUME NEW v \in TA, NEW u \in TA, v # u, obj[v].po # 0, obj[v].po = obj[u].po
               PROVE  tee_pobj_check_access(obj[v].flags, obj[u].flags)
    BY DEF HandlesAgree, tee_pobj_check_access, Both, Either
  <2> QED
    BY DEF ListInv, HandlesAgree
<1>9. AloneOK'
  BY <1>2, <1>6 DEF ListInv, AloneOK
<1>10. \A r \in DOMAIN tee_pobjs : Reserved(r) =>
          tee_pobjs'[r].flags = {"meta"} /\ \A u \in TA : obj'[u].po # r
  BY <1>6 DEF Reserved
<1>11. NamesOK'
  <2> SUFFICES ASSUME NEW r \in DOMAIN tee_pobjs, NEW s \in DOMAIN tee_pobjs, r < s,
                      tee_pobjs'[r].id = tee_pobjs'[s].id
               PROVE  tee_pobjs'[s].flags = {"meta"} /\ \A u \in TA : obj'[u].po # s
    BY <1>1 DEF NamesOK, Reserved
  <2>1. CASE r # o /\ s # o
    BY <1>6, <1>10, <2>1 DEF ListInv, NamesOK
  <2>2. CASE r = o
    <3>1. s # o
      BY <1>1, <2>2
    <3>2. s = q
      BY <1>5, <1>6, <2>2, <3>1
    <3> QED
      BY <1>5, <1>10, <3>2
  <2>3. CASE s = o
    <3>1. r # o
      BY <1>1, <2>3
    <3>2. r = q
      BY <1>5, <1>6, <2>3, <3>1
    <3> QED
      BY <1>1, <1>5, <2>3, <3>2
  <2> QED
    BY <2>1, <2>2, <2>3
<1>12. RenamesOK'
  <2>1. ASSUME NEW u \in TA, pc'[u] \in Renaming
        PROVE  /\ obj'[u].po < po'[u] /\ tee_pobjs'[po'[u]].flags = {"meta"}
               /\ \A v \in TA : obj'[v].po # po'[u]
               /\ \A r \in DOMAIN tee_pobjs' : tee_pobjs'[r].id = tee_pobjs'[po'[u]].id => r = po'[u]
    <3>1. u # t /\ pc[u] \in Renaming
      BY <2>1
    <3>2. /\ obj[u].po < po[u] /\ Reserved(po[u]) /\ po[u] # q /\ po[u] # o
          /\ po[u] \in DOMAIN tee_pobjs
          /\ \A r \in DOMAIN tee_pobjs : tee_pobjs[r].id = tee_pobjs[po[u]].id => r = po[u]
      BY <1>2, <1>3, <1>4, <3>1 DEF ListInv, RenamesOK
    <3>3. \A r \in DOMAIN tee_pobjs : tee_pobjs'[r].id = tee_pobjs'[po[u]].id => r = po[u]
      BY <1>6, <3>2
    <3> QED
      BY <1>1, <1>10, <3>2, <3>3
  <2>2. ASSUME NEW v \in TA, NEW u \in TA, v # u, pc'[v] \in Renaming, pc'[u] \in Renaming
        PROVE  po'[v] # po'[u]
    BY <2>2 DEF ListInv, RenamesOK
  <2> QED
    BY <2>1, <2>2 DEF RenamesOK, Reserved
<1> QED
  BY <1>7, <1>8, <1>9, <1>11, <1>12 DEF ListInv

LEMMA AlikeSame == \A a : Alike(a, a) /\ Alike(a \ {"overwrite"}, a)
BY DEF Alike

\* What the steps that leave the list alone do to flags and renames.
SameRights ==
    \A u \in TA : /\ Alike(obj'[u].flags, obj[u].flags)
                  /\ pc'[u] \in Renaming => pc[u] \in Renaming

LEMMA RightsGoto ==
    ASSUME RefInv, NEW t \in TA, NEW p \in Pcs, Goto(t, p), p \in Renaming => pc[t] \in Renaming,
           \A u \in TA : Alike(obj'[u].flags, obj[u].flags)
    PROVE  SameRights
BY GotoFields DEF SameRights

LEMMA RightsLeft ==
    ASSUME RefInv, NEW t \in TA, DirSteps(t) \/ EnumSteps(t) \/ PlainSteps(t)
    PROVE  SameRights
<1>0. \A u \in TA : obj'[u].flags = obj[u].flags => Alike(obj'[u].flags, obj[u].flags)
  BY AlikeSame
<1>p. Pcs \ Renaming = Pcs \ {"rename", "pobj_rename"} /\ "pobj_rename" \in Pcs
  BY DEF Pcs, Renaming
<1>g. ASSUME NEW p \in Pcs \ Renaming, Goto(t, p), \A u \in TA : obj'[u].flags = obj[u].flags
      PROVE  SameRights
  BY <1>0, <1>g, RightsGoto
<1>1. CASE ree_fs_open(t)
  <2>1. \A u \in TA : obj'[u].flags = obj[u].flags
    BY <1>1, FsOpenFields
  <2>2. Goto(t, "head")
    BY <1>1 DEF ree_fs_open
  <2> QED
    BY <1>g, <2>1, <2>2 DEF Pcs, Renaming
<1>2. CASE ree_fs_open_fails(t) \/ ree_fs_create_fails(t) \/ ree_fs_rename_fails(t)
  <2>1. UNCHANGED obj /\ \E p \in {"release", "corrupt", "put", "unmake"} : Goto(t, p)
    BY <1>2 DEF ree_fs_open_fails, ree_fs_create_fails, ree_fs_rename_fails
  <2> QED
    BY <1>g, <2>1 DEF Pcs, Renaming
<1>3. CASE \E ok \in BOOLEAN : ree_fs_create(t, ok)
  <2>1. PICK ok \in BOOLEAN : ree_fs_create(t, ok)
    BY <1>3
  <2>2. CASE ok = TRUE
    <3>1. \A u \in TA : Alike(obj'[u].flags, obj[u].flags)
      BY <1>0, <2>1, <2>2, CreateFields, AlikeSame
    <3>2. Goto(t, "final")
      BY <2>1, <2>2 DEF ree_fs_create
    <3> QED
      BY <3>1, <3>2, RightsGoto DEF Pcs, Renaming
  <2>3. CASE ok = FALSE
    <3>1. UNCHANGED obj /\ \E p \in {"release", "unmake"} : Goto(t, p)
      BY <2>1, <2>3 DEF ree_fs_create
    <3> QED
      BY <1>g, <3>1 DEF Pcs, Renaming
  <2> QED
    BY <2>2, <2>3
<1>4. CASE \E ok \in BOOLEAN : ree_fs_rename(t, ok)
  <2>1. /\ UNCHANGED obj /\ pc[t] = "rename"
        /\ \E p \in {"pobj_rename", "put"} : Goto(t, p)
    BY <1>4 DEF ree_fs_rename, At
  <2> QED
    BY <1>0, <2>1, RightsGoto DEF Pcs, Renaming
<1>5. CASE NotWritten(t) \/ Wrote(t)
  <2>1. pc' = pc /\ \A u \in TA : obj'[u].flags = obj[u].flags
    BY <1>5, WriteFields DEF NotWritten
  <2> QED
    BY <1>0, <2>1 DEF SameRights
<1>6. CASE Removing(t)
  <2>1. obj[t].po # 0
    BY <1>6, RemovalFields
  <2>2. PICK next \in After : Removes(t, next) /\ (next = "release" => ~obj[t].fh)
    BY <1>6, RemovalFields
  <2>3. Goto(t, next)
    BY <2>2 DEF Removes, ree_fs_remove, ree_fs_remove_fails
  <2>4. \A u \in TA : obj'[u].flags = obj[u].flags
    BY <2>1, <2>2, RemoveFields DEF Removes, ree_fs_remove_fails
  <2> QED
    BY <1>g, <2>3, <2>4 DEF Pcs, Renaming, After
<1>7. CASE ree_fs_close(t)
  <2>1. Goto(t, "release") /\ \A u \in TA : obj'[u].flags = obj[u].flags
    BY <1>7, CloseFields DEF ree_fs_close
  <2> QED
    BY <1>g, <2>1 DEF Pcs, Renaming
<1>8. CASE enum_open(t) \/ enum_close(t)
  <2>1. UNCHANGED obj /\ \E p \in {"enum_close", "put"} : Goto(t, p)
    BY <1>8 DEF enum_open, enum_close
  <2> QED
    BY <1>g, <2>1 DEF Pcs, Renaming
<1>9. CASE EnumSteps(t)
  <2>1. UNCHANGED obj /\ (UNCHANGED pc \/ Goto(t, "enum_get"))
    BY <1>9 DEF EnumSteps, closedir, start_enum, next_enum
  <2>2. CASE UNCHANGED pc
    BY <1>0, <2>1, <2>2 DEF SameRights
  <2> QED
    BY <1>g, <2>1, <2>2 DEF Pcs, Renaming
<1>10. CASE PlainSteps(t)
  <2>1. UNCHANGED obj /\ \E p \in {"release", "idle", "close", "corrupt"} : Goto(t, p)
    BY <1>10 DEF PlainSteps, give_up, tee_svc_storage_read_head, ReadCorrupt, obj_close
  <2> QED
    BY <1>g, <2>1 DEF Pcs, Renaming
<1> QED
  BY <1>1, <1>2, <1>3, <1>4, <1>5, <1>6, <1>7, <1>8, <1>9, <1>10, Zenon DEF DirSteps

\* The steps on the list.
LEMMA ListInvList ==
    ASSUME RefInv, ListInv, NEW t \in TA, ListSteps(t)
    PROVE  ListInv'
<1>1. CASE \E id \in Id, flags \in Flags : obj_open(t, id, flags) \/ obj_create(t, id, flags)
  <2>1. PICK id \in Id, flags \in Flags : obj_open(t, id, flags) \/ obj_create(t, id, flags)
    BY <1>1
  <2>2. /\ flags \in SUBSET FlagNames /\ obj[t].po = 0 /\ po' = po
        /\ \E s \in Places :
             /\ \/ obj_open(t, id, flags) /\ tee_pobj_get(id, flags, "open", s)
                \/ obj_create(t, id, flags) /\ tee_pobj_get(id, flags, "create", s)
             /\ obj'[t].po = s /\ obj'[t].flags = flags
             /\ \A u \in TA \ {t} : obj'[u] = obj[u]
    BY <2>1, OpenFields
  <2>3. PICK s \in Places, usage \in {"open", "create"} :
          /\ tee_pobj_get(id, flags, usage, s)
          /\ obj'[t].po = s /\ obj'[t].flags = flags
          /\ \A u \in TA \ {t} : obj'[u] = obj[u]
    BY <2>2
  <2>4. \E p \in {"open", "create"} : Goto(t, p)
    BY <2>1 DEF obj_open, obj_create
  <2>5. pc'[t] \notin Renaming /\ \A u \in TA \ {t} : pc'[u] = pc[u]
    BY <2>4, GotoFields DEF Pcs, Renaming
  <2>6. Joins(id, flags, usage, s) \/ Adds(id, flags, usage, s)
    BY <2>2, <2>3, GetFields, Known
  <2>7. \A u \in TA : pc'[u] \in Renaming => pc[u] \in Renaming /\ po'[u] = po[u] /\ u # t
    BY <2>2, <2>5
  <2> QED
    BY <2>2, <2>3, <2>6, <2>7, GetHandle
<1>2. CASE \E id \in Id : obj_rename(t, id)
  <2>1. PICK id \in Id : obj_rename(t, id)
    BY <1>2
  <2>2. /\ obj[t].po # 0 /\ UNCHANGED obj
        /\ \E s \in Places :
             /\ tee_pobj_get(id, {"meta"}, "rename", s) /\ po'[t] = s
             /\ \A u \in TA \ {t} : po'[u] = po[u]
    BY <2>1, RenameFields
  <2>3. PICK s \in Places :
             /\ tee_pobj_get(id, {"meta"}, "rename", s) /\ po'[t] = s
             /\ \A u \in TA \ {t} : po'[u] = po[u]
    BY <2>2
  <2>4. Goto(t, "rename")
    BY <2>1 DEF obj_rename
  <2>5. \A u \in TA \ {t} : pc'[u] = pc[u]
    BY <2>4, GotoFields DEF Pcs
  <2>6. {"meta"} \in SUBSET FlagNames
    BY DEF FlagNames
  <2>7. Joins(id, {"meta"}, "rename", s) \/ Adds(id, {"meta"}, "rename", s)
    BY <2>3, <2>6, GetFields, Known
  <2>8. /\ \A u \in TA : obj'[u] = obj[u]
        /\ \A u \in TA \ {t} : pc'[u] = pc[u] /\ po'[u] = po[u]
    BY <2>2, <2>3, <2>5
  <2> QED
    BY <2>2, <2>3, <2>6, <2>7, <2>8, GetSecond
<1>3. CASE obj_release(t)
  <2>1. /\ obj[t].po \in DOMAIN tee_pobjs /\ obj'[t] = NoObj
        /\ \A u \in TA : po'[u] = Moved(obj[t].po, po[u])
        /\ \A u \in TA \ {t} : /\ obj'[u].po = Moved(obj[t].po, obj[u].po)
                               /\ obj'[u].flags = obj[u].flags
    BY <1>3, ReleaseMoves
  <2>2. obj'[t].po = 0
    BY <2>1, NothingTypes
  <2>3. tee_pobj_release(obj[t].po) /\ Goto(t, "idle")
    BY <1>3 DEF obj_release
  <2>4. \A u \in TA : pc'[u] \in Renaming => pc[u] \in Renaming /\ u # t
    BY <2>3, GotoFields DEF Pcs, Renaming
  <2> QED
    BY <2>1, <2>2, <2>3, <2>4, ReleasePlaces
<1>4. CASE put_second(t)
  <2>1. /\ po[t] \in DOMAIN tee_pobjs /\ po'[t] = 0
        /\ \A u \in TA \ {t} : po'[u] = Moved(po[t], po[u])
        /\ \A u \in TA : obj'[u].po = Moved(po[t], obj[u].po) /\ obj'[u].flags = obj[u].flags
    BY <1>4, PutMoves
  <2>3. tee_pobj_release(po[t]) /\ Goto(t, "idle")
    BY <1>4 DEF put_second
  <2>4. \A u \in TA : pc'[u] \in Renaming => pc[u] \in Renaming /\ u # t
    BY <2>3, GotoFields DEF Pcs, Renaming
  <2> QED
    BY <2>1, <2>3, <2>4, ReleasePlaces
<1>5. CASE enum_get(t)
  <2>1. /\ UNCHANGED obj
        /\ \/ UNCHANGED <<tee_pobjs, po>>
           \/ \E s \in Places :
                /\ tee_pobj_get(en[t].oid, {}, "enum", s) /\ po'[t] = s
                /\ \A u \in TA \ {t} : po'[u] = po[u]
    BY <1>5, EnumGetMoves
  <2>2. \E p \in {"enum_open", "idle"} : Goto(t, p)
    BY <1>5 DEF enum_get
  <2>3. pc'[t] \notin Renaming /\ \A u \in TA \ {t} : pc'[u] = pc[u]
    BY <2>2, GotoFields DEF Pcs, Renaming
  <2>4. CASE UNCHANGED <<tee_pobjs, po>>
    <3>1. \A u \in TA : /\ obj'[u].po = obj[u].po /\ Alike(obj'[u].flags, obj[u].flags)
                        /\ pc'[u] \in Renaming => pc[u] \in Renaming /\ po'[u] = po[u]
      BY <2>1, <2>3, <2>4, AlikeSame
    <3>2. tee_pobjs' \in Seq(Pobj)
      BY <2>4, Types, Known
    <3> QED
      BY <2>4, <3>1, <3>2, SamePlaces
  <2>5. ASSUME NEW s \in Places, tee_pobj_get(en[t].oid, {}, "enum", s), po'[t] = s,
               \A u \in TA \ {t} : po'[u] = po[u]
        PROVE  ListInv'
    <3>1. en[t].oid \in Id
      BY <1>5, EnumGetFields
    <3>2. Joins(en[t].oid, {}, "enum", s) \/ Adds(en[t].oid, {}, "enum", s)
      BY <2>5, <3>1, GetFields, Known
    <3>3. /\ \A u \in TA : obj'[u] = obj[u]
          /\ \A u \in TA \ {t} : pc'[u] = pc[u] /\ po'[u] = po[u]
      BY <2>1, <2>3, <2>5
    <3>4. PICK id \in Id : id = en[t].oid
      BY <3>1
    <3> QED
      BY <2>3, <3>2, <3>3, <3>4, GetSecond
  <2> QED
    BY <2>1, <2>4, <2>5
<1>6. CASE obj_create_final(t)
  <2>1. /\ UNCHANGED <<obj, po>> /\ SameCounts
        /\ \A r \in DOMAIN tee_pobjs :
             /\ tee_pobjs'[r].id = tee_pobjs[r].id /\ tee_pobjs'[r].flags = tee_pobjs[r].flags
             /\ tee_pobjs'[r].creating => tee_pobjs[r].creating
    BY <1>6, FinalFields
  <2>2. \E p \in {"idle", "close"} : Goto(t, p)
    BY <1>6 DEF obj_create_final
  <2>3. pc'[t] \notin Renaming /\ \A u \in TA \ {t} : pc'[u] = pc[u]
    BY <2>2, GotoFields DEF Pcs, Renaming
  <2>4. \A u \in TA : /\ obj'[u].po = obj[u].po /\ Alike(obj'[u].flags, obj[u].flags)
                      /\ pc'[u] \in Renaming => pc[u] \in Renaming /\ po'[u] = po[u]
    BY <2>1, <2>3, AlikeSame
  <2> QED
    BY <2>1, <2>4, SamePlaces DEF SameCounts
<1>7. CASE tee_pobj_rename(t)
  <2>1. /\ pc[t] = "pobj_rename" /\ UNCHANGED <<obj, po>> /\ SameCounts
        /\ \/ /\ tee_pobjs[obj[t].po].refcnt = 1
              /\ \A r \in DOMAIN tee_pobjs :
                   /\ tee_pobjs'[r].id = tee_pobjs[IF r = obj[t].po THEN po[t] ELSE r].id
                   /\ tee_pobjs'[r].flags = tee_pobjs[r].flags
                   /\ tee_pobjs'[r].creating = tee_pobjs[r].creating
           \/ UNCHANGED tee_pobjs
    BY <1>7, PobjRenameFields
  <2>2. Goto(t, "put")
    BY <1>7 DEF tee_pobj_rename
  <2>3. pc'[t] \notin Renaming /\ \A u \in TA \ {t} : pc'[u] = pc[u]
    BY <2>2, GotoFields DEF Pcs, Renaming
  <2>4. CASE UNCHANGED tee_pobjs
    <3>1. \A u \in TA : /\ obj'[u].po = obj[u].po /\ Alike(obj'[u].flags, obj[u].flags)
                        /\ pc'[u] \in Renaming => pc[u] \in Renaming /\ po'[u] = po[u]
      BY <2>1, <2>3, AlikeSame
    <3>2. tee_pobjs' \in Seq(Pobj)
      BY <2>4, Types, Known
    <3> QED
      BY <2>4, <3>1, <3>2, SamePlaces
  <2>5. CASE ~UNCHANGED tee_pobjs
    <3>1. pc[t] \in Renaming
      BY <2>1 DEF Renaming
    <3> QED
      BY <2>1, <2>3, <2>5, <3>1, NewName DEF SameCounts
  <2> QED
    BY <2>4, <2>5
<1> QED
  BY <1>1, <1>2, <1>3, <1>4, <1>5, <1>6, <1>7, Zenon DEF ListSteps

LEMMA ListInvInit ==
    ASSUME Init
    PROVE  ListInv
<1>1. tee_pobjs = <<>> /\ \A t \in TA : obj[t] = NoObj /\ pc[t] = "idle"
  BY DEF Init
<1>2. DOMAIN tee_pobjs = {} /\ \A t \in TA : obj[t].po = 0 /\ pc[t] \notin Renaming
  BY <1>1, NothingTypes DEF Renaming
<1> QED
  BY <1>2 DEF ListInv, FlagsAgree, HandlesAgree, NamesOK, RenamesOK, AloneOK

LEMMA ListInvStep ==
    ASSUME RefInv, ListInv, [Next]_vars
    PROVE  ListInv'
<1>1. CASE UNCHANGED vars
  BY <1>1 DEF vars, ListInv, FlagsAgree, HandlesAgree, NamesOK, RenamesOK, AloneOK, Reserved
<1>2. CASE Restarts
  <2>1. tee_pobjs' = <<>> /\ \A t \in TA : obj'[t].po = 0 /\ pc'[t] = "idle"
    BY <1>2, BootedFields DEF Restarts
  <2>2. DOMAIN tee_pobjs' = {} /\ \A t \in TA : pc'[t] \notin Renaming
    BY <2>1 DEF Renaming
  <2> QED
    BY <2>1, <2>2 DEF ListInv, FlagsAgree, HandlesAgree, NamesOK, RenamesOK, AloneOK
<1>3. ASSUME NEW t \in TA, DirSteps(t) \/ EnumSteps(t) \/ PlainSteps(t)
      PROVE  ListInv'
  <2>1. SameUses /\ UNCHANGED tee_pobjs /\ SameRights
    BY <1>3, ListLeft, RightsLeft
  <2>2. \A u \in TA : /\ obj'[u].po = obj[u].po /\ Alike(obj'[u].flags, obj[u].flags)
                      /\ pc'[u] \in Renaming => pc[u] \in Renaming /\ po'[u] = po[u]
    BY <2>1 DEF SameUses, SameRights
  <2>3. tee_pobjs' \in Seq(Pobj)
    BY <2>1, Types, Known
  <2> QED
    BY <2>1, <2>2, <2>3, SamePlaces
<1> QED
  BY <1>1, <1>2, <1>3, ListInvList, StepKinds

-----------------------------------------------------------------------------
(* Handles and the entries they are on.                                    *)

\* The name under which the directory has the object of a handle.
Name(t) == IF pc[t] = "pobj_rename" THEN tee_pobjs[po[t]].id ELSE MyId(t)

\* The handle of an instance is on its object.
On(t) ==
    /\ OnEntry(t) /\ dent[obj[t].idx].id = Name(t)
    /\ "share_write" \notin obj[t].flags => ~obj[t].behind

LEMMA OnObject == HandleOnObject <=> \A t \in TA \ torn : InUse(t) => On(t)
BY DEF HandleOnObject, On, Name

LEMMA OnObjectNext == HandleOnObject' <=> \A t \in TA : t \notin torn' /\ InUse(t)' => On(t)'
BY DEF HandleOnObject, On, Name

\* Two instances that have an object of the same name have the same object, and share it.
LEMMA SameName ==
    ASSUME RefInv, ListInv, NEW t \in TA, NEW u \in TA, t # u, obj[t].po # 0, obj[u].po # 0,
           Name(t) = Name(u)
    PROVE  tee_pobj_check_access(obj[t].flags, obj[u].flags)
<1>1. /\ DOMAIN tee_pobjs = 1 .. Len(tee_pobjs) /\ Len(tee_pobjs) \in Nat
      /\ obj[t].po \in DOMAIN tee_pobjs /\ obj[u].po \in DOMAIN tee_pobjs
  BY Types, Known, InList
<1>2. \A v \in TA : pc[v] \in Renaming => po[v] \in DOMAIN tee_pobjs
  BY InList, Known DEF Frame, Renaming, Second
<1>3. \A v, w \in TA : obj[v].po # 0 /\ obj[w].po # 0 /\ pc[v] = "pobj_rename" =>
         tee_pobjs[po[v]].id # MyId(w)
  <2> SUFFICES ASSUME NEW v \in TA, NEW w \in TA, obj[w].po # 0, pc[v] = "pobj_rename",
                      tee_pobjs[po[v]].id = MyId(w)
               PROVE  FALSE
    OBVIOUS
  <2>1. obj[w].po \in DOMAIN tee_pobjs /\ pc[v] \in Renaming
    BY InList DEF Renaming
  <2>2. obj[w].po = po[v]
    BY <2>1 DEF ListInv, RenamesOK, MyId
  <2>3. obj[w].po # po[v]
    BY <2>1 DEF ListInv, RenamesOK, Reserved
  <2> QED
    BY <2>2, <2>3
<1>4. ~(pc[t] = "pobj_rename" /\ pc[u] = "pobj_rename")
  <2> SUFFICES ASSUME pc[t] = "pobj_rename", pc[u] = "pobj_rename"
               PROVE  FALSE
    OBVIOUS
  <2>1. pc[t] \in Renaming /\ pc[u] \in Renaming /\ tee_pobjs[po[t]].id = tee_pobjs[po[u]].id
    BY DEF Renaming, Name
  <2>2. po[t] = po[u]
    BY <1>2, <2>1 DEF ListInv, RenamesOK
  <2> QED
    BY <2>1, <2>2 DEF ListInv, RenamesOK
<1>5. MyId(t) = MyId(u)
  BY <1>3, <1>4 DEF Name
<1>6. obj[t].po = obj[u].po
  <2>1. ~(obj[t].po < obj[u].po)
    BY <1>1, <1>5 DEF ListInv, NamesOK, Reserved, MyId
  <2>2. ~(obj[u].po < obj[t].po)
    BY <1>1, <1>5 DEF ListInv, NamesOK, Reserved, MyId
  <2> QED
    BY <1>1, <2>1, <2>2
<1> QED
  BY <1>6 DEF ListInv, HandlesAgree

\* Types of a handle in use.
LEMMA UseFields ==
    ASSUME RefInv, NEW t \in TA, InUse(t)
    PROVE  /\ obj[t].fh /\ obj[t].po # 0 /\ obj[t].idx \in Idx /\ pc[t] # "close"
           /\ dent[obj[t].idx] \in Dent
BY Known, ObjTypes, Types DEF InUse, Frame

\* An entry is known by its file, as by its name.
LEMMA EntryOf ==
    ASSUME RefInv, NEW i \in Idx, NEW j \in Idx, ~is_free(i), ~is_free(j),
           dent[i].file = dent[j].file \/ dent[i].id = dent[j].id
    PROVE  i = j
BY Known DEF DirectoryUnique

\* A handle that a step does not concern.
LEMMA OnKept ==
    ASSUME RefInv, HandleOnObject, NEW u \in TA, u \notin torn, InUse(u),
           obj'[u].idx = obj[u].idx, obj'[u].file = obj[u].file, obj[u].linked => obj'[u].linked,
           "share_write" \in obj[u].flags => "share_write" \in obj'[u].flags,
           \/ "share_write" \in obj[u].flags \/ obj'[u].behind = obj[u].behind
           \/ ~obj'[u].behind,
           dent'[obj[u].idx].file = dent[obj[u].idx].file,
           dent'[obj[u].idx].id \in Id,
           dent[obj[u].idx].id = Name(u) => dent'[obj[u].idx].id = Name(u)'
    PROVE  On(u)'
<1>1. /\ obj[u].linked /\ dent[obj[u].idx].file = obj[u].file
      /\ dent[obj[u].idx].id = Name(u)
      /\ "share_write" \notin obj[u].flags => ~obj[u].behind
  BY OnObject DEF On, OnEntry
<1>2. dent'[obj'[u].idx].id # None
  BY NoneOK
<1>3. OnEntry(u)'
  BY <1>1, <1>2 DEF OnEntry, is_free
<1>4. "share_write" \notin obj'[u].flags => ~obj'[u].behind
  BY <1>1
<1>5. dent'[obj'[u].idx].id = Name(u)'
  BY <1>1
<1> QED
  BY <1>1, <1>3, <1>4, <1>5 DEF On

HandlesKept == HandleOnObject'

\* Steps that leave the directory alone, and the handles on their objects.
LEMMA HandlesLeft ==
    ASSUME RefInv, HandleOnObject, dent' = dent,
           \A u \in TA : u \notin torn' /\ InUse(u)' =>
              u \notin torn /\ InUse(u) /\ Name(u)' = Name(u),
           \A u \in TA : obj'[u].fh =>
              /\ obj'[u].idx = obj[u].idx /\ obj'[u].file = obj[u].file
              /\ obj'[u].linked = obj[u].linked /\ obj'[u].behind = obj[u].behind
              /\ obj'[u].flags = obj[u].flags
    PROVE  HandlesKept
<1>1. HandleOnObject'
  <2> SUFFICES ASSUME NEW u \in TA, u \notin torn', InUse(u)'
               PROVE  On(u)'
    BY OnObjectNext
  <2>1. u \notin torn /\ InUse(u) /\ Name(u)' = Name(u) /\ obj'[u].fh
    BY DEF InUse
  <2>2. dent[obj[u].idx].id \in Id
    <3>1. ~is_free(obj[u].idx)
      BY <2>1, OnObject DEF On, OnEntry
    <3> QED
      BY <2>1, <3>1, UseFields, DentTypes DEF is_free
  <2>3. /\ obj'[u].idx = obj[u].idx /\ obj'[u].file = obj[u].file
        /\ obj'[u].linked = obj[u].linked /\ obj'[u].behind = obj[u].behind
        /\ obj'[u].flags = obj[u].flags
    BY <2>1
  <2>4. /\ dent'[obj[u].idx].file = dent[obj[u].idx].file
        /\ dent'[obj[u].idx].id = dent[obj[u].idx].id
    OBVIOUS
  <2> QED
    BY <2>1, <2>2, <2>3, <2>4, OnKept
<1> QED
  BY <1>1 DEF HandlesKept

\* The names of the handles, when the list keeps its names and its places.
LEMMA NamesLeft ==
    ASSUME RefInv, NEW u \in TA, obj[u].po # 0, obj'[u].po = obj[u].po, po'[u] = po[u],
           pc'[u] = "pobj_rename" <=> pc[u] = "pobj_rename",
           \A r \in DOMAIN tee_pobjs : tee_pobjs'[r].id = tee_pobjs[r].id
    PROVE  Name(u)' = Name(u)
<1>1. obj[u].po \in DOMAIN tee_pobjs
  BY InList
<1>2. pc[u] = "pobj_rename" => po[u] \in DOMAIN tee_pobjs
  BY InList, Known DEF Frame, Second, Renaming
<1> QED
  BY <1>1, <1>2 DEF Name, MyId

\* The same, when a use of s has been given up.
LEMMA NamesMoved ==
    ASSUME RefInv, NEW s \in DOMAIN tee_pobjs, tee_pobj_release(s), NEW r \in DOMAIN tee_pobjs,
           tee_pobjs[s].refcnt = 1 => r # s
    PROVE  tee_pobjs'[Moved(s, r)].id = tee_pobjs[r].id
<1>0. /\ DOMAIN tee_pobjs = 1 .. Len(tee_pobjs) /\ Len(tee_pobjs) \in Nat /\ s \in Nat /\ r \in Nat
  BY Types, Known
<1>1. CASE tee_pobjs[s].refcnt > 1 /\ Recounted(s, tee_pobjs[s].refcnt - 1)
  BY <1>1 DEF Recounted, Moved
<1>2. CASE Drops(s)
  <2>1. /\ tee_pobjs[s].refcnt = 1
        /\ \A q \in 1 .. Len(tee_pobjs) - 1 :
             tee_pobjs'[q] = IF q < s THEN tee_pobjs[q] ELSE tee_pobjs[q + 1]
    BY <1>2 DEF Drops
  <2>2. CASE r < s
    <3>1. Moved(s, r) = r /\ r \in 1 .. Len(tee_pobjs) - 1
      BY <1>0, <2>2 DEF Moved
    <3> QED
      BY <2>1, <2>2, <3>1
  <2>3. CASE r > s
    <3>1. Moved(s, r) = r - 1 /\ r - 1 \in 1 .. Len(tee_pobjs) - 1 /\ ~(r - 1 < s)
          /\ (r - 1) + 1 = r
      BY <1>0, <2>1, <2>3 DEF Moved
    <3> QED
      BY <2>1, <3>1
  <2> QED
    BY <1>0, <2>1, <2>2, <2>3
<1> QED
  BY <1>1, <1>2, ReleaseFields, Known

\* An instance that uses no object, or has no file, has no handle.
LEMMA NoHandle ==
    ASSUME RefInv, NEW u \in TA
    PROVE  /\ InUse(u) => obj[u].fh /\ obj[u].po # 0
           /\ pc[u] = "pobj_rename" => po[u] # 0
           /\ pc[u] \in Second \ {"rename", "pobj_rename", "put"} => obj[u].po = 0
           /\ pc[u] = "enum_get" => obj[u].po = 0
           /\ obj[u].fh => obj[u].po # 0
BY Known DEF InUse, Frame, Second, Renaming

\* tee_pobj_get() leaves the names in the list.
LEMMA GetNames ==
    ASSUME RefInv, NEW id \in Id, NEW flags \in SUBSET FlagNames, NEW usage, NEW s,
           tee_pobj_get(id, flags, usage, s)
    PROVE  \A r \in DOMAIN tee_pobjs : tee_pobjs'[r].id = tee_pobjs[r].id
<1>1. Joins(id, flags, usage, s) \/ Adds(id, flags, usage, s)
  BY GetFields, Known
<1> QED
  BY <1>1, GetKeeps

LEMMA HandlesList ==
    ASSUME RefInv, ListInv, HandleOnObject, NEW t \in TA, ListSteps(t)
    PROVE  HandlesKept
<1>1. CASE \E id \in Id, flags \in Flags : obj_open(t, id, flags) \/ obj_create(t, id, flags)
  <2>1. PICK id \in Id, flags \in Flags : obj_open(t, id, flags) \/ obj_create(t, id, flags)
    BY <1>1
  <2>2. /\ flags \in SUBSET FlagNames /\ UNCHANGED <<dent, po, torn>>
        /\ \E s \in Places :
             /\ \/ obj_open(t, id, flags) /\ tee_pobj_get(id, flags, "open", s)
                \/ obj_create(t, id, flags) /\ tee_pobj_get(id, flags, "create", s)
             /\ ~obj'[t].fh
             /\ \A u \in TA \ {t} : obj'[u] = obj[u]
    BY <2>1, OpenFields
  <2>3. PICK s \in Places, usage \in {"open", "create"} :
          /\ tee_pobj_get(id, flags, usage, s) /\ ~obj'[t].fh
          /\ \A u \in TA \ {t} : obj'[u] = obj[u]
    BY <2>2
  <2>4. \A u \in TA \ {t} : pc'[u] = pc[u]
    <3>1. \E p \in {"open", "create"} : Goto(t, p)
      BY <2>1 DEF obj_open, obj_create
    <3> QED
      BY <3>1, GotoFields DEF Pcs
  <2>5. \A r \in DOMAIN tee_pobjs : tee_pobjs'[r].id = tee_pobjs[r].id
    BY <2>2, <2>3, GetNames
  <2>6. \A u \in TA : u \notin torn' /\ InUse(u)' =>
           u \notin torn /\ InUse(u) /\ Name(u)' = Name(u)
    <3> SUFFICES ASSUME NEW u \in TA, u \notin torn', InUse(u)'
                 PROVE  u \notin torn /\ InUse(u) /\ Name(u)' = Name(u)
      OBVIOUS
    <3>1. u # t
      BY <2>3 DEF InUse
    <3>2. obj'[u] = obj[u] /\ pc'[u] = pc[u] /\ po'[u] = po[u] /\ InUse(u)
      BY <2>2, <2>3, <2>4, <3>1 DEF InUse
    <3> QED
      BY <2>2, <2>5, <3>2, NamesLeft, NoHandle
  <2>7. \A u \in TA : obj'[u].fh => obj'[u] = obj[u] /\ pc'[u] = pc[u]
    BY <2>3, <2>4
  <2>8. /\ \A u \in TA : obj'[u].fh =>
              /\ obj'[u].idx = obj[u].idx /\ obj'[u].file = obj[u].file
              /\ obj'[u].linked = obj[u].linked /\ obj'[u].behind = obj[u].behind
              /\ obj'[u].flags = obj[u].flags
    BY <2>7
  <2> QED
    BY <2>2, <2>6, <2>8, HandlesLeft
<1>2. CASE \E id \in Id : obj_rename(t, id)
  <2>1. PICK id \in Id : obj_rename(t, id)
    BY <1>2
  <2>2. /\ pc[t] = "idle" /\ UNCHANGED <<dent, obj, torn>>
        /\ \E s \in Places :
             /\ tee_pobj_get(id, {"meta"}, "rename", s) /\ po'[t] = s
             /\ \A u \in TA \ {t} : po'[u] = po[u]
    BY <2>1, RenameFields
  <2>3. PICK s \in Places :
             /\ tee_pobj_get(id, {"meta"}, "rename", s) /\ po'[t] = s
             /\ \A u \in TA \ {t} : po'[u] = po[u]
    BY <2>2
  <2>4. pc'[t] = "rename" /\ \A u \in TA \ {t} : pc'[u] = pc[u]
    <3>1. Goto(t, "rename")
      BY <2>1 DEF obj_rename
    <3> QED
      BY <3>1, GotoFields DEF Pcs
  <2>5. \A r \in DOMAIN tee_pobjs : tee_pobjs'[r].id = tee_pobjs[r].id
    <3>1. {"meta"} \in SUBSET FlagNames
      BY DEF FlagNames
    <3> QED
      BY <2>3, <3>1, GetNames
  <2>6. \A u \in TA : u \notin torn' /\ InUse(u)' =>
           u \notin torn /\ InUse(u) /\ Name(u)' = Name(u)
    <3> SUFFICES ASSUME NEW u \in TA, u \notin torn', InUse(u)'
                 PROVE  u \notin torn /\ InUse(u) /\ Name(u)' = Name(u)
      OBVIOUS
    <3>1. InUse(u)
      BY <2>2, <2>4 DEF InUse
    <3>2. CASE u # t
      BY <2>2, <2>3, <2>4, <2>5, <3>1, <3>2, NamesLeft, NoHandle
    <3>3. CASE u = t
      <4>1. obj[t].po # 0 /\ obj[t].po \in DOMAIN tee_pobjs
        BY <3>1, <3>3, NoHandle, InList
      <4>2. tee_pobjs'[obj'[t].po].id = tee_pobjs[obj[t].po].id
        BY <2>2, <2>5, <4>1
      <4> QED
        BY <2>2, <2>4, <3>1, <3>3, <4>2 DEF Name, MyId
    <3> QED
      BY <3>2, <3>3
  <2> QED
    BY <2>2, <2>6, HandlesLeft
<1>3. CASE obj_release(t)
  <2>1. /\ obj[t].po \in DOMAIN tee_pobjs /\ obj'[t] = NoObj
        /\ \A u \in TA : po'[u] = Moved(obj[t].po, po[u])
        /\ \A u \in TA \ {t} :
                /\ obj'[u].po = Moved(obj[t].po, obj[u].po)
                /\ obj'[u].flags = obj[u].flags /\ obj'[u].fh = obj[u].fh
                /\ obj'[u].file = obj[u].file /\ obj'[u].idx = obj[u].idx
                /\ obj'[u].linked = obj[u].linked /\ obj'[u].behind = obj[u].behind
    BY <1>3, ReleaseMoves
  <2>2. ~obj'[t].fh
    BY <2>1, NothingTypes
  <2>3. /\ tee_pobj_release(obj[t].po) /\ Goto(t, "idle") /\ UNCHANGED <<dent, torn>>
    BY <1>3 DEF obj_release
  <2>4. \A u \in TA \ {t} : pc'[u] = pc[u]
    BY <2>3, GotoFields DEF Pcs
  <2>5. \A u \in TA \ {t} : InUse(u) => Name(u)' = Name(u)
    <3> SUFFICES ASSUME NEW u \in TA \ {t}, InUse(u)
                 PROVE  Name(u)' = Name(u)
      OBVIOUS
    <3>1. obj[u].po \in DOMAIN tee_pobjs /\ (pc[u] = "pobj_rename" => po[u] \in DOMAIN tee_pobjs)
      BY NoHandle, InList
    <3>2. tee_pobjs[obj[t].po].refcnt = 1 => obj[u].po # obj[t].po /\ po[u] # obj[t].po
      BY <2>1, LastUse
    <3>3. tee_pobjs'[Moved(obj[t].po, obj[u].po)].id = tee_pobjs[obj[u].po].id
      BY <2>1, <2>3, <3>1, <3>2, NamesMoved
    <3>4. pc[u] = "pobj_rename" => tee_pobjs'[Moved(obj[t].po, po[u])].id = tee_pobjs[po[u]].id
      BY <2>1, <2>3, <3>1, <3>2, NamesMoved
    <3> QED
      BY <2>1, <2>4, <3>3, <3>4 DEF Name, MyId
  <2>6. \A u \in TA : u \notin torn' /\ InUse(u)' =>
           u \notin torn /\ InUse(u) /\ Name(u)' = Name(u)
    BY <2>1, <2>2, <2>3, <2>4, <2>5 DEF InUse
  <2>7. /\ \A u \in TA : obj'[u].fh =>
              /\ obj'[u].idx = obj[u].idx /\ obj'[u].file = obj[u].file
              /\ obj'[u].linked = obj[u].linked /\ obj'[u].behind = obj[u].behind
              /\ obj'[u].flags = obj[u].flags
    BY <2>1, <2>2, <2>4
  <2> QED
    BY <2>3, <2>6, <2>7, HandlesLeft
<1>4. CASE put_second(t)
  <2>1. /\ pc[t] = "put" /\ po[t] \in DOMAIN tee_pobjs /\ po'[t] = 0
        /\ \A u \in TA \ {t} : po'[u] = Moved(po[t], po[u])
        /\ \A u \in TA :
                /\ obj'[u].po = Moved(po[t], obj[u].po)
                /\ obj'[u].flags = obj[u].flags /\ obj'[u].fh = obj[u].fh
                /\ obj'[u].file = obj[u].file /\ obj'[u].idx = obj[u].idx
                /\ obj'[u].linked = obj[u].linked /\ obj'[u].behind = obj[u].behind
    BY <1>4, PutMoves
  <2>3. /\ tee_pobj_release(po[t]) /\ Goto(t, "idle") /\ UNCHANGED <<dent, torn>>
    BY <1>4 DEF put_second
  <2>4. pc'[t] = "idle" /\ \A u \in TA \ {t} : pc'[u] = pc[u]
    BY <2>3, GotoFields DEF Pcs
  <2>5. \A u \in TA : InUse(u) => Name(u)' = Name(u)
    <3> SUFFICES ASSUME NEW u \in TA, InUse(u)
                 PROVE  Name(u)' = Name(u)
      OBVIOUS
    <3>1. obj[u].po \in DOMAIN tee_pobjs /\ (pc[u] = "pobj_rename" => po[u] \in DOMAIN tee_pobjs)
      BY NoHandle, InList
    <3>2. tee_pobjs[po[t]].refcnt = 1 => obj[u].po # po[t] /\ (u # t => po[u] # po[t])
      BY <2>1, LastUse
    <3>3. tee_pobjs'[Moved(po[t], obj[u].po)].id = tee_pobjs[obj[u].po].id
      BY <2>1, <2>3, <3>1, <3>2, NamesMoved
    <3>4. pc[u] = "pobj_rename" => u # t
      BY <2>1
    <3>5. pc[u] = "pobj_rename" => tee_pobjs'[Moved(po[t], po[u])].id = tee_pobjs[po[u]].id
      BY <2>1, <2>3, <3>1, <3>2, <3>4, NamesMoved
    <3>6. pc'[u] = "pobj_rename" <=> pc[u] = "pobj_rename"
      BY <2>1, <2>4
    <3> QED
      BY <2>1, <3>3, <3>4, <3>5, <3>6 DEF Name, MyId
  <2>6. \A u \in TA : u \notin torn' /\ InUse(u)' =>
           u \notin torn /\ InUse(u) /\ Name(u)' = Name(u)
    BY <2>1, <2>3, <2>4, <2>5 DEF InUse
  <2>7. /\ \A u \in TA : obj'[u].fh =>
              /\ obj'[u].idx = obj[u].idx /\ obj'[u].file = obj[u].file
              /\ obj'[u].linked = obj[u].linked /\ obj'[u].behind = obj[u].behind
              /\ obj'[u].flags = obj[u].flags
    BY <2>1, <2>4
  <2> QED
    BY <2>3, <2>6, <2>7, HandlesLeft
<1>5. CASE enum_get(t)
  <2>1. /\ UNCHANGED <<dent, obj, torn>>
        /\ \/ UNCHANGED <<tee_pobjs, po>>
           \/ \E s \in Places :
                /\ tee_pobj_get(en[t].oid, {}, "enum", s) /\ po'[t] = s
                /\ \A u \in TA \ {t} : po'[u] = po[u]
    BY <1>5, EnumGetMoves
  <2>2. pc[t] = "enum_get" /\ en[t].oid \in Id
    BY <1>5, EnumGetFields
  <2>3. ~obj[t].fh
    BY <2>2, NoHandle
  <2>4. \A u \in TA \ {t} : pc'[u] = pc[u] /\ po'[u] = po[u]
    <3>1. \E p \in {"enum_open", "idle"} : Goto(t, p)
      BY <1>5 DEF enum_get
    <3> QED
      BY <2>1, <3>1, GotoFields DEF Pcs
  <2>5. \A r \in DOMAIN tee_pobjs : tee_pobjs'[r].id = tee_pobjs[r].id
    <3>1. ASSUME NEW s \in Places, tee_pobj_get(en[t].oid, {}, "enum", s)
          PROVE  \A r \in DOMAIN tee_pobjs : tee_pobjs'[r].id = tee_pobjs[r].id
      BY <2>2, <3>1, GetNames
    <3> QED
      BY <2>1, <3>1
  <2>6. \A u \in TA : u \notin torn' /\ InUse(u)' =>
           u \notin torn /\ InUse(u) /\ Name(u)' = Name(u)
    <3> SUFFICES ASSUME NEW u \in TA, u \notin torn', InUse(u)'
                 PROVE  u \notin torn /\ InUse(u) /\ Name(u)' = Name(u)
      OBVIOUS
    <3>1. u # t
      BY <2>1, <2>3 DEF InUse
    <3>2. InUse(u)
      BY <2>1, <2>4, <3>1 DEF InUse
    <3> QED
      BY <2>1, <2>4, <2>5, <3>1, <3>2, NamesLeft, NoHandle
  <2>7. \A u \in TA : pc'[u] = "corrupt" /\ obj'[u].fh => pc[u] = "corrupt"
    BY <2>1, <2>3, <2>4
  <2> QED
    BY <2>1, <2>6, <2>7, HandlesLeft
<1>6. CASE obj_create_final(t)
  <2>1. /\ pc[t] = "final" /\ UNCHANGED <<dent, obj, po, torn>>
        /\ \A r \in DOMAIN tee_pobjs : tee_pobjs'[r].id = tee_pobjs[r].id
    BY <1>6, FinalFields
  <2>2. pc'[t] \in {"idle", "close"} /\ \A u \in TA \ {t} : pc'[u] = pc[u]
    <3>1. \E p \in {"idle", "close"} : Goto(t, p)
      BY <1>6 DEF obj_create_final
    <3> QED
      BY <3>1, GotoFields DEF Pcs
  <2>3. \A u \in TA : u \notin torn' /\ InUse(u)' =>
           u \notin torn /\ InUse(u) /\ Name(u)' = Name(u)
    <3> SUFFICES ASSUME NEW u \in TA, u \notin torn', InUse(u)'
                 PROVE  u \notin torn /\ InUse(u) /\ Name(u)' = Name(u)
      OBVIOUS
    <3>1. InUse(u)
      BY <2>1, <2>2 DEF InUse
    <3> QED
      BY <2>1, <2>2, <3>1, NamesLeft, NoHandle
  <2> QED
    BY <2>1, <2>3, HandlesLeft
<1>7. CASE tee_pobj_rename(t)
  <2>1. /\ pc[t] = "pobj_rename" /\ UNCHANGED <<dent, obj, po>>
        /\ obj[t].po \in DOMAIN tee_pobjs /\ po[t] \in DOMAIN tee_pobjs
        /\ \/ /\ tee_pobjs[obj[t].po].refcnt = 1 /\ torn' = torn
              /\ \A r \in DOMAIN tee_pobjs :
                   tee_pobjs'[r].id = tee_pobjs[IF r = obj[t].po THEN po[t] ELSE r].id
           \/ UNCHANGED tee_pobjs /\ torn' = torn \cup {t}
    BY <1>7, PobjRenameFields
  <2>2. pc'[t] = "put" /\ \A u \in TA \ {t} : pc'[u] = pc[u]
    <3>1. Goto(t, "put")
      BY <1>7 DEF tee_pobj_rename
    <3> QED
      BY <3>1, GotoFields DEF Pcs
  <2>3. \A u \in TA : u \notin torn' /\ InUse(u)' =>
           u \notin torn /\ InUse(u) /\ Name(u)' = Name(u)
    <3> SUFFICES ASSUME NEW u \in TA, u \notin torn', InUse(u)'
                 PROVE  u \notin torn /\ InUse(u) /\ Name(u)' = Name(u)
      OBVIOUS
    <3>1. InUse(u) /\ u \notin torn
      BY <2>1, <2>2 DEF InUse
    <3>2. CASE UNCHANGED tee_pobjs /\ torn' = torn \cup {t}
      BY <2>1, <2>2, <3>1, <3>2, NamesLeft, NoHandle
    <3>3. CASE /\ tee_pobjs[obj[t].po].refcnt = 1
               /\ \A r \in DOMAIN tee_pobjs :
                    tee_pobjs'[r].id = tee_pobjs[IF r = obj[t].po THEN po[t] ELSE r].id
      <4>1. CASE u = t
        BY <2>1, <2>2, <3>1, <3>3, <4>1 DEF Name, MyId
      <4>2. CASE u # t
        <5>1. obj[u].po \in DOMAIN tee_pobjs /\ (pc[u] = "pobj_rename" => po[u] \in DOMAIN tee_pobjs)
          BY <3>1, NoHandle, InList
        <5>2. obj[u].po # obj[t].po /\ po[u] # obj[t].po
          BY <2>1, <3>3, <4>2, LastUse
        <5> QED
          BY <2>1, <2>2, <3>1, <3>3, <4>2, <5>1, <5>2 DEF Name, MyId
      <4> QED
        BY <4>1, <4>2
    <3> QED
      BY <2>1, <3>2, <3>3
  <2> QED
    BY <2>1, <2>3, HandlesLeft
<1> QED
  BY <1>1, <1>2, <1>3, <1>4, <1>5, <1>6, <1>7, Zenon DEF ListSteps

\* A handle of an instance other than t that the change of entry i does not tear.
LEMMA NotTorn ==
    ASSUME RefInv, HandleOnObject, NEW t \in TA, NEW u \in TA, u # t, NEW i \in Idx,
           u \notin torn, InUse(u), u \notin Tear(t, i)
    PROVE  /\ obj[u].idx # i /\ ~(~is_free(i) /\ OnFile(u, dent[i].file))
           /\ obj[u].file \in Named /\ dent[obj[u].idx].id \in Id /\ obj[u].linked
<1>1. obj[u].linked /\ ~is_free(obj[u].idx) /\ dent[obj[u].idx].file = obj[u].file
  BY OnObject DEF On, OnEntry
<1>2. obj[u].idx \in Idx /\ dent[obj[u].idx] \in Dent /\ obj[u].fh
  BY UseFields
<1>3. ~(~is_free(i) /\ OnFile(u, dent[i].file))
  BY DEF Tear
<1>4. obj[u].idx # i
  BY <1>1, <1>2, <1>3 DEF OnFile
<1>5. obj[u].file \in Named
  BY <1>1, <1>2, NamedFile
<1>6. dent[obj[u].idx].id \in Id
  BY <1>1, <1>2, DentTypes DEF is_free
<1> QED
  BY <1>1, <1>3, <1>4, <1>5, <1>6

\* A file is opened.
LEMMA OpenHandles ==
    ASSUME RefInv, HandleOnObject, NEW t \in TA, ree_fs_open(t)
    PROVE  HandlesKept
<1> DEFINE i == tee_fs_dirfile_find(MyId(t))
<1>1. /\ i \in Idx /\ i # 0 /\ dent[i].id = MyId(t) /\ ~is_free(i) /\ dent[i].there
      /\ pc[t] = "open" /\ obj[t].linked /\ ~obj[t].behind
      /\ obj'[t].po = obj[t].po /\ obj'[t].file = dent[i].file /\ obj'[t].idx = i
      /\ obj'[t].linked = obj[t].linked /\ obj'[t].behind = obj[t].behind
      /\ \A u \in TA \ {t} : obj'[u] = obj[u]
  BY FsOpenFields
<1>2. Goto(t, "head") /\ UNCHANGED <<dent, tee_pobjs, po, torn>>
  BY DEF ree_fs_open
<1> HIDE DEF i
<1>3. pc'[t] = "head" /\ \A u \in TA \ {t} : pc'[u] = pc[u]
  BY <1>2, GotoFields DEF Pcs
<1>4. On(t)'
  <2>1. MyId(t)' = MyId(t)
    BY <1>1, <1>2 DEF MyId
  <2>2. Name(t)' = MyId(t)
    BY <1>3, <2>1 DEF Name
  <2>3. OnEntry(t)'
    BY <1>1, <1>2 DEF OnEntry, is_free
  <2> QED
    BY <1>1, <1>2, <2>2, <2>3 DEF On
<1>5. ASSUME NEW u \in TA \ {t}, u \notin torn, InUse(u)'
      PROVE  On(u)'
  <2>1. InUse(u) /\ obj'[u] = obj[u] /\ pc'[u] = pc[u]
    BY <1>1, <1>3, <1>5 DEF InUse
  <2>2. Name(u)' = Name(u)
    BY <1>2, <2>1 DEF Name, MyId
  <2>3. On(u)
    BY <1>5, <2>1, OnObject
  <2> QED
    BY <1>2, <2>1, <2>2, <2>3 DEF On, OnEntry, is_free
<1>6. HandleOnObject'
  BY <1>2, <1>4, <1>5, OnObjectNext
<1> QED
  BY <1>6 DEF HandlesKept

\* An object is created: the handles of the file that had its name are torn.
LEMMA CreateHandles ==
    ASSUME RefInv, HandleOnObject, NEW t \in TA, NEW ok \in BOOLEAN, ree_fs_create(t, ok)
    PROVE  HandlesKept
<1> DEFINE i == Place(t)
           n == tee_fs_dirfile_get_tmp
           e == [id |-> MyId(t), file |-> n, there |-> ok]
<1>1. /\ pc[t] = "create" /\ obj[t].po # 0 /\ ~obj[t].fh /\ obj[t].linked
      /\ ~obj[t].behind /\ MyId(t) \in Id /\ n \in Files /\ n \notin files /\ i \in Idx
      /\ dent' = [dent EXCEPT ![i] = e] /\ torn' = torn \cup Tear(t, i)
  BY CreateEntry
<1>2. UNCHANGED <<tee_pobjs, po>>
  BY DEF ree_fs_create
<1>3. n \notin Named
  BY <1>1, FilesFields, Known
<1>e. e.id = MyId(t) /\ e.file = n /\ e.there = ok
  OBVIOUS
<1> HIDE DEF i, n, e
<1>4. dent'[i] = e /\ \A j \in Idx \ {i} : dent'[j] = dent[j]
  BY <1>1, Types, Known
<1>5. CASE ok = FALSE
  <2>1. (\E p \in {"release", "unmake"} : Goto(t, p)) /\ UNCHANGED obj
    BY <1>5 DEF ree_fs_create
  <2>2. \A u \in TA \ {t} : pc'[u] = pc[u]
    BY <2>1, GotoFields DEF Pcs
  <2>3. HandleOnObject'
    <3> SUFFICES ASSUME NEW u \in TA, u \notin torn', InUse(u)'
                 PROVE  On(u)'
      BY OnObjectNext
    <3>1. u # t /\ InUse(u) /\ u \notin torn /\ u \notin Tear(t, i) /\ pc'[u] = pc[u]
      BY <1>1, <2>1, <2>2 DEF InUse
    <3>2. obj[u].idx # i /\ obj[u].idx \in Idx
      BY <1>1, <3>1, NotTorn, UseFields
    <3>3. dent'[obj[u].idx] = dent[obj[u].idx]
      BY <1>4, <3>2
    <3>4. On(u)
      BY <3>1, OnObject
    <3>5. Name(u)' = Name(u)
      BY <1>2, <2>1, <3>1 DEF Name, MyId
    <3> QED
      BY <2>1, <3>3, <3>4, <3>5 DEF On, OnEntry, is_free
  <2> QED
    BY <2>3 DEF HandlesKept
<1>6. CASE ok = TRUE
  <2>1. /\ obj'[t].po = obj[t].po /\ obj'[t].file = n /\ obj'[t].idx = i
        /\ obj'[t].linked = obj[t].linked /\ obj'[t].behind = obj[t].behind
        /\ \A u \in TA \ {t} :
             /\ obj'[u].po = obj[u].po /\ obj'[u].flags = obj[u].flags
             /\ obj'[u].fh = obj[u].fh /\ obj'[u].file = obj[u].file
             /\ obj'[u].idx = obj[u].idx
             /\ obj'[u].linked <=>
                  obj[u].linked /\ ~(~is_free(i) /\ OnFile(u, dent[i].file))
             /\ ~OnFile(u, n) => obj'[u].behind = obj[u].behind
    BY <1>6, CreateFields DEF i, n
  <2>2. Goto(t, "final")
    BY <1>6 DEF ree_fs_create
  <2>3. pc'[t] = "final" /\ \A u \in TA \ {t} : pc'[u] = pc[u]
    BY <2>2, GotoFields DEF Pcs
  <2>4. On(t)'
    <3>1. MyId(t)' = MyId(t)
      BY <1>2, <2>1 DEF MyId
    <3>2. Name(t)' = MyId(t)
      BY <2>3, <3>1 DEF Name
    <3>3. dent'[obj'[t].idx].id # None
      BY <1>1, <1>4, <1>e, <2>1, NoneOK
    <3>4. OnEntry(t)'
      BY <1>1, <1>4, <1>e, <2>1, <3>3 DEF OnEntry, is_free
    <3> QED
      BY <1>1, <1>4, <1>e, <1>6, <2>1, <3>2, <3>4 DEF On
  <2>5. ASSUME NEW u \in TA \ {t}, u \notin torn', InUse(u)'
        PROVE  On(u)'
    <3>1. InUse(u) /\ u \notin torn /\ u \notin Tear(t, i) /\ pc'[u] = pc[u]
      BY <1>1, <2>1, <2>3, <2>5 DEF InUse
    <3>2. /\ obj[u].idx # i /\ ~(~is_free(i) /\ OnFile(u, dent[i].file))
          /\ obj[u].file \in Named /\ dent[obj[u].idx].id \in Id /\ obj[u].linked
          /\ obj[u].idx \in Idx
      BY <1>1, <3>1, NotTorn, UseFields
    <3>3. dent'[obj[u].idx] = dent[obj[u].idx]
      BY <1>4, <3>2
    <3>4. ~OnFile(u, n)
      BY <1>3, <3>2 DEF OnFile
    <3>5. obj'[u].linked /\ obj'[u].behind = obj[u].behind
      BY <2>1, <3>2, <3>4
    <3>6. Name(u)' = Name(u)
      BY <1>2, <2>1, <3>1 DEF Name, MyId
    <3>7. obj'[u].idx = obj[u].idx /\ obj'[u].file = obj[u].file /\ obj'[u].flags = obj[u].flags
      BY <2>1
    <3> QED
      BY <3>1, <3>2, <3>3, <3>5, <3>6, <3>7, OnKept
  <2>6. HandleOnObject'
    BY <2>4, <2>5, OnObjectNext
  <2> QED
    BY <2>6 DEF HandlesKept
<1> QED
  BY <1>5, <1>6

\* An object is removed: the handles of its file are torn.
LEMMA RemoveHandles ==
    ASSUME RefInv, HandleOnObject, NEW t \in TA, obj[t].po # 0, NEW ok \in BOOLEAN,
           NEW next \in After, ree_fs_remove(t, ok, next),
           next = "release" => ~obj[t].fh
    PROVE  HandlesKept
<1> DEFINE i == tee_fs_dirfile_find(MyId(t))
<1>1. /\ i \in Idx /\ dent' = [dent EXCEPT ![i] = Cleared] /\ ~is_free(i)
      /\ torn' = torn \cup Tear(t, i) \cup {u \in {t} : next = "idle" /\ obj[u].fh}
      /\ \A u \in TA :
           /\ obj'[u].po = obj[u].po /\ obj'[u].flags = obj[u].flags
           /\ obj'[u].fh = obj[u].fh /\ obj'[u].file = obj[u].file
           /\ obj'[u].idx = obj[u].idx /\ obj'[u].behind = obj[u].behind
           /\ ~OnFile(u, dent[i].file) => (obj'[u].linked <=> obj[u].linked)
  BY RemoveFields
<1>2. Goto(t, next) /\ UNCHANGED <<tee_pobjs, po>>
  BY DEF ree_fs_remove
<1> HIDE DEF i
<1>3. pc'[t] = next /\ \A u \in TA \ {t} : pc'[u] = pc[u]
  BY <1>2, GotoFields DEF Pcs, After
<1>4. \A j \in Idx \ {i} : dent'[j] = dent[j]
  BY <1>1, Types, Known
<1>5. HandleOnObject'
  <2> SUFFICES ASSUME NEW u \in TA, u \notin torn', InUse(u)'
               PROVE  On(u)'
    BY OnObjectNext
  <2>0. u # t
    BY <1>1, <1>3 DEF InUse, After
  <2>1. InUse(u) /\ u \notin torn /\ u \notin Tear(t, i) /\ pc'[u] = pc[u]
    BY <1>1, <1>3, <2>0 DEF InUse
  <2>2. /\ obj[u].idx # i /\ ~OnFile(u, dent[i].file)
        /\ dent[obj[u].idx].id \in Id /\ obj[u].linked /\ obj[u].idx \in Idx
    BY <1>1, <2>0, <2>1, NotTorn, UseFields
  <2>3. dent'[obj[u].idx] = dent[obj[u].idx]
    BY <1>4, <2>2
  <2>4. Name(u)' = Name(u)
    BY <1>1, <1>2, <2>1 DEF Name, MyId
  <2>5. /\ obj'[u].idx = obj[u].idx /\ obj'[u].file = obj[u].file /\ obj'[u].flags = obj[u].flags
        /\ obj'[u].linked /\ obj'[u].behind = obj[u].behind
    BY <1>1, <2>2
  <2> QED
    BY <2>1, <2>2, <2>3, <2>4, <2>5, OnKept
<1> QED
  BY <1>5 DEF HandlesKept

\* The directory has the new name of an object; the object itself has the old one still.
LEMMA RenameHandles ==
    ASSUME RefInv, ListInv, HandleOnObject, NEW t \in TA, NEW ok \in BOOLEAN,
           ree_fs_rename(t, ok)
    PROVE  HandlesKept
<1> DEFINE i == tee_fs_dirfile_find(MyId(t))
           new == tee_pobjs[po[t]].id
<1>1. /\ pc[t] = "rename" /\ i \in Idx /\ dent[i].id = MyId(t) /\ ~is_free(i) /\ new \in Id
      /\ dent'[i].id = new /\ dent'[i].file = dent[i].file
      /\ dent'[i].there = dent[i].there
      /\ \A j \in Idx \ {i} : dent'[j] = dent[j]
  BY RenameDent
<1>2. UNCHANGED <<tee_pobjs, obj, po>> /\ torn' = IF ok THEN torn ELSE torn \cup {t}
  BY DEF ree_fs_rename
<1>3. Goto(t, IF ok THEN "pobj_rename" ELSE "put")
  BY DEF ree_fs_rename
<1> HIDE DEF i
<1>4. /\ pc'[t] = IF ok THEN "pobj_rename" ELSE "put"
      /\ \A u \in TA \ {t} : pc'[u] = pc[u]
  BY <1>3, GotoFields DEF Pcs
<1>5. obj[t].po # 0 /\ "meta" \in obj[t].flags /\ Name(t) = MyId(t)
  BY <1>1, Known DEF Frame, Renaming, Working, Name
<1>6. HandleOnObject'
  <2> SUFFICES ASSUME NEW u \in TA, u \notin torn', InUse(u)'
               PROVE  On(u)'
    BY OnObjectNext
  <2>1. InUse(u) /\ u \notin torn
    BY <1>1, <1>2, <1>4 DEF InUse
  <2>2. /\ obj[u].idx \in Idx /\ obj[u].po # 0 /\ ~is_free(obj[u].idx)
        /\ dent[obj[u].idx].id = Name(u) /\ dent[obj[u].idx].id \in Id
    BY <2>1, UseFields, OnObject, DentTypes DEF On, OnEntry, is_free
  <2>3. CASE u # t
    <3>1. obj[u].idx # i
      <4> SUFFICES ASSUME obj[u].idx = i
                   PROVE  FALSE
        OBVIOUS
      <4>1. tee_pobj_check_access(obj[t].flags, obj[u].flags)
        BY <1>1, <1>5, <2>2, <2>3, SameName
      <4> QED
        BY <1>5, <4>1, AccessFacts
    <3>2. dent'[obj[u].idx] = dent[obj[u].idx]
      BY <1>1, <2>2, <3>1
    <3>3. Name(u)' = Name(u)
      BY <1>2, <1>4, <2>3 DEF Name, MyId
    <3> QED
      BY <1>2, <2>1, <2>2, <3>2, <3>3, OnKept
  <2>4. CASE u = t
    <3>1. ok = TRUE
      BY <1>2, <2>4
    <3>2. obj[u].idx = i
      BY <1>1, <1>5, <2>2, <2>4, EntryOf
    <3>3. Name(u)' = new
      BY <1>2, <1>4, <2>4, <3>1 DEF Name
    <3>4. /\ dent'[obj[u].idx].file = dent[obj[u].idx].file
            /\ dent'[obj[u].idx].id = Name(u)' /\ dent'[obj[u].idx].id \in Id
      BY <1>1, <3>2, <3>3
    <3> QED
      BY <1>2, <2>1, <3>4, OnKept
  <2> QED
    BY <2>3, <2>4
<1> QED
  BY <1>6 DEF HandlesKept

\* A file is written: handles that share writing are out of date, and there are no others.
LEMMA WriteHandles ==
    ASSUME RefInv, ListInv, HandleOnObject, NEW t \in TA, Wrote(t)
    PROVE  HandlesKept
<1>1. /\ pc' = pc /\ pc[t] = "idle" /\ obj[t].fh /\ "write" \in obj[t].flags
      /\ obj[t].idx \in Idx
      /\ \A u \in TA :
           /\ obj'[u].po = obj[u].po /\ obj'[u].flags = obj[u].flags
           /\ obj'[u].fh = obj[u].fh /\ obj'[u].file = obj[u].file
           /\ obj'[u].idx = obj[u].idx /\ obj'[u].linked = obj[u].linked
           /\ u = t \/ ~(OnFile(u, obj[t].file) /\ obj[t].linked) =>
                obj'[u].behind = obj[u].behind
  BY WriteFields
<1>2. \A i \in Idx : dent'[i].id = dent[i].id /\ dent'[i].file = dent[i].file
  BY WriteDent
<1>3. UNCHANGED <<tee_pobjs, po>> /\ torn' = torn \cup TornBy(t)
  BY DEF Wrote
<1>4. HandleOnObject'
  <2> SUFFICES ASSUME NEW u \in TA, u \notin torn', InUse(u)'
               PROVE  On(u)'
    BY OnObjectNext
  <2>1. InUse(u) /\ u \notin torn
    BY <1>1, <1>3 DEF InUse
  <2>2. /\ obj[u].idx \in Idx /\ obj[u].fh /\ obj[u].po # 0 /\ ~is_free(obj[u].idx)
        /\ dent[obj[u].idx].file = obj[u].file /\ obj[u].linked
        /\ dent[obj[u].idx].id = Name(u) /\ dent[obj[u].idx].id \in Id
    BY <2>1, UseFields, OnObject, DentTypes DEF On, OnEntry, is_free
  <2>3. Name(u)' = Name(u)
    BY <1>1, <1>3 DEF Name, MyId
  <2>4. CASE t \in torn
    <3>1. obj[u].file # obj[t].file
      BY <1>3, <2>2, <2>4 DEF TornBy
    <3>2. dent'[obj[u].idx].id = dent[obj[u].idx].id /\ dent'[obj[u].idx].file = dent[obj[u].idx].file
      BY <1>2, <2>2
    <3>3. obj'[u].behind = obj[u].behind
      BY <1>1, <3>1 DEF OnFile
    <3> QED
      BY <1>1, <2>1, <2>2, <2>3, <3>2, <3>3, OnKept
  <2>5. CASE t \notin torn
    <3>1. InUse(t)
      BY <1>1 DEF InUse
    <3>2. /\ obj[t].linked /\ ~is_free(obj[t].idx) /\ dent[obj[t].idx].id = Name(t)
          /\ obj[t].po # 0 /\ dent[obj[t].idx].file = obj[t].file
      BY <2>5, <3>1, OnObject, UseFields DEF On, OnEntry
    <3>3. /\ dent'[obj[u].idx].file = dent[obj[u].idx].file
            /\ dent'[obj[u].idx].id = dent[obj[u].idx].id
      BY <1>2, <2>2, <3>2
    <3>4. \/ "share_write" \in obj[u].flags \/ obj'[u].behind = obj[u].behind
          \/ ~obj'[u].behind
      <4>1. CASE u = t
        BY <1>1, <4>1
      <4>2. CASE u # t /\ ~(OnFile(u, obj[t].file) /\ obj[t].linked)
        BY <1>1, <4>2
      <4>3. CASE u # t /\ OnFile(u, obj[t].file)
        <5>1. obj[u].file = obj[t].file
          BY <4>3 DEF OnFile
        <5>2. obj[u].idx = obj[t].idx
          BY <1>1, <2>2, <3>2, <5>1, EntryOf
        <5>3. tee_pobj_check_access(obj[t].flags, obj[u].flags)
          BY <2>2, <3>2, <4>3, <5>2, SameName
        <5> QED
          BY <1>1, <5>3 DEF tee_pobj_check_access, Both, Either
      <4> QED
        BY <4>1, <4>2, <4>3
    <3> QED
      BY <1>1, <2>1, <2>2, <2>3, <3>3, <3>4, OnKept
  <2> QED
    BY <2>4, <2>5
<1> QED
  BY <1>4 DEF HandlesKept

\* Steps that only go to another place in the code.
LEMMA HandlesGoto ==
    ASSUME RefInv, HandleOnObject, NEW t \in TA, NEW p \in Pcs, Goto(t, p),
           UNCHANGED <<dent, tee_pobjs, obj, po, torn>>, p # "pobj_rename",
           pc[t] \notin {"close", "pobj_rename"}
    PROVE  HandlesKept
<1>1. pc'[t] = p /\ \A u \in TA \ {t} : pc'[u] = pc[u]
  BY GotoFields
<1>2. \A u \in TA : u \notin torn' /\ InUse(u)' =>
         u \notin torn /\ InUse(u) /\ Name(u)' = Name(u)
  <2> SUFFICES ASSUME NEW u \in TA, u \notin torn', InUse(u)'
               PROVE  u \notin torn /\ InUse(u) /\ Name(u)' = Name(u)
    OBVIOUS
  <2>1. InUse(u)
    BY <1>1 DEF InUse
  <2>2. pc'[u] = "pobj_rename" <=> pc[u] = "pobj_rename"
    BY <1>1
  <2> QED
    BY <2>1, <2>2 DEF Name, MyId
<1> QED
  BY <1>2, HandlesLeft

LEMMA HandlesPlain ==
    ASSUME RefInv, HandleOnObject, NEW t \in TA,
           \/ ree_fs_open_fails(t) \/ ree_fs_create_fails(t) \/ NotWritten(t)
           \/ ree_fs_rename_fails(t) \/ enum_open(t) \/ enum_close(t)
           \/ EnumSteps(t) \/ PlainSteps(t)
    PROVE  HandlesKept
<1>1. CASE ree_fs_open_fails(t) \/ ree_fs_create_fails(t) \/ give_up(t)
  <2>1. /\ UNCHANGED <<dent, tee_pobjs, obj, po, torn>> /\ pc[t] \in {"open", "create"}
        /\ \E p \in {"release", "corrupt", "unmake"} : Goto(t, p)
    BY <1>1 DEF ree_fs_open_fails, ree_fs_create_fails, give_up, At
  <2>2. ~obj[t].fh
    BY <2>1, Known DEF Frame
  <2> QED
    BY <2>1, <2>2, HandlesGoto DEF Pcs
<1>2. CASE NotWritten(t)
  <2>1. pc[t] = "idle" /\ UNCHANGED <<pc, dent, tee_pobjs, obj, po, torn>>
    BY <1>2 DEF NotWritten, Writes, Has, At
  <2>2. Goto(t, "idle")
    BY <2>1, Types, Known DEF Goto
  <2> QED
    BY <2>1, <2>2, HandlesGoto DEF Pcs
<1>3. CASE ree_fs_rename_fails(t) \/ enum_open(t) \/ enum_close(t)
  <2>1. /\ UNCHANGED <<dent, tee_pobjs, obj, po, torn>>
        /\ pc[t] \in {"rename", "enum_open", "enum_close"}
        /\ \E p \in {"put", "enum_close"} : Goto(t, p)
    BY <1>3 DEF ree_fs_rename_fails, enum_open, enum_close, At
  <2> QED
    BY <2>1, HandlesGoto DEF Pcs
<1>4. CASE EnumSteps(t)
  <2>1. /\ UNCHANGED <<dent, tee_pobjs, obj, po, torn>> /\ pc[t] = "idle"
        /\ UNCHANGED pc \/ Goto(t, "enum_get")
    BY <1>4 DEF EnumSteps, closedir, start_enum, next_enum, At
  <2>2. UNCHANGED pc => Goto(t, "idle")
    BY <2>1, Types, Known DEF Goto
  <2> QED
    BY <2>1, <2>2, HandlesGoto DEF Pcs
<1>5. CASE tee_svc_storage_read_head(t) \/ ReadCorrupt(t) \/ obj_close(t)
  <2>1. /\ UNCHANGED <<dent, tee_pobjs, obj, po, torn>> /\ pc[t] \in {"head", "idle"}
        /\ \E p \in {"idle", "close", "corrupt"} : Goto(t, p)
    BY <1>5 DEF tee_svc_storage_read_head, ReadCorrupt, obj_close, Has, At
  <2> QED
    BY <2>1, HandlesGoto DEF Pcs
<1> QED
  BY <1>1, <1>2, <1>3, <1>4, <1>5 DEF PlainSteps

LEMMA CloseHandles ==
    ASSUME RefInv, HandleOnObject, NEW t \in TA, ree_fs_close(t)
    PROVE  HandlesKept
<1>1. ~obj'[t].fh /\ \A u \in TA \ {t} : obj'[u] = obj[u]
  BY CloseFields
<1>2. /\ Goto(t, "release") /\ UNCHANGED <<dent, tee_pobjs, po>> /\ torn' = torn \ {t}
  BY DEF ree_fs_close
<1>3. \A u \in TA \ {t} : pc'[u] = pc[u]
  BY <1>2, GotoFields DEF Pcs
<1>4. \A u \in TA : u \notin torn' /\ InUse(u)' =>
         u \notin torn /\ InUse(u) /\ Name(u)' = Name(u)
  BY <1>1, <1>2, <1>3 DEF InUse, Name, MyId
<1>5. /\ \A u \in TA : obj'[u].fh =>
            /\ obj'[u].idx = obj[u].idx /\ obj'[u].file = obj[u].file
            /\ obj'[u].linked = obj[u].linked /\ obj'[u].behind = obj[u].behind
            /\ obj'[u].flags = obj[u].flags
  BY <1>1, <1>3
<1> QED
  BY <1>2, <1>4, <1>5, HandlesLeft

LEMMA HandlesDir ==
    ASSUME RefInv, ListInv, HandleOnObject, NEW t \in TA, DirSteps(t)
    PROVE  HandlesKept
<1>1. CASE ree_fs_open(t)
  BY <1>1, OpenHandles
<1>2. CASE \/ ree_fs_open_fails(t) \/ ree_fs_create_fails(t) \/ NotWritten(t)
           \/ ree_fs_rename_fails(t) \/ enum_open(t) \/ enum_close(t)
  BY <1>2, HandlesPlain
<1>3. CASE \E ok \in BOOLEAN : ree_fs_create(t, ok)
  BY <1>3, CreateHandles
<1>4. CASE \E ok \in BOOLEAN : ree_fs_rename(t, ok)
  BY <1>4, RenameHandles
<1>5. CASE Wrote(t)
  BY <1>5, WriteHandles
<1>6. CASE Removing(t)
  <2>1. obj[t].po # 0 /\ pc[t] \in {"idle", "corrupt", "unmake"}
    BY <1>6, RemovalFields
  <2>2. PICK next \in After : Removes(t, next) /\ (next = "release" => ~obj[t].fh)
    BY <1>6, RemovalFields
  <2>3. CASE \E ok \in BOOLEAN : ree_fs_remove(t, ok, next)
    BY <2>1, <2>2, <2>3, RemoveHandles
  <2>4. CASE ree_fs_remove_fails(t, next)
    <3>1. Goto(t, next) /\ UNCHANGED <<dent, tee_pobjs, obj, po, torn>>
      BY <2>4 DEF ree_fs_remove_fails
    <3> QED
      BY <2>1, <3>1, HandlesGoto DEF Pcs, After
  <2> QED
    BY <2>2, <2>3, <2>4 DEF Removes
<1>7. CASE ree_fs_close(t)
  BY <1>7, CloseHandles
<1> QED
  BY <1>1, <1>2, <1>3, <1>4, <1>5, <1>6, <1>7, Zenon DEF DirSteps

LEMMA HandlesStep ==
    ASSUME RefInv, ListInv, HandleOnObject, [Next]_vars
    PROVE  HandlesKept
<1>1. CASE UNCHANGED vars
  BY <1>1 DEF vars, HandlesKept, HandleOnObject, InUse, OnEntry, is_free, MyId
<1>2. CASE Restarts
  <2>1. \A u \in TA : ~obj'[u].fh
    BY <1>2, BootedFields DEF Restarts
  <2> QED
    BY <2>1 DEF HandlesKept, HandleOnObject, InUse
<1>3. CASE \E t \in TA : ListSteps(t) \/ DirSteps(t) \/ EnumSteps(t) \/ PlainSteps(t)
  BY <1>3, HandlesList, HandlesDir, HandlesPlain
<1> QED
  BY <1>1, <1>2, <1>3, StepKinds

LEMMA IInvInit ==
    ASSUME Init
    PROVE  IInv
<1>1. \A t \in TA : ~obj[t].fh
  BY NothingTypes DEF Init
<1> QED
  BY <1>1, RefInvInit, ListInvInit DEF IInv, HandleOnObject, InUse

LEMMA IInvStep ==
    ASSUME IInv, [Next]_vars
    PROVE  IInv'
BY RefInvStep, ListInvStep, HandlesStep DEF IInv, HandlesKept

LEMMA IInvAlways == Spec => []IInv
BY IInvInit, IInvStep, PTL DEF Spec

(* A handle is on the object that it was opened for: whatever operations   *)
(* and errors of other instances there were, the entry that a handle       *)
(* remembers has its file and the name in its tee_pobj, and the file of a  *)
(* handle that does not share writing has been written by no one else      *)
(* behind the handle's tree, unless the history variable torn names it.    *)
THEOREM HandlesOnObjects == Spec => []HandleOnObject
BY IInvAlways, PTL DEF IInv

LEMMA SharingHolds ==
    ASSUME IInv
    PROVE  SharingRules
<1>1. CreatorAlone
  <2> SUFFICES ASSUME NEW s \in DOMAIN tee_pobjs, tee_pobjs[s].creating
               PROVE  Cardinality(Handles(s)) <= 1
    BY DEF CreatorAlone, Handles
  <2>1. s # 0 /\ s \in Nat
    BY Types, Known DEF IInv
  <2>2. \A t, u \in Handles(s) : t = u
    BY <2>1 DEF IInv, ListInv, AloneOK, Handles
  <2>3. CASE Handles(s) = {}
    BY <2>3, FS_EmptySet
  <2>4. CASE Handles(s) # {}
    <3>1. PICK t : Handles(s) = {t}
      BY <2>2, <2>4
    <3>2. Cardinality({t}) = 1
      BY FS_Singleton
    <3> QED
      BY <3>1, <3>2
  <2> QED
    BY <2>3, <2>4
<1>2. SharingKept
  <2> SUFFICES ASSUME NEW t \in TA \ torn, NEW u \in TA \ torn, t # u, InUse(t), InUse(u),
                      obj[t].idx = obj[u].idx
               PROVE  /\ "meta" \notin obj[t].flags
                      /\ "read" \in obj[t].flags => "share_read" \in obj[t].flags \cap obj[u].flags
                      /\ "write" \in obj[t].flags => "share_write" \in obj[t].flags \cap obj[u].flags
    BY DEF SharingKept
  <2>1. dent[obj[t].idx].id = Name(t) /\ dent[obj[u].idx].id = Name(u)
    BY OnObject DEF IInv, On
  <2>2. obj[t].po # 0 /\ obj[u].po # 0
    BY UseFields DEF IInv
  <2>3. tee_pobj_check_access(obj[t].flags, obj[u].flags)
    BY <2>1, <2>2, SameName DEF IInv
  <2> QED
    BY <2>3 DEF tee_pobj_check_access, Both, Either
<1> QED
  BY <1>1, <1>2 DEF SharingRules

(* Until a new object is complete no one but its creator has a handle of   *)
(* it, and two handles of one object admit each other, whatever renames,   *)
(* enumerations, failed creations and releases moved the objects of the    *)
(* list and their names.                                                   *)
THEOREM SharingObeyed == Spec => []SharingRules
BY IInvAlways, SharingHolds, PTL

\* A handle that another instance tears shares its object with that instance.
LEMMA TearsSharer ==
    ASSUME IInv, NEW t \in TA, NEW v \in TA, NEW i \in Idx, t \in Tear(v, i), t \notin torn,
           obj[v].po # 0, pc[v] # "pobj_rename", dent[i].id = MyId(v)
    PROVE  ~Exclusive(t)
<1> USE DEF IInv
<1>1. t # v /\ ~is_free(i) /\ InUse(t) /\ obj[t].file = dent[i].file
  BY DEF Tear, OnFile
<1>2. /\ ~is_free(obj[t].idx) /\ dent[obj[t].idx].file = obj[t].file
      /\ dent[obj[t].idx].id = Name(t) /\ obj[t].idx \in Idx /\ obj[t].po # 0
  BY <1>1, OnObject, UseFields DEF On, OnEntry
<1>3. obj[t].idx = i
  BY <1>1, <1>2, EntryOf
<1>4. Name(t) = Name(v)
  BY <1>2, <1>3 DEF Name
<1>5. tee_pobj_check_access(obj[t].flags, obj[v].flags)
  BY <1>1, <1>2, <1>4, SameName
<1> QED
  BY <1>5 DEF Exclusive, tee_pobj_check_access, Both, Either

\* A step of t's own that may tear its handle: a rename, or the removal of a corrupt object.
OwnStep(t) == pc[t] \in {"rename", "pobj_rename", "corrupt"} /\ pc'[t] # pc[t]

LEMMA ExclusiveStep ==
    ASSUME IInv, [Next]_vars, NEW t \in TA, t \notin torn, t \in torn', Exclusive(t), torn = {}
    PROVE  OwnStep(t)
<1> USE DEF IInv
<1>1. CASE UNCHANGED vars
  BY <1>1 DEF vars
<1>2. CASE Restarts
  BY <1>2, BootedFields DEF Restarts
<1>3. ASSUME NEW v \in TA, ListSteps(v)
      PROVE  OwnStep(t)
  <2>1. UNCHANGED torn \/ tee_pobj_rename(v)
    BY <1>3 DEF ListSteps, obj_open, obj_create, obj_rename, obj_release, put_second, enum_get,
                obj_create_final
  <2>2. tee_pobj_rename(v) /\ v = t
    BY <2>1 DEF tee_pobj_rename
  <2>3. Goto(t, "put") /\ pc[t] = "pobj_rename"
    BY <2>2 DEF tee_pobj_rename, At
  <2>4. pc'[t] = "put"
    BY <2>3, GotoFields DEF Pcs
  <2> QED
    BY <2>3, <2>4 DEF OwnStep
<1>4. ASSUME NEW v \in TA, EnumSteps(v) \/ PlainSteps(v)
      PROVE  FALSE
  BY <1>4 DEF EnumSteps, PlainSteps, closedir, start_enum, next_enum, give_up,
              tee_svc_storage_read_head, ReadCorrupt, obj_close
<1>5. ASSUME NEW v \in TA, DirSteps(v)
      PROVE  OwnStep(t)
  <2>1. CASE \/ ree_fs_open(v) \/ ree_fs_open_fails(v) \/ ree_fs_create_fails(v)
             \/ NotWritten(v) \/ ree_fs_rename_fails(v) \/ ree_fs_close(v)
             \/ enum_open(v) \/ enum_close(v)
    BY <2>1 DEF ree_fs_open, ree_fs_open_fails, ree_fs_create_fails, NotWritten,
                ree_fs_rename_fails, ree_fs_close, enum_open, enum_close
  <2>2. CASE \E ok \in BOOLEAN : ree_fs_create(v, ok)
    <3>1. PICK ok \in BOOLEAN : ree_fs_create(v, ok)
      BY <2>2
    <3>2. /\ pc[v] = "create" /\ obj[v].po # 0 /\ Place(v) \in Idx
          /\ \/ is_free(Place(v)) \/ dent[Place(v)].id = MyId(v)
          /\ torn' = torn \cup Tear(v, Place(v))
      BY <3>1, CreateEntry
    <3>3. t \in Tear(v, Place(v)) /\ ~is_free(Place(v))
      BY <3>2 DEF Tear
    <3> QED
      BY <3>2, <3>3, TearsSharer
  <2>3. CASE \E ok \in BOOLEAN : ree_fs_rename(v, ok)
    <3>1. /\ pc[v] = "rename" /\ (torn' = torn \/ torn' = torn \cup {v})
          /\ \E p \in {"pobj_rename", "put"} : Goto(v, p)
      BY <2>3 DEF ree_fs_rename, At
    <3>2. t = v
      BY <3>1
    <3>3. pc'[t] # "rename"
      BY <3>1, <3>2, GotoFields DEF Pcs
    <3> QED
      BY <3>1, <3>2, <3>3 DEF OwnStep
  <2>4. CASE Wrote(v)
    BY <2>4 DEF Wrote, TornBy
  <2>5. CASE Removing(v)
    <3>1. obj[v].po # 0 /\ pc[v] \in {"idle", "corrupt", "unmake"}
      BY <2>5, RemovalFields
    <3>2. PICK next \in After : Removes(v, next) /\ (next = "idle" => pc[v] = "corrupt")
      BY <2>5, RemovalFields
    <3>3. CASE ree_fs_remove_fails(v, next)
      BY <3>3 DEF ree_fs_remove_fails
    <3>4. CASE \E ok \in BOOLEAN : ree_fs_remove(v, ok, next)
      <4>1. PICK ok \in BOOLEAN : ree_fs_remove(v, ok, next)
        BY <3>4
      <4>2. PICK i \in Idx :
              /\ dent[i].id = MyId(v)
              /\ torn' = torn \cup Tear(v, i) \cup {u \in {v} : next = "idle" /\ obj[u].fh}
        BY <3>1, <4>1, RemoveFields
      <4>3. CASE t \in Tear(v, i)
        BY <3>1, <4>2, <4>3, TearsSharer
      <4>4. CASE t = v /\ next = "idle" /\ obj[v].fh
        <5>1. Goto(v, next)
          BY <4>1 DEF ree_fs_remove
        <5>2. pc[t] = "corrupt" /\ pc'[t] = "idle"
          BY <3>2, <4>4, <5>1, GotoFields DEF Pcs
        <5> QED
          BY <5>2 DEF OwnStep
      <4> QED
        BY <4>2, <4>3, <4>4
    <3> QED
      BY <3>2, <3>3, <3>4 DEF Removes
  <2> QED
    BY <1>5, <2>1, <2>2, <2>3, <2>4, <2>5, Zenon DEF DirSteps
<1> QED
  BY <1>1, <1>2, <1>3, <1>4, <1>5, StepKinds

(* While no handle is torn, a handle that has a right and shares none is   *)
(* torn only by a step of its own, a rename that failed half-way or the    *)
(* removal of an object that it found corrupt: no creation, removal or     *)
(* write of another instance takes its object from it.                     *)
THEOREM ExclusiveSafe == Spec => ExclusiveNotTorn
<1>1. IInv /\ [Next]_vars =>
        [\A t \in TA : t \notin torn /\ t \in torn' /\ Exclusive(t) =>
            (pc[t] \in {"rename", "pobj_rename", "corrupt"} /\ pc'[t] # pc[t]) \/ torn # {}]_vars
  BY ExclusiveStep DEF OwnStep
<1> QED
  BY <1>1, IInvAlways, PTL DEF Spec, ExclusiveNotTorn
=============================================================================
