------------------------------ MODULE Storage ------------------------------
(***************************************************************************)
(* Persistent objects: the storage syscalls of core/tee/tee_svc_storage.c  *)
(* and tee_obj.c, the list of open objects of core/tee/tee_pobj.c, and the *)
(* operations of the REE file system (core/tee/tee_ree_fs.c) on its        *)
(* directory file (core/tee/fs_dirfile.c).                                 *)
(*                                                                         *)
(* Several instances of one TA work on the same objects.  A syscall takes  *)
(* pobjs_mutex and ree_fs_mutex several times, never both at once; every   *)
(* section under one of the mutexes is a step, and the steps of different  *)
(* instances interleave.  An instance keeps at most one object and one     *)
(* enumerator open.  Any file operation may fail; one that changes the     *)
(* directory may also fail after its commit, when the monotonic counter    *)
(* cannot be advanced.  The device may be reset between any two steps.     *)
(*                                                                         *)
(* What is in a file is abstracted to whether its name in the directory    *)
(* leads to a legible version (the hash tree itself is in FsHtree), and    *)
(* whether someone else has written the file behind a handle's tree.  A    *)
(* write that fails may leave the file illegible: a truncation cuts it     *)
(* before the directory has the new hash, and a write after one whose      *)
(* commit failed overwrites the version that the directory still names.    *)
(***************************************************************************)
EXTENDS Naturals, Sequences, FiniteSets, SequencesExt

CONSTANTS
    TA,             \* the instances of the TA
    Id,             \* object identifiers
    Flags,          \* sets of TEE_DATA_FLAG_* that callers use
    MaxFiles,       \* bound: file numbers; at the bound realloc() fails
    None

FlagNames == {"read", "write", "meta", "share_read", "share_write", "overwrite"}

ASSUME FlagsOK == Flags \subseteq SUBSET FlagNames
ASSUME SizesOK == MaxFiles \in Nat \ {0} /\ IsFiniteSet(TA) /\ IsFiniteSet(Id)
ASSUME NoneOK == None \notin Id /\ None \notin 0 .. MaxFiles - 1

VARIABLES
    \* the directory file, as last committed
    dent,           \* its entries; there: hash and file fit together
    \* tee_ree_fs.c
    dirh,           \* ree_fs_dirh (open, with the bit string files) and ree_fs_dirh_refcount
    \* tee_pobj.c
    tee_pobjs,      \* the list of struct tee_pobj; its address is its place in the list
    \* per instance of the TA
    pc,
    obj,            \* the struct tee_obj it has, with its struct tee_fs_fd
    po,             \* the second pobj of a rename or an enumeration step
    efh,            \* an enumeration step has the file open
    en,             \* struct tee_storage_enum and its struct tee_fs_dir
    \* what has become of the core
    dead,           \* the assertion that failed, or the bad access made
    torn            \* history: whose handle the directory was changed behind (see Tear)

vars == <<dent, dirh, tee_pobjs, pc, obj, po, efh, en, dead, torn>>

Files == 0 .. MaxFiles - 1
Idx == 1 .. Cardinality(Id)
Places == 1 .. 2 * Cardinality(TA)
-----------------------------------------------------------------------------
(* The directory file.  A cleared entry has file_number 0.                 *)

Cleared == [id |-> None, file |-> 0, there |-> TRUE]

is_free(i) == dent[i].id = None

Named == {dent[i].file : i \in {j \in Idx : ~is_free(j)}}

\* tee_fs_dirfile_find(); 0: TEE_ERROR_ITEM_NOT_FOUND
tee_fs_dirfile_find(id) ==
    IF \E i \in Idx : dent[i].id = id
    THEN CHOOSE i \in Idx : dent[i].id = id /\ \A j \in 1 .. i - 1 : dent[j].id # id
    ELSE 0

find_empty_idx == CHOOSE i \in Idx : is_free(i) /\ \A j \in 1 .. i - 1 : ~is_free(j)

\* tee_fs_dirfile_get_next(), after index i; 0: no more
tee_fs_dirfile_get_next(i) ==
    IF \E j \in i + 1 .. Cardinality(Id) : ~is_free(j)
    THEN CHOOSE j \in i + 1 .. Cardinality(Id) :
            ~is_free(j) /\ \A k \in i + 1 .. j - 1 : is_free(k)
    ELSE 0

\* dirh->files while an operation runs: get_dirh() opens the directory if needed
files == IF dirh.open THEN dirh.files ELSE Named

CanGetTmp == Files \ files # {}
\* Mutant: numbers that are in use are not passed over.
GetTmpAnyNumber == CHOOSE n \in Files : \A m \in Files : n <= m

tee_fs_dirfile_get_tmp == CHOOSE n \in Files \ files : \A m \in Files \ files : n <= m
-----------------------------------------------------------------------------
(* ree_fs_dirh is shared and counted: by open files and by enumerators.    *)

\* an enumerator keeps the address; closing the directory leaves it dangling
Orphan(u) == [en[u] EXCEPT !.stale = en[u].dir]

\* from get_dirh() to put_dirh(): refs is the count that is left, fail asks to close
put_dirh(fail, refs, bits) ==
    LET open == refs > 0 /\ ~fail
    IN  /\ dirh' = [open |-> open, files |-> IF open THEN bits ELSE {}, refcount |-> refs]
        /\ en' = IF open \/ ~dirh.open THEN en ELSE [u \in TA |-> Orphan(u)]

\* an operation that keeps no reference, and one that does
Done(bits) == put_dirh(FALSE, dirh.refcount, bits)
Kept(bits) == put_dirh(FALSE, dirh.refcount + 1, bits)
Failed == put_dirh(TRUE, dirh.refcount, {})

\* one that has committed a change: it succeeds (ok) or the counter is not advanced
Committed(ok, bits) == IF ok THEN Done(bits) ELSE Failed

\* put_dirh_primitive(false), as ree_fs_close() calls it
put_dirh_primitive ==
    /\ dirh' = [open |-> dirh.open /\ dirh.refcount > 1,
                files |-> IF dirh.refcount > 1 THEN dirh.files ELSE {},
                refcount |-> dirh.refcount - 1]
    /\ UNCHANGED en
-----------------------------------------------------------------------------
(* tee_pobj.c                                                              *)

Both(f, o, n) == f \in o /\ f \in n
Either(f, o, n) == f \in o \/ f \in n

\* Mutant: only the flags of the new handle are looked at.
CheckNewFlagsOnly(o, n) ==
    /\ "meta" \notin n
    /\ "read" \in n => "share_read" \in n
    /\ "write" \in n => "share_write" \in n

tee_pobj_check_access(o, n) ==
    /\ ~Either("meta", o, n)
    /\ Either("read", o, n) => Both("share_read", o, n)
    /\ ("share_read" \in o) = ("share_read" \in n)
    /\ Either("write", o, n) => Both("share_write", o, n)
    /\ ("share_write" \in o) = ("share_write" \in n)

\* the last match in the list; 0: none
Lookup(id) ==
    LET hits == {s \in DOMAIN tee_pobjs : tee_pobjs[s].id = id}
    IN  IF hits = {} THEN 0 ELSE CHOOSE s \in hits : \A r \in hits : r <= s

\* Mutant: whoever overwrites the object is let in.
AdmittedOverwriting(o, flags, usage) ==
    \/ usage = "enum"
    \/ /\ ~o.creating
       /\ usage = "create" => "overwrite" \in flags
       /\ usage # "create" => tee_pobj_check_access(o.flags, flags)

\* which uses of an object that is in the list are let in
Admitted(o, flags, usage) ==
    \/ usage = "enum"
    \/ /\ ~o.creating
       /\ usage = "create" => "overwrite" \in flags
       /\ tee_pobj_check_access(o.flags, flags)

\* s is what tee_pobj_get() returns; it may also run out of memory, which changes nothing
tee_pobj_get(id, flags, usage, s) ==
    IF Lookup(id) # 0
    THEN /\ s = Lookup(id)
         /\ Admitted(tee_pobjs[s], flags, usage)
         /\ tee_pobjs' = [tee_pobjs EXCEPT ![s].refcnt = @ + 1]
    ELSE /\ s = Len(tee_pobjs) + 1
         /\ tee_pobjs' = Append(tee_pobjs, [id |-> id, flags |-> flags \ {"overwrite"},
                                           creating |-> usage = "create", refcnt |-> 1])

\* the last release frees the object; those behind it move up a place
tee_pobj_release(s) ==
    tee_pobjs' = IF tee_pobjs[s].refcnt = 1 THEN RemoveAt(tee_pobjs, s)
                 ELSE [tee_pobjs EXCEPT ![s].refcnt = @ - 1]
Moved(s, r) == IF tee_pobjs[s].refcnt = 1 /\ r > s THEN r - 1 ELSE r
-----------------------------------------------------------------------------
NoObj == [po |-> 0, flags |-> {}, fh |-> FALSE, file |-> 0, idx |-> 0,
          behind |-> FALSE, linked |-> TRUE]
NoEnum == [fops |-> FALSE, dir |-> FALSE, stale |-> FALSE, idx |-> 0, oid |-> None]

NoDirh == [open |-> FALSE, files |-> {}, refcount |-> 0]

Init ==
    /\ dent = [i \in Idx |-> Cleared]
    /\ dirh = NoDirh
    /\ tee_pobjs = <<>>
    /\ pc = [t \in TA |-> "idle"]
    /\ obj = [t \in TA |-> NoObj]
    /\ po = [t \in TA |-> 0] /\ efh = [t \in TA |-> FALSE]
    /\ en = [t \in TA |-> NoEnum]
    /\ dead = "no"
    /\ torn = {}

Goto(t, p) == pc' = [pc EXCEPT ![t] = p]
At(t, p) == dead = "no" /\ pc[t] = p
MyId(t) == tee_pobjs[obj[t].po].id
Unused(t) == obj[t].po = 0 /\ ~en[t].fops        \* bound: one object or one enumerator
Has(t) == At(t, "idle") /\ obj[t].po # 0        \* a syscall on an open object begins

\* a handle that will be used again, and not only closed
InUse(t) == obj[t].fh /\ pc[t] # "close"

OnFile(u, n) == obj[u].fh /\ obj[u].linked /\ obj[u].file = n

\* the file of entry i has been removed: handles keep the file, no one else finds it
Unlink(u, i) == [obj[u] EXCEPT !.linked = @ /\ ~(~is_free(i) /\ OnFile(u, dent[i].file))]

\* t has written or cut its file: the trees of other handles are out of date
Outdate(t, u) ==
    [obj[u] EXCEPT !.behind = @ \/ (u # t /\ obj[t].linked /\ OnFile(u, obj[t].file))]

\* t has spoilt the version of its file that an entry names
Spoil(t) ==
    [i \in Idx |-> [dent[i] EXCEPT !.there = @ /\ ~(~is_free(i) /\ OnFile(t, dent[i].file))]]

\* the entry i changes: a handle of its file that another instance has is torn from it
Tear(t, i) == {u \in TA \ {t} : ~is_free(i) /\ InUse(u) /\ OnFile(u, dent[i].file)}

\* what is in memory when the core starts
Booted(why) ==
    /\ dirh' = NoDirh
    /\ tee_pobjs' = <<>>
    /\ pc' = [t \in TA |-> "idle"]
    /\ obj' = [t \in TA |-> NoObj]
    /\ po' = [t \in TA |-> 0] /\ efh' = [t \in TA |-> FALSE]
    /\ en' = [t \in TA |-> NoEnum]
    /\ torn' = {}
    /\ dead' = why
    /\ UNCHANGED dent

\* an assertion fails or a bad address is used: the core stops, only a reset helps
Panic(why) == Booted(why)
-----------------------------------------------------------------------------
(* Opening an object                                                       *)

\* syscall_storage_obj_open() up to tee_svc_storage_read_head()
obj_open(t, id, flags) ==
    /\ At(t, "idle") /\ Unused(t)
    /\ "overwrite" \notin flags
    /\ \E s \in Places :
          /\ tee_pobj_get(id, flags, "open", s)
          /\ obj' = [obj EXCEPT ![t] = [NoObj EXCEPT !.po = s, !.flags = flags]]
    /\ Goto(t, "open")
    /\ UNCHANGED <<dent, dirh, po, efh, en, dead, torn>>

\* ree_fs_open() finds the object and opens its file
ree_fs_open(t) ==
    LET i == tee_fs_dirfile_find(MyId(t))
    IN  /\ At(t, "open")
        /\ i # 0 /\ dent[i].there
        /\ obj' = [obj EXCEPT ![t] = [@ EXCEPT !.fh = TRUE, !.file = dent[i].file, !.idx = i]]
        /\ Kept(files)
        /\ Goto(t, "head")
        /\ UNCHANGED <<dent, tee_pobjs, po, efh, dead, torn>>

\* no such object, or it cannot be read now: the handle is given up; a file that does
\* not fit its entry, or that the normal world does not have, is a corrupt object
ree_fs_open_fails(t) ==
    LET i == tee_fs_dirfile_find(MyId(t))
    IN  /\ At(t, "open")
        /\ Failed
        /\ Goto(t, "release") \/ (i # 0 /\ Goto(t, "corrupt"))
        /\ UNCHANGED <<dent, tee_pobjs, obj, po, efh, dead, torn>>

\* the syscall gives up before it calls the file system: out of memory, bad attributes
give_up(t) ==
    /\ pc[t] \in {"open", "create"} /\ dead = "no"
    /\ Goto(t, "release")
    /\ UNCHANGED <<dent, dirh, tee_pobjs, obj, po, efh, en, dead, torn>>

\* the head and the attributes are read, in sections of their own; attributes that
\* cannot be read, but for lack of memory, make the object corrupt
tee_svc_storage_read_head(t) ==
    /\ At(t, "head")
    /\ \E next \in {"idle", "close", "corrupt"} : Goto(t, next)
    /\ UNCHANGED <<dent, dirh, tee_pobjs, obj, po, efh, en, dead, torn>>
-----------------------------------------------------------------------------
(* Creating an object                                                      *)

obj_create(t, id, flags) ==
    /\ At(t, "idle") /\ Unused(t)
    /\ \E s \in Places :
          /\ tee_pobj_get(id, flags, "create", s)
          /\ obj' = [obj EXCEPT ![t] = [NoObj EXCEPT !.po = s, !.flags = flags]]
    /\ Goto(t, "create")
    /\ UNCHANGED <<dent, dirh, po, efh, en, dead, torn>>

\* ree_fs_create(): a new file gets the name, in the place of the one that had it; if
\* the counter fails after the commit (~ok), the new file is removed and the old one kept
ree_fs_create(t, ok) ==
    LET id == MyId(t)
        n == tee_fs_dirfile_get_tmp
        old == tee_fs_dirfile_find(id)
        i == IF old = 0 THEN find_empty_idx ELSE old
        fdp == [obj[t] EXCEPT !.flags = @ \ {"overwrite"}, !.fh = TRUE, !.file = n, !.idx = i]
    IN  /\ At(t, "create")
        /\ CanGetTmp
        /\ old = 0 \/ "overwrite" \in obj[t].flags
        /\ dent' = [dent EXCEPT ![i] = [id |-> id, file |-> n, there |-> ok]]
        /\ IF ok
           THEN /\ Kept(files \cup {n})
                /\ obj' = [u \in TA |-> IF u = t THEN fdp
                                       ELSE [Unlink(u, i) EXCEPT !.behind = @ \/ OnFile(u, n)]]
                /\ Goto(t, "final")
           ELSE /\ Failed
                /\ UNCHANGED obj
                /\ Goto(t, "release") \/ Goto(t, "unmake")
        /\ torn' = torn \cup Tear(t, i)
        /\ UNCHANGED <<tee_pobjs, po, efh, dead>>

\* Mutant: the reference to the directory is kept after an error.
CreateFailsKeepsDirh(t) ==
    /\ At(t, "create")
    /\ Kept(files)
    /\ Goto(t, "release")
    /\ UNCHANGED <<dent, tee_pobjs, obj, po, efh, dead, torn>>

\* any error before the commit, the name being taken included; one of those that stand
\* for a corrupt object has the name removed, whose ever object it is
ree_fs_create_fails(t) ==
    /\ At(t, "create")
    /\ Failed
    /\ Goto(t, "release") \/ Goto(t, "unmake")
    /\ UNCHANGED <<dent, tee_pobjs, obj, po, efh, dead, torn>>

\* set_name() and ree_fs_rename() take a lookup that fails for a name that is free; but
\* it has closed the tree of the directory, and the next lookup uses a NULL pointer
find_on_closed(t) ==
    /\ At(t, "create") \/ At(t, "rename")
    /\ Panic("closed dirf")

\* the caller's handle is written and tee_pobj_create_final() called; the object is closed
\* again when no handle was asked for or it could not be written; the branch that makes
\* a transient object persistent never calls tee_pobj_create_final()
obj_create_final(t) ==
    /\ At(t, "final")
    /\ \/ /\ tee_pobjs' = [tee_pobjs EXCEPT ![obj[t].po].creating = FALSE]
          /\ Goto(t, "idle") \/ Goto(t, "close")
       \/ /\ UNCHANGED tee_pobjs
          /\ Goto(t, "idle") \/ Goto(t, "close")
    /\ UNCHANGED <<dent, dirh, obj, po, efh, en, dead, torn>>
-----------------------------------------------------------------------------
(* Writing and truncating                                                  *)

Writes(t) == Has(t) /\ obj[t].fh /\ "write" \in obj[t].flags

\* a torn handle takes those with it whose file it writes
TornBy(t) == {u \in TA : t \in torn /\ obj[u].fh /\ obj[u].file = obj[t].file}

\* whether the entry fits the version that t writes: that of another file of the same
\* number does not, and a tree that is behind may have lost blocks
Fits(t) ==
    LET o == obj[t]
    IN  IF is_free(o.idx) THEN {TRUE}
        ELSE IF ~o.linked THEN {FALSE}
        ELSE IF o.behind THEN BOOLEAN ELSE {TRUE}

\* the file gets a new version and its entry the hash of it; the entry of a handle whose
\* file is gone may have been given to another file, of the same number
ree_fs_write(t, ok) ==
    LET o == obj[t]
    IN  /\ Writes(t)
        /\ dent[o.idx].file = o.file /\ o.file \in files
        /\ \E written \in {dent, Spoil(t)}, fits \in Fits(t) :
              dent' = [written EXCEPT ![o.idx].there = fits]
        /\ obj' = [u \in TA |-> Outdate(t, u)]
        /\ Committed(ok, files)
        /\ torn' = torn \cup TornBy(t)
        /\ UNCHANGED <<tee_pobjs, pc, po, efh, dead>>

\* nothing was written, or the directory does not know of it: the version that it names
\* is still there, or is overwritten or cut
ree_fs_write_fails(t) ==
    /\ Writes(t)
    /\ Failed
    /\ \/ UNCHANGED <<dent, obj, torn>>
       \/ /\ dent' \in {dent, Spoil(t)}
          /\ obj' = [u \in TA |-> Outdate(t, u)]
          /\ torn' = torn \cup TornBy(t)
    /\ UNCHANGED <<tee_pobjs, pc, po, efh, dead>>

\* the assertions of tee_fs_dirfile_update_hash()
update_hash_asserts(t) ==
    /\ Writes(t)
    /\ \/ dent[obj[t].idx].file # obj[t].file /\ Panic("file_number")
       \/ dent[obj[t].idx].file = obj[t].file /\ obj[t].file \notin files /\ Panic("test_file")

\* a read or a write meets a block that is missing or, in a tree that is out of date, of
\* another version
ReadCorrupt(t) ==
    /\ Has(t) /\ obj[t].fh /\ {"read", "write"} \cap obj[t].flags # {}
    /\ Goto(t, "corrupt")
    /\ UNCHANGED <<dent, dirh, tee_pobjs, obj, po, efh, en, dead, torn>>
-----------------------------------------------------------------------------
(* Deleting and closing                                                    *)

\* ree_fs_remove() of the object's name, by t, which then goes to next
ree_fs_remove(t, ok, next) ==
    LET i == tee_fs_dirfile_find(MyId(t))
    IN  /\ i # 0
        /\ dent' = [dent EXCEPT ![i] = Cleared]
        /\ Committed(ok, files \ {dent[i].file})
        /\ obj' = [u \in TA |-> IF ok THEN Unlink(u, i) ELSE obj[u]]
        /\ torn' = torn \cup Tear(t, i) \cup {u \in {t} : next = "idle" /\ obj[u].fh}
        /\ Goto(t, next)
        /\ UNCHANGED <<tee_pobjs, po, efh, dead>>

ree_fs_remove_fails(t, next) ==
    /\ Failed
    /\ Goto(t, next)
    /\ UNCHANGED <<dent, tee_pobjs, obj, po, efh, dead, torn>>

Removes(t, next) ==
    (\E ok \in BOOLEAN : ree_fs_remove(t, ok, next)) \/ ree_fs_remove_fails(t, next)

\* syscall_storage_obj_del(): removed, and closed whatever came of it
obj_del(t) == Has(t) /\ obj[t].fh /\ "meta" \in obj[t].flags /\ Removes(t, "close")

\* closed, unless TA_FLAG_DONT_CLOSE_HANDLE_ON_CORRUPT_OBJECT
remove_corrupt_obj(t) == At(t, "corrupt") /\ (Removes(t, "close") \/ Removes(t, "idle"))

\* the error path of syscall_storage_obj_create()
create_unmake(t) == At(t, "unmake") /\ Removes(t, "release")

obj_close(t) ==
    /\ Has(t)
    /\ Goto(t, "close")
    /\ UNCHANGED <<dent, dirh, tee_pobjs, obj, po, efh, en, dead, torn>>

\* tee_obj_close(): ree_fs_close() and then tee_pobj_release()
ree_fs_close(t) ==
    /\ At(t, "close")
    /\ IF obj[t].fh THEN put_dirh_primitive ELSE UNCHANGED <<dirh, en>>
    /\ obj' = [obj EXCEPT ![t].fh = FALSE]
    /\ torn' = torn \ {t}
    /\ Goto(t, "release")
    /\ UNCHANGED <<dent, tee_pobjs, po, efh, dead>>

obj_release(t) ==
    /\ At(t, "release")
    /\ tee_pobj_release(obj[t].po)
    /\ obj' = [u \in TA |-> IF u = t THEN NoObj
                           ELSE [obj[u] EXCEPT !.po = Moved(obj[t].po, @)]]
    /\ po' = [u \in TA |-> Moved(obj[t].po, po[u])]
    /\ Goto(t, "idle")
    /\ UNCHANGED <<dent, dirh, efh, en, dead, torn>>
-----------------------------------------------------------------------------
(* Renaming: the new name is reserved, the directory changed, and then the *)
(* name in the object.                                                     *)

obj_rename(t, id) ==
    /\ Has(t) /\ obj[t].fh /\ "meta" \in obj[t].flags
    /\ \E s \in Places :
          /\ tee_pobj_get(id, {"meta"}, "rename", s)
          /\ po' = [po EXCEPT ![t] = s]
    /\ Goto(t, "rename")
    /\ UNCHANGED <<dent, dirh, obj, efh, en, dead, torn>>

\* Mutant: the new name is not looked up.
RenameOverwrites(t, ok) ==
    LET new == tee_pobjs[po[t]].id
        i == tee_fs_dirfile_find(MyId(t))
        j == tee_fs_dirfile_find(new)
    IN  /\ At(t, "rename")
        /\ i # 0
        /\ dent' = [[dent EXCEPT ![IF j = 0 THEN i ELSE j] = Cleared] EXCEPT
                        ![i] = [dent[i] EXCEPT !.id = new]]
        /\ Committed(ok, files)
        /\ Goto(t, IF ok THEN "pobj_rename" ELSE "put")
        /\ torn' = IF ok THEN torn ELSE torn \cup {t}
        /\ UNCHANGED <<tee_pobjs, obj, po, efh, dead>>

ree_fs_rename(t, ok) ==
    LET new == tee_pobjs[po[t]].id
        i == tee_fs_dirfile_find(MyId(t))
    IN  /\ At(t, "rename")
        /\ tee_fs_dirfile_find(new) = 0 /\ i # 0
        /\ dent' = [dent EXCEPT ![i].id = new]
        /\ Committed(ok, files)
        /\ Goto(t, IF ok THEN "pobj_rename" ELSE "put")
        /\ torn' = IF ok THEN torn ELSE torn \cup {t}
        /\ UNCHANGED <<tee_pobjs, obj, po, efh, dead>>

ree_fs_rename_fails(t) ==
    /\ At(t, "rename")
    /\ Failed
    /\ Goto(t, "put")
    /\ UNCHANGED <<dent, tee_pobjs, obj, po, efh, dead, torn>>

\* Mutant: the name in the object is left as it was.
PobjKeepsName(t) ==
    /\ At(t, "pobj_rename")
    /\ Goto(t, "put")
    /\ UNCHANGED <<dent, dirh, tee_pobjs, obj, po, efh, en, dead, torn>>

\* refused when anyone else counts a reference, an enumeration included; or out of memory
tee_pobj_rename(t) ==
    /\ At(t, "pobj_rename")
    /\ \/ /\ tee_pobjs[obj[t].po].refcnt = 1
          /\ tee_pobjs' = [tee_pobjs EXCEPT ![obj[t].po].id = tee_pobjs[po[t]].id]
          /\ UNCHANGED torn
       \/ torn' = torn \cup {t} /\ UNCHANGED tee_pobjs
    /\ Goto(t, "put")
    /\ UNCHANGED <<dent, dirh, obj, po, efh, en, dead>>

put_second(t) ==
    /\ At(t, "put")
    /\ tee_pobj_release(po[t])
    /\ po' = [u \in TA |-> IF u = t THEN 0 ELSE Moved(po[t], po[u])]
    /\ obj' = [u \in TA |-> [obj[u] EXCEPT !.po = Moved(po[t], @)]]
    /\ Goto(t, "idle")
    /\ UNCHANGED <<dent, dirh, efh, en, dead, torn>>
-----------------------------------------------------------------------------
(* Enumerators                                                             *)

\* closedir, for syscall_storage_reset_enum(), _free_enum() and _start_enum(): the
\* assertion in put_dirh() compares the addresses
closedir(t) ==
    /\ At(t, "idle") /\ en[t].fops
    /\ IF en[t].stale THEN Panic("dirh")
       ELSE /\ dirh' = IF ~en[t].dir THEN dirh
                       ELSE [open |-> dirh.refcount > 1,
                             files |-> IF dirh.refcount > 1 THEN dirh.files ELSE {},
                             refcount |-> dirh.refcount - 1]
            /\ en' = [en EXCEPT ![t] = NoEnum]
            /\ UNCHANGED <<dent, tee_pobjs, pc, obj, po, efh, dead, torn>>

\* start_enum and opendir: without an object, or on an error, there is no dir but fops is set
start_enum(t) ==
    /\ At(t, "idle") /\ Unused(t)
    /\ \/ /\ tee_fs_dirfile_get_next(0) # 0
          /\ dirh' = [open |-> TRUE, files |-> files, refcount |-> dirh.refcount + 1]
          /\ en' = [en EXCEPT ![t] = [NoEnum EXCEPT !.fops = TRUE, !.dir = TRUE]]
       \/ /\ en' = [en EXCEPT ![t] = [NoEnum EXCEPT !.fops = TRUE]]
          /\ \/ UNCHANGED dirh
             \/ /\ dirh.refcount > 0
                /\ dirh' = [dirh EXCEPT !.open = TRUE, !.files = files]
    /\ UNCHANGED <<dent, tee_pobjs, pc, obj, po, efh, dead, torn>>

\* readdir through the address the enumerator got when it was started
next_enum(t) ==
    LET i == tee_fs_dirfile_get_next(en[t].idx)
    IN  /\ At(t, "idle") /\ en[t].fops
        /\ IF ~en[t].dir THEN Panic("no dir")
           ELSE IF en[t].stale THEN Panic("freed dirh")
           ELSE /\ i # 0
                /\ en' = [en EXCEPT ![t].idx = i, ![t].oid = dent[i].id]
                /\ Goto(t, "enum_get")
                /\ UNCHANGED <<dent, dirh, tee_pobjs, obj, po, efh, dead, torn>>

enum_get(t) ==
    /\ At(t, "enum_get")
    /\ \/ /\ \E s \in Places :
                /\ tee_pobj_get(en[t].oid, {}, "enum", s)
                /\ po' = [po EXCEPT ![t] = s]
          /\ Goto(t, "enum_open")
       \/ Goto(t, "idle") /\ UNCHANGED <<tee_pobjs, po>>
    /\ en' = [en EXCEPT ![t].oid = None]
    /\ UNCHANGED <<dent, dirh, obj, efh, dead, torn>>

enum_open(t) ==
    LET i == tee_fs_dirfile_find(tee_pobjs[po[t]].id)
    IN  /\ At(t, "enum_open")
        /\ \/ /\ i # 0 /\ dent[i].there
              /\ Kept(files)
              /\ efh' = [efh EXCEPT ![t] = TRUE]
              /\ Goto(t, "enum_close")
           \/ Failed /\ Goto(t, "put") /\ UNCHANGED efh
        /\ UNCHANGED <<dent, tee_pobjs, obj, po, dead, torn>>

enum_close(t) ==
    /\ At(t, "enum_close")
    /\ put_dirh_primitive
    /\ efh' = [efh EXCEPT ![t] = FALSE]
    /\ Goto(t, "put")
    /\ UNCHANGED <<dent, tee_pobjs, obj, po, dead, torn>>
-----------------------------------------------------------------------------
\* reset of the device: what is in memory is gone
Reset == Booted("no")

Syscall(t) ==
    \/ \E id \in Id, flags \in Flags : obj_open(t, id, flags) \/ obj_create(t, id, flags)
    \/ \E id \in Id : obj_rename(t, id)
    \/ \E ok \in BOOLEAN : ree_fs_write(t, ok)
    \/ ree_fs_write_fails(t) \/ update_hash_asserts(t) \/ ReadCorrupt(t)
    \/ obj_del(t) \/ obj_close(t)
    \/ closedir(t) \/ start_enum(t) \/ next_enum(t)

Step(t) ==
    \/ ree_fs_open(t) \/ ree_fs_open_fails(t) \/ tee_svc_storage_read_head(t)
    \/ \E ok \in BOOLEAN : ree_fs_create(t, ok) \/ ree_fs_rename(t, ok)
    \/ ree_fs_create_fails(t) \/ give_up(t) \/ obj_create_final(t)
    \/ find_on_closed(t) \/ create_unmake(t)
    \/ remove_corrupt_obj(t) \/ ree_fs_close(t) \/ obj_release(t)
    \/ ree_fs_rename_fails(t) \/ tee_pobj_rename(t) \/ put_second(t)
    \/ enum_get(t) \/ enum_open(t) \/ enum_close(t)

Next == Reset \/ \E t \in TA : Syscall(t) \/ Step(t)

Spec == Init /\ [][Next]_vars
-----------------------------------------------------------------------------
Pcs == {"idle", "open", "head", "corrupt", "create", "unmake", "final", "close", "release",
        "rename", "pobj_rename", "put", "enum_get", "enum_open", "enum_close"}

TypeOK ==
    /\ dent \in [Idx -> [id : Id \cup {None}, file : Files, there : BOOLEAN]]
    /\ dirh \in [open : BOOLEAN, files : SUBSET Files, refcount : 0 .. 3 * Cardinality(TA)]
    /\ Len(tee_pobjs) \in Places \cup {0}
    /\ tee_pobjs \in Seq([id : Id, flags : SUBSET FlagNames, creating : BOOLEAN,
                         refcnt : Places])
    /\ pc \in [TA -> Pcs]
    /\ obj \in [TA -> [po : Places \cup {0}, flags : SUBSET FlagNames, fh : BOOLEAN,
                       file : Files, idx : Idx \cup {0}, behind : BOOLEAN, linked : BOOLEAN]]
    /\ po \in [TA -> Places \cup {0}]
    /\ efh \in [TA -> BOOLEAN]
    /\ en \in [TA -> [fops : BOOLEAN, dir : BOOLEAN, stale : BOOLEAN,
                      idx : Idx \cup {0}, oid : Id \cup {None}]]
    /\ dead \in {"no", "file_number", "test_file", "dirh", "no dir", "freed dirh", "closed dirf"}
    /\ torn \subseteq TA

(* An object in the list of tee_pobj.c counts exactly the handles, renames *)
(* and enumeration steps that use it, whatever error any of them met; it   *)
(* leaves the list with the last of them and not before.                   *)
PobjRefsExact ==
    \A s \in Places :
        (IF s <= Len(tee_pobjs) THEN tee_pobjs[s].refcnt ELSE 0)
            = Cardinality({t \in TA : obj[t].po = s}) + Cardinality({t \in TA : po[t] = s})

(* ree_fs_dirh_refcount counts the open files and the open enumerators,    *)
(* although errors close ree_fs_dirh under them and later operations open  *)
(* it again; the directory is closed when the last of them goes; and while *)
(* it is open its bit string has every file number that an entry uses, as  *)
(* tee_fs_dirfile_find(), _remove() and _update_hash() assert.             *)
DirhRefsExact ==
    /\ dirh.refcount = Cardinality({t \in TA : obj[t].fh}) + Cardinality({t \in TA : efh[t]})
                          + Cardinality({t \in TA : en[t].dir})
    /\ dirh.open => dirh.refcount > 0 /\ Named \subseteq dirh.files

(* The directory never has a name twice (ree_fs_remove() asserts that no   *)
(* second one is left) nor two names for one file number, and no temporary *)
(* file of ree_fs_create() takes the number of a file with a name,         *)
(* whatever was closed, reopened, failed or reset in between.              *)
DirectoryUnique ==
    \A i, j \in Idx : i # j /\ ~is_free(i) /\ ~is_free(j) =>
        dent[i].id # dent[j].id /\ dent[i].file # dent[j].file

(* Until syscall_storage_obj_create() is through with a new object, no one *)
(* else gets a handle of it; enumerations may look at it.                  *)
CreatorAlone ==
    \A s \in DOMAIN tee_pobjs : tee_pobjs[s].creating => Cardinality({t \in TA : obj[t].po = s}) <= 1

\* The handle's file is the one that its entry names.
OnEntry(t) == obj[t].linked /\ ~is_free(obj[t].idx) /\ dent[obj[t].idx].file = obj[t].file

(* Two handles of one object admit each other: none may change its name    *)
(* ("meta is exclusive") and where one reads or writes, all of them were   *)
(* opened to share that (the specification that tee_pobj_check_access()    *)
(* quotes), with renames and enumerations in between.  Torn handles are excepted: those that a rename left with   *)
(* the old name when it failed half-way (the counter was not advanced, or  *)
(* tee_pobj_rename() was refused because an enumeration step counted a     *)
(* reference), and those whose object a sharing handle replaced or removed.*)
SharingKept ==
    \A t, u \in TA \ torn :
        t # u /\ InUse(t) /\ InUse(u) /\ OnEntry(t) /\ OnEntry(u) /\ obj[t].idx = obj[u].idx =>
            /\ "meta" \notin obj[t].flags
            /\ "read" \in obj[t].flags => "share_read" \in obj[t].flags \cap obj[u].flags
            /\ "write" \in obj[t].flags => "share_write" \in obj[t].flags \cap obj[u].flags

(* The entry of a handle that is not torn names the handle's file under    *)
(* the name in its tee_pobj: the assertions of                             *)
(* tee_fs_dirfile_update_hash() hold.  If writing is not shared, nobody    *)
(* else has written the file: the handle's tree is its own last version,   *)
(* and what it writes does not undo a write of others.  (Whether the       *)
(* directory leads to a legible version is another matter: see Spoil.)     *)
HandleOnObject ==
    \A t \in TA \ torn : InUse(t) =>
        /\ OnEntry(t)
        /\ dent[obj[t].idx].id = IF pc[t] = "pobj_rename" THEN tee_pobjs[po[t]].id ELSE MyId(t)
        /\ "share_write" \notin obj[t].flags => ~obj[t].behind

\* A handle with rights that shares none of them.
Exclusive(t) ==
    /\ {"share_read", "share_write"} \cap obj[t].flags = {}
    /\ {"read", "write", "meta"} \cap obj[t].flags # {}

(* A handle that shares nothing is torn only by a step of its own, a       *)
(* rename that failed half-way or the removal of an object that it found   *)
(* corrupt, or by a handle that was torn before.  (A handle opened         *)
(* without any right excludes no one: tee_pobj_check_access() lets a       *)
(* creation in that has no right but to overwrite.)                        *)
ExclusiveNotTorn ==
    [][\A t \in TA : t \notin torn /\ t \in torn' /\ Exclusive(t) =>
          (pc[t] \in {"rename", "pobj_rename", "corrupt"} /\ pc'[t] # pc[t]) \/ torn # {}]_vars

\* The directory as a store of objects: what each name stands for.
Store == INSTANCE ObjectStore WITH
    objs <- [id \in Id |-> LET i == tee_fs_dirfile_find(id)
                          IN  IF i = 0 THEN None ELSE dent[i].file]

(* Every step of every syscall, every error and every reset leaves the     *)
(* names as they are or makes one atomic change to the store: an object    *)
(* gets a name, loses it, or moves to a name that was not in use.          *)
ImplementsStore == Store!Spec

(* The state is in its types, and the reference counts of tee_pobj.c and   *)
(* of the shared directory handle (tee_ree_fs.c) are exact.                *)
RefsExact == TypeOK /\ PobjRefsExact /\ DirhRefsExact

(* Who may have an object open together (tee_pobj_check_access(), and the  *)
(* creating state of tee_pobj_get()).                                      *)
SharingRules == CreatorAlone /\ SharingKept
=============================================================================
